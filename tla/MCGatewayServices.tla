-------------------------- MODULE MCGatewayServices --------------------------
(* What the gateway process runs beside its requests                         *)
(* (backend/src/gateway/app.py, lifespan): the chat channels, the refresh of *)
(* repository overviews and the generation poller.  They share one event     *)
(* loop and die together; each then starts from its own file.                *)
EXTENDS Channels, Generation, RepoOverview, TLC

CONSTANT Workloads    \* bound: what is asked of the services in one behaviour

Asked == {"messages", "channelRestarts", "submissions", "analyses", "refreshes", "publications",
          "mounts", "restarts"}
ASSUME WorkloadsAssumption == Workloads \subseteq [Asked -> Nat]

VARIABLE left         \* what is left of the workload

vars == <<channels, generation, repoOverview, left>>

\* Counts of submissions, messages, and so on; the rest of the workload.
Spend(what) == left[what] > 0 /\ left' = [left EXCEPT ![what] = @ - 1]

TypeOK ==
  /\ ChTypeOK /\ GenTypeOK /\ RvTypeOK
  /\ \A what \in DOMAIN left : left[what] \in Nat

Init == /\ ChInit /\ GenInit /\ RvInit
        /\ left \in Workloads
        /\ namesake => left.analyses > 0   \* nothing else looks at the mounted folder

\* The lifespan starts what runs here again; all that was in memory is gone.
Restart == /\ Spend("restarts")
           /\ ChRestart /\ GenCrash /\ RvRestart

\* What users ask for, as far as the workload goes.
Request ==
  \/ Spend("messages") /\ (\E m \in Msgs : Receive(m)) /\ UNCHANGED <<generation, repoOverview>>
  \/ Spend("channelRestarts") /\ RestartChannel /\ UNCHANGED <<generation, repoOverview>>
  \/ Spend("submissions") /\ (\E j \in GenJobs : Submit(j)) /\ UNCHANGED <<channels, repoOverview>>
  \/ Spend("analyses") /\ AnalyseStarts /\ UNCHANGED <<channels, generation>>
  \/ Spend("refreshes") /\ StartRefresh /\ UNCHANGED <<channels, generation>>
  \/ /\ Spend("publications") /\ (\E force \in BOOLEAN : Publish(force))
     /\ UNCHANGED <<channels, generation>>
  \/ Spend("mounts") /\ ChangeMount /\ UNCHANGED <<channels, generation>>

Next == \/ Request \/ Restart
        \/ ChStep /\ UNCHANGED <<generation, repoOverview, left>>
        \/ GenStep /\ UNCHANGED <<channels, repoOverview, left>>
        \/ RvStep /\ UNCHANGED <<channels, generation, left>>

\* The event loop, the executor's threads and the HTTP timeouts let each go on.
Spec == Init /\ [][Next]_vars /\ ChFairness /\ GenFairness /\ RvFairness

\* Threads, notices, task records and published overviews match what was done.
ServicesAgree == /\ TypeOK /\ OneThreadPerTopic /\ NoticeOfEveryEnd
                 /\ RecordsMatchTasks /\ PublishedIsReviewed

\* Every message is answered, every job judged, every refresh over at last.
ServicesGoOn == EveryMessageIsServed /\ JobsEnd /\ EveryRefreshEnds

------------------------------------------------------------------------------
(* Its instance for TLC.                                                     *)

CONSTANTS chat1, chat2, new1, status1

MCMsgs == {chat1, chat2, new1, status1}
MCKind(m) == CASE m = new1 -> "new" [] m = status1 -> "status" [] OTHER -> "chat"
MCTopic(m) == IF m = status1 THEN "none" ELSE "a"
MCTopics == {"a", "none"}
MCGenJobs == 1 .. 2
MCRvJobs == 1 .. 3

Load0 == [messages |-> 0, channelRestarts |-> 0, submissions |-> 0, analyses |-> 0,
          refreshes |-> 0, publications |-> 0, mounts |-> 0, restarts |-> 0]

\* Each service alone in the depth its hazards need; then all of them and a restart.
MCWorkloads ==
  { [Load0 EXCEPT !.messages = 3],
    [Load0 EXCEPT !.messages = 2, !.restarts = 1],
    [Load0 EXCEPT !.messages = 2, !.channelRestarts = 1],
    [Load0 EXCEPT !.submissions = 2],
    [Load0 EXCEPT !.submissions = 1, !.restarts = 1],
    [Load0 EXCEPT !.analyses = 2, !.refreshes = 1, !.publications = 2],
    [Load0 EXCEPT !.analyses = 1, !.refreshes = 2, !.publications = 1, !.mounts = 1,
                  !.restarts = 1] }

\* An analysis is cut by a restart.
MCAnalyseRestart == {[Load0 EXCEPT !.analyses = 1, !.restarts = 1]}
==============================================================================
