---------------------------- MODULE SandboxProofs ----------------------------
(***************************************************************************)
(* Proofs about what runs on the host for the agents: the startup jobs and   *)
(* the stop command of the integration services (IntegrationServices), the   *)
(* ports of the sandbox containers (HostPorts), the pods and services of the *)
(* provisioner (SandboxPods), and the provider of the containers             *)
(* (SandboxProvider) for any number of threads, processes and runs and any   *)
(* placement of the runs.                                                    *)
(***************************************************************************)
EXTENDS SandboxProvider, IntegrationServices, HostPorts, SandboxPods, FiniteSetTheorems, TLAPS

----------------------------------------------------------------------------
(* The integration services.                                                 *)

JobPcs == {"none", "queued", "look", "launch", "pid", "watch", "settled", "over"}
JobStatuses == {"none", "queued", "running", "success", "lost"}

\* The types, with startups and stopping as records.
InTyped ==
  /\ processes \subseteq Startups /\ pidFile \in Startups \cup {0} /\ webUp \in BOOLEAN
  /\ startups \in [Startups -> [status : JobStatuses, target : SUBSET Catalog,
                                pc : JobPcs, looks : 0..SteadyLooks]]
  /\ activeStartup \in Startups \cup {0} /\ shown \subseteq Catalog
  /\ stopping \in [pc : {"none", "check", "kill", "remove"}, pid : Startups \cup {0}]
  /\ stopCrossed \in BOOLEAN

\* What the status says of where the job is, and that it has looks left.
Staged ==
  \A j \in Startups :
    /\ startups[j].pc = "none" => startups[j].status \in {"none", "lost"}
    /\ startups[j].pc = "queued" => startups[j].status = "queued"
    /\ startups[j].pc \in {"look", "launch", "pid", "watch"} => startups[j].status = "running"
    /\ startups[j].pc \in {"settled", "over"} => startups[j].status = "success"
    /\ startups[j].pc \notin {"settled", "over"} => startups[j].looks < SteadyLooks

\* An unfinished job has the slot.
SlotIsTheirs == Unfinished \subseteq {activeStartup}

\* As long as no stop crossed a script: a process that runs has its name in the file, or
\* its job is about to write it and there is no other; a job launches one only when none
\* runs; and a stop meets no script, knows the process and leaves none.
Tracked ==
  ~stopCrossed =>
    /\ \A j \in processes : pidFile = j \/ startups[j].pc = "pid"
    /\ \A j \in Startups : /\ startups[j].pc = "launch" => processes = {}
                           /\ startups[j].pc = "pid" => processes \subseteq {j}
    /\ stopping.pc # "none" => InScript = {}
    /\ stopping.pc = "kill" => stopping.pid = pidFile
    /\ stopping.pc = "remove" => processes = {}

\* Nobody stops: the record is the empty one.
AtRest == stopping.pc = "none" <=> stopping = NoStop

InInv == InTyped /\ Staged /\ SlotIsTheirs /\ Tracked /\ AtRest

LEMMA InInitOK == InInit => InInv
<1> SUFFICES ASSUME InInit PROVE InInv
  OBVIOUS
<1>1. NoStartup \in [status : JobStatuses, target : SUBSET Catalog, pc : JobPcs, looks : 0..SteadyLooks]
  BY StartupsAssumption DEF NoStartup, JobStatuses, JobPcs
<1>2. InTyped
  BY <1>1 DEF InInit, InTyped, NoStop
<1>3. Staged /\ SlotIsTheirs /\ Tracked /\ AtRest
  BY StartupsAssumption DEF InInit, Staged, SlotIsTheirs, Tracked, AtRest, NoStartup, Unfinished, NoStop
<1>4. QED
  BY <1>2, <1>3 DEF InInv

\* A step of one job: where it may go, and what that means for the others.
LEMMA JobMoves ==
  ASSUME InInv, NEW j \in Startups, NEW spot \in JobPcs, NEW status \in JobStatuses,
         NEW looks \in 0..SteadyLooks,
         startups' = [startups EXCEPT ![j].pc = spot, ![j].status = status, ![j].looks = looks],
         startups[j].pc \notin {"none", "over"},
         \/ spot \in {"settled", "over"} /\ status = "success"
         \/ spot \in {"look", "launch", "pid", "watch"} /\ status = "running" /\ looks < SteadyLooks
            /\ startups[j].pc # "settled"
  PROVE  /\ startups' \in [Startups -> [status : JobStatuses, target : SUBSET Catalog,
                                        pc : JobPcs, looks : 0..SteadyLooks]]
         /\ Staged'
         /\ Unfinished' \subseteq Unfinished
         /\ \A k \in Startups : k # j => startups'[k] = startups[k]
         /\ startups'[j].pc = spot
<1>1. startups \in [Startups -> [status : JobStatuses, target : SUBSET Catalog, pc : JobPcs, looks : 0..SteadyLooks]]
  BY DEF InInv, InTyped
<1>2. startups' \in [Startups -> [status : JobStatuses, target : SUBSET Catalog, pc : JobPcs, looks : 0..SteadyLooks]]
  BY <1>1
<1>3. /\ \A k \in Startups : k # j => startups'[k] = startups[k]
      /\ startups'[j].pc = spot /\ startups'[j].status = status /\ startups'[j].looks = looks
  BY <1>1
<1>4. Staged'
  BY <1>3 DEF InInv, Staged
<1>5. Unfinished' \subseteq Unfinished
  <2>1. startups[j].pc \in JobPcs
    BY <1>1
  <2>2. spot \notin {"settled", "over"} => startups[j].status \in {"queued", "running"}
    BY <2>1 DEF InInv, Staged, JobPcs
  <2>3. \A k \in Startups : k \in Unfinished' => k \in Unfinished
    BY <1>3, <2>2 DEF Unfinished
  <2>4. QED
    BY <2>3 DEF Unfinished
<1>6. QED
  BY <1>2, <1>3, <1>4, <1>5

\* What follows of the invariant once the job's record is known to be right.
LEMMA JobSteps ==
  ASSUME InInv, NEW j \in Startups,
         \/ StartupBegins(j) \/ ScriptLooks(j) \/ ScriptLaunches(j) \/ WritesPid(j)
         \/ ScriptFails(j) \/ Watches(j) \/ StartupEnds(j)
  PROVE  InInv'
<1> DEFINE JobType == [status : JobStatuses, target : SUBSET Catalog, pc : JobPcs, looks : 0..SteadyLooks]
           s == startups[j]
<1>0. /\ InTyped /\ Staged /\ SlotIsTheirs /\ Tracked /\ AtRest
      /\ startups \in [Startups -> JobType] /\ s \in JobType /\ j # 0
  BY StartupsAssumption DEF InInv, InTyped
\* Jobs under way have the slot: there is no other.
<1>1. ASSUME NEW k \in Startups, k # j, s.pc \in {"look", "launch", "pid", "watch"}
      PROVE  startups[k].pc \notin {"queued", "look", "launch", "pid", "watch"}
  <2>1. s.status = "running" /\ j \in Unfinished /\ activeStartup = j
    BY <1>0, <1>1 DEF Staged, Unfinished, SlotIsTheirs
  <2>2. k \notin Unfinished
    BY <1>0, <1>1, <2>1 DEF SlotIsTheirs
  <2>3. QED
    BY <1>0, <1>1, <2>2 DEF Staged, Unfinished
<1>2. ASSUME NEW spot \in {"look", "launch", "pid", "watch"}, s.pc \in {"queued", "look", "launch", "pid"},
             startups' = [startups EXCEPT ![j].pc = spot, ![j].status = "running", ![j].looks = s.looks],
             processes' \subseteq Startups, pidFile' \in Startups \cup {0}, webUp' \in BOOLEAN,
             shown' \subseteq Catalog, stopCrossed' \in BOOLEAN, Tracked',
             UNCHANGED <<activeStartup, stopping>>
      PROVE  InInv'
  <2>1. s.looks < SteadyLooks /\ s.looks \in 0..SteadyLooks
    BY <1>0, <1>2 DEF Staged
  <2>2. /\ startups' \in [Startups -> JobType] /\ Staged' /\ Unfinished' \subseteq Unfinished
    <3>1. /\ spot \in JobPcs /\ "running" \in JobStatuses
          /\ startups[j].pc \notin {"none", "over"} /\ startups[j].pc # "settled"
      BY <1>2 DEF JobPcs, JobStatuses
    <3> HIDE DEF s
    <3>2. QED
      BY <1>2, <2>1, <3>1, JobMoves
  <2>3. InTyped' /\ SlotIsTheirs' /\ AtRest'
    BY <1>0, <1>2, <2>2 DEF InTyped, SlotIsTheirs, AtRest
  <2>4. QED
    BY <1>2, <2>2, <2>3 DEF InInv
<1>3. ASSUME NEW spot \in JobPcs, startups' = [startups EXCEPT ![j].pc = spot, ![j].status = "running", ![j].looks = s.looks]
      PROVE  /\ \A k \in Startups : startups'[k].pc = IF k = j THEN spot ELSE startups[k].pc
             /\ InScript' \ {j} = InScript \ {j}
  BY <1>0, <1>3 DEF InScript
<1>4. s.pc \in {"look", "launch", "pid", "watch"} =>
        \A spot \in JobPcs : [startups EXCEPT ![j].pc = spot]
                            = [startups EXCEPT ![j].pc = spot, ![j].status = "running", ![j].looks = s.looks]
  <2>1. s.pc \in {"look", "launch", "pid", "watch"} => s.status = "running"
    BY <1>0 DEF Staged
  <2>2. QED
    BY <1>0, <2>1
<1>5. CASE StartupBegins(j)
  <2>1. /\ startups' = [startups EXCEPT ![j].pc = "look", ![j].status = "running", ![j].looks = s.looks]
        /\ s.pc = "queued" /\ shown' \subseteq Catalog /\ stopCrossed' = (stopCrossed \/ stopping # NoStop)
        /\ UNCHANGED <<processes, pidFile, webUp, activeStartup, stopping>>
    BY <1>0, <1>5 DEF StartupBegins, InTyped
  <2>2. Tracked'
    <3>1. \A k \in Startups : startups'[k].pc = IF k = j THEN "look" ELSE startups[k].pc
      BY <1>3, <2>1 DEF JobPcs
    <3>2. ~ stopCrossed' => ~ stopCrossed /\ stopping.pc = "none"
      BY <1>0, <2>1 DEF AtRest
    <3>3. startups[j].pc = "queued"
      BY <2>1
    <3>4. \A k \in Startups : /\ startups'[k].pc = "launch" <=> startups[k].pc = "launch"
                              /\ startups'[k].pc = "pid" <=> startups[k].pc = "pid"
      BY <3>1, <3>3
    <3>5. QED
      BY <1>0, <2>1, <3>2, <3>4 DEF Tracked, InTyped
  <2>3. QED
    BY <1>0, <1>2, <2>1, <2>2 DEF InTyped
<1>6. CASE ScriptLooks(j) \/ ScriptFails(j)
  <2>1. PICK spot \in {"launch", "watch"} :
          /\ s.pc = "look" /\ startups' = [startups EXCEPT ![j].pc = spot]
          /\ spot = "launch" => NotRunning
    BY <1>6 DEF ScriptLooks, ScriptFails
  <2>2. startups' = [startups EXCEPT ![j].pc = spot, ![j].status = "running", ![j].looks = s.looks]
    BY <1>4, <2>1 DEF JobPcs
  <2>3. webUp' \in BOOLEAN /\ UNCHANGED <<processes, pidFile, activeStartup, shown, stopping, stopCrossed>>
    BY <1>0, <1>6 DEF ScriptLooks, ScriptFails, InTyped
  <2>4. ASSUME ~ stopCrossed, spot = "launch" PROVE processes = {}
    <3>1. \A k \in processes : pidFile = k \/ startups[k].pc = "pid"
      BY <1>0, <2>4 DEF Tracked
    <3>2. \A k \in processes : startups[k].pc # "pid"
      BY <1>0, <1>1, <2>1 DEF InTyped
    <3>3. QED
      BY <2>1, <2>4, <3>1, <3>2 DEF NotRunning
  <2>5. Tracked'
    BY <1>0, <1>3, <2>1, <2>2, <2>3, <2>4 DEF Tracked, JobPcs, InTyped, InScript
  <2>6. QED
    BY <1>0, <1>2, <2>1, <2>2, <2>3, <2>5 DEF InTyped
<1>7. CASE ScriptLaunches(j)
  <2>1. /\ s.pc = "launch" /\ processes' = processes \cup {j} /\ startups' = [startups EXCEPT ![j].pc = "pid"]
        /\ UNCHANGED <<pidFile, webUp, activeStartup, shown, stopping, stopCrossed>>
    BY <1>7 DEF ScriptLaunches
  <2>2. startups' = [startups EXCEPT ![j].pc = "pid", ![j].status = "running", ![j].looks = s.looks]
    BY <1>4, <2>1 DEF JobPcs
  <2>3. Tracked'
    <3>1. ~ stopCrossed => processes = {} /\ stopping.pc = "none"
      BY <1>0, <2>1 DEF Tracked, InScript
    <3>2. \A k \in Startups : k # j => startups'[k].pc \notin {"launch", "pid"}
      BY <1>1, <1>3, <2>1, <2>2 DEF JobPcs
    <3>3. startups'[j].pc = "pid"
      BY <1>3, <2>2 DEF JobPcs
    <3>4. QED
      BY <1>0, <2>1, <3>1, <3>2, <3>3 DEF Tracked, InTyped
  <2>4. QED
    BY <1>0, <1>2, <2>1, <2>2, <2>3 DEF InTyped
<1>8. CASE WritesPid(j)
  <2>1. /\ s.pc = "pid" /\ pidFile' = j /\ startups' = [startups EXCEPT ![j].pc = "watch"]
        /\ UNCHANGED <<processes, webUp, activeStartup, shown, stopping, stopCrossed>>
    BY <1>8 DEF WritesPid
  <2>2. startups' = [startups EXCEPT ![j].pc = "watch", ![j].status = "running", ![j].looks = s.looks]
    BY <1>4, <2>1 DEF JobPcs
  <2>3. Tracked'
    <3>1. ~ stopCrossed => processes \subseteq {j} /\ stopping.pc = "none"
      BY <1>0, <2>1 DEF Tracked, InScript
    <3>2. \A k \in Startups : k # j => startups'[k].pc \notin {"launch", "pid"}
      BY <1>1, <1>3, <2>1, <2>2 DEF JobPcs
    <3>3. startups'[j].pc = "watch"
      BY <1>3, <2>2 DEF JobPcs
    <3>4. QED
      BY <1>0, <2>1, <3>1, <3>2, <3>3 DEF Tracked, InTyped
  <2>4. QED
    BY <1>0, <1>2, <2>1, <2>2, <2>3 DEF InTyped
<1>9. CASE Watches(j)
  <2> DEFINE n == s.looks + 1
  <2>1. n \in 0..SteadyLooks /\ s.status = "running" /\ s.pc = "watch"
    BY <1>0, <1>9, StartupsAssumption DEF Watches, Staged
  <2>2. PICK spot \in {"settled", "watch"}, status \in {"success", "running"} :
          /\ startups' = [startups EXCEPT ![j].pc = spot, ![j].status = status, ![j].looks = n]
          /\ \/ spot = "settled" /\ status = "success"
             \/ spot = "watch" /\ status = "running" /\ n < SteadyLooks
    <3>1. CASE n = SteadyLooks
      BY <1>0, <1>9, <3>1 DEF Watches
    <3>2. CASE n # SteadyLooks
      <4>1. n < SteadyLooks
        BY <2>1, <3>2, StartupsAssumption
      <4>2. startups' = [startups EXCEPT ![j].pc = "watch", ![j].status = "running", ![j].looks = n]
        BY <1>0, <1>9, <2>1, <3>2 DEF Watches
      <4>3. QED
        BY <4>1, <4>2
    <3>3. QED
      BY <3>1, <3>2
  <2> HIDE DEF n
  <2>3. /\ startups' \in [Startups -> JobType] /\ Staged' /\ Unfinished' \subseteq Unfinished
        /\ \A k \in Startups : k # j => startups'[k] = startups[k]
        /\ startups'[j].pc = spot
    BY <2>1, <2>2, JobMoves DEF JobPcs, JobStatuses
  <2>4. UNCHANGED <<processes, pidFile, webUp, activeStartup, shown, stopping, stopCrossed>>
    BY <1>9 DEF Watches
  <2>5. Tracked'
    <3>1. \A k \in Startups : startups'[k].pc \in {"look", "launch", "pid"} => startups'[k] = startups[k]
      BY <2>3, <2>2
    <3>2. InScript' \subseteq InScript
      BY <3>1 DEF InScript
    <3>3. \A k \in Startups : startups[k].pc = "pid" => startups'[k].pc = "pid"
      BY <2>1, <2>3
    <3>4. QED
      BY <1>0, <2>4, <3>1, <3>2, <3>3 DEF Tracked, InTyped
  <2>6. QED
    BY <1>0, <2>3, <2>4, <2>5 DEF InInv, InTyped, SlotIsTheirs, AtRest
<1>10. CASE StartupEnds(j)
  <2>1. /\ s.pc = "settled" /\ s.status = "success" /\ startups' = [startups EXCEPT ![j].pc = "over"]
        /\ activeStartup' = IF activeStartup = j THEN 0 ELSE activeStartup
        /\ UNCHANGED <<processes, pidFile, webUp, shown, stopping, stopCrossed>>
    BY <1>0, <1>10 DEF StartupEnds, Cleared, Staged
  <2>2. startups' = [startups EXCEPT ![j].pc = "over", ![j].status = "success", ![j].looks = s.looks]
    BY <1>0, <2>1
  <2>3. s.looks \in 0..SteadyLooks
    BY <1>0
  <2>4. /\ startups' \in [Startups -> JobType] /\ Staged' /\ Unfinished' \subseteq Unfinished
        /\ \A k \in Startups : k # j => startups'[k] = startups[k]
        /\ startups'[j].pc = "over"
    BY <2>1, <2>2, <2>3, JobMoves, ZenonT(40) DEF JobPcs, JobStatuses
  <2>5. Tracked'
    <3>1. InScript' = InScript
      BY <2>1, <2>4 DEF InScript
    <3>2. \A k \in Startups : \A spot \in {"launch", "pid"} : startups'[k].pc = spot <=> startups[k].pc = spot
      BY <2>1, <2>4
    <3>3. QED
      BY <1>0, <2>1, <3>1, <3>2 DEF Tracked, InTyped
  <2>6. SlotIsTheirs'
    <3>1. j \notin Unfinished
      BY <2>1 DEF Unfinished
    <3>2. QED
      BY <1>0, <2>1, <2>4, <3>1 DEF SlotIsTheirs
  <2>7. QED
    BY <1>0, <2>1, <2>4, <2>5, <2>6 DEF InInv, InTyped, AtRest
<1>11. QED
  BY <1>5, <1>6, <1>7, <1>8, <1>9, <1>10

LEMMA InStep == InInv /\ [InNext]_integrations => InInv'
<1> SUFFICES ASSUME InInv, [InNext]_integrations PROVE InInv'
  OBVIOUS
<1> DEFINE JobType == [status : JobStatuses, target : SUBSET Catalog, pc : JobPcs, looks : 0..SteadyLooks]
<1>0. /\ InTyped /\ Staged /\ SlotIsTheirs /\ Tracked /\ AtRest
      /\ startups \in [Startups -> JobType] /\ 0 \notin Startups
  BY StartupsAssumption DEF InInv, InTyped
\* What moves neither a job nor its slot leaves the rest to be shown.
<1>1. ASSUME processes' \subseteq Startups, pidFile' \in Startups \cup {0}, webUp' \in BOOLEAN,
             stopping' \in [pc : {"none", "check", "kill", "remove"}, pid : Startups \cup {0}],
             stopCrossed' \in BOOLEAN, Tracked', AtRest', UNCHANGED <<startups, activeStartup, shown>>
      PROVE  InInv'
  BY <1>0, <1>1 DEF InInv, InTyped, Staged, SlotIsTheirs, Unfinished
<1>2. ASSUME NEW target \in SUBSET Catalog, StartServices(target) PROVE InInv'
  <2>1. UNCHANGED <<processes, pidFile, webUp, shown, stopping, stopCrossed>> /\ stopping = NoStop
    BY <1>2 DEF StartServices
  <2>2. CASE UNCHANGED <<startups, activeStartup>>
    BY <1>0, <1>1, <2>1, <2>2 DEF InTyped, Tracked, AtRest, InScript
  <2>3. ASSUME NEW j \in Startups \ Asked, activeStartup \notin Unfinished, activeStartup' = j,
               startups' = [startups EXCEPT ![j] = [NoStartup EXCEPT !.status = "queued",
                                                      !.target = target, !.pc = "queued"]]
        PROVE  InInv'
    <3> DEFINE new == [NoStartup EXCEPT !.status = "queued", !.target = target, !.pc = "queued"]
    <3>1. new \in JobType /\ new.status = "queued" /\ new.pc = "queued" /\ new.looks < SteadyLooks
      <4>1. NoStartup \in JobType /\ NoStartup.looks = 0 /\ 0 < SteadyLooks
        BY StartupsAssumption DEF NoStartup, JobStatuses, JobPcs
      <4>2. \A x \in JobType :
              LET y == [x EXCEPT !.status = "queued", !.target = target, !.pc = "queued"]
              IN /\ y \in JobType /\ y.status = "queued" /\ y.pc = "queued" /\ y.looks = x.looks
        BY <1>2 DEF JobStatuses, JobPcs
      <4>3. QED
        BY <4>1, <4>2
    <3> HIDE DEF new
    <3>2. startups' \in [Startups -> JobType] /\ \A k \in Startups : startups'[k] = IF k = j THEN new ELSE startups[k]
      BY <1>0, <2>3, <3>1 DEF new
    <3>3. Staged'
      BY <1>0, <3>1, <3>2 DEF Staged
    <3>4. SlotIsTheirs'
      BY <1>0, <2>3, <3>2 DEF SlotIsTheirs, Unfinished
    <3>5. startups[j].pc \notin {"look", "launch", "pid"}
      BY <1>0, <2>3 DEF Staged, Asked
    <3>6. Tracked'
      <4>1. \A k \in Startups : \A spot \in {"launch", "pid"} : startups'[k].pc = spot <=> startups[k].pc = spot
        BY <3>1, <3>2, <3>5
      <4>2. stopping.pc = "none"
        BY <2>1 DEF NoStop
      <4>3. QED
        BY <1>0, <2>1, <4>1, <4>2 DEF Tracked, InTyped
    <3>7. QED
      BY <1>0, <2>1, <2>3, <3>2, <3>3, <3>4, <3>6 DEF InInv, InTyped, AtRest
  <2>4. QED
    BY <1>2, <2>2, <2>3 DEF StartServices
<1>3. CASE StopWebSearch
  BY <1>0, <1>1, <1>3 DEF StopWebSearch, StopAsked, InTyped, Tracked, AtRest, InScript
<1>4. CASE StopComfy
  <2>1. /\ stopping' = [pc |-> "check", pid |-> 0] /\ stopCrossed' = (stopCrossed \/ InScript # {})
        /\ UNCHANGED <<processes, pidFile, webUp, startups, activeStartup, shown>>
    BY <1>4 DEF StopComfy, StopAsked, NoStop
  <2>2. Tracked' /\ AtRest'
    BY <1>0, <2>1 DEF Tracked, AtRest, InScript, NoStop
  <2>3. stopCrossed' \in BOOLEAN
    BY <1>0, <2>1 DEF InTyped
  <2>4. QED
    BY <1>0, <1>1, <2>1, <2>2, <2>3 DEF InTyped
<1>5. CASE StopReads
  <2>1. /\ stopping.pc = "check"
        /\ stopping' = IF pidFile \in processes THEN [pc |-> "kill", pid |-> pidFile]
                       ELSE [pc |-> "remove", pid |-> 0]
        /\ UNCHANGED <<processes, pidFile, webUp, startups, activeStartup, shown, stopCrossed>>
    BY <1>5 DEF StopReads
  <2>2. ~ stopCrossed => processes \subseteq {pidFile}
    BY <1>0, <2>1 DEF Tracked, InScript, InTyped
  <2>3. Tracked' /\ AtRest'
    BY <1>0, <2>1, <2>2 DEF Tracked, AtRest, InScript, NoStop
  <2>4. QED
    BY <1>0, <1>1, <2>1, <2>3 DEF InTyped
<1>6. CASE StopKills
  <2>1. /\ stopping.pc = "kill" /\ processes' = processes \ {stopping.pid}
        /\ stopping' = [stopping EXCEPT !.pc = "remove"]
        /\ UNCHANGED <<pidFile, webUp, startups, activeStartup, shown, stopCrossed>>
    BY <1>6 DEF StopKills
  <2>2. ~ stopCrossed => processes' = {} /\ InScript = {}
    BY <1>0, <2>1 DEF Tracked, InScript, InTyped
  <2>3. stopping'.pc = "remove" /\ stopping' \in [pc : {"none", "check", "kill", "remove"}, pid : Startups \cup {0}]
    BY <1>0, <2>1 DEF InTyped
  <2>4. Tracked' /\ AtRest'
    BY <1>0, <2>1, <2>2, <2>3 DEF Tracked, AtRest, InScript, NoStop
  <2>5. QED
    BY <1>0, <1>1, <2>1, <2>3, <2>4 DEF InTyped
<1>7. CASE StopRemoves
  <2>1. /\ stopping.pc = "remove" /\ pidFile' = 0 /\ stopping' = NoStop
        /\ UNCHANGED <<processes, webUp, startups, activeStartup, shown, stopCrossed>>
    BY <1>7 DEF StopRemoves
  <2>2. Tracked' /\ AtRest'
    BY <1>0, <2>1 DEF Tracked, AtRest, InScript, NoStop
  <2>3. QED
    BY <1>0, <1>1, <2>1, <2>2 DEF InTyped, NoStop
<1>8. ASSUME NEW j \in Startups, ComfyDies(j) PROVE InInv'
  <2>1. /\ processes' = processes \ {j}
        /\ UNCHANGED <<pidFile, webUp, startups, activeStartup, shown, stopping, stopCrossed>>
    BY <1>8 DEF ComfyDies
  <2>2. Tracked' /\ AtRest'
    BY <1>0, <2>1 DEF Tracked, AtRest, InScript
  <2>3. QED
    BY <1>0, <1>1, <2>1, <2>2 DEF InTyped
<1>9. CASE InRestart
  <2> DEFINE lost == [NoStartup EXCEPT !.status = "lost"]
  <2>1. /\ \A j \in Startups : startups'[j] = IF startups[j].pc \in {"none", "over"} THEN startups[j] ELSE lost
        /\ startups' = [j \in Startups |-> IF startups[j].pc \in {"none", "over"} THEN startups[j] ELSE lost]
        /\ activeStartup' = 0 /\ shown' = {} /\ stopping' = NoStop
        /\ stopCrossed' = (stopCrossed \/ InScript # {} \/ stopping # NoStop)
        /\ UNCHANGED <<processes, pidFile, webUp>>
    BY <1>9 DEF InRestart
  <2>2. lost \in JobType /\ lost.status = "lost" /\ lost.pc = "none" /\ lost.looks < SteadyLooks
    BY StartupsAssumption DEF NoStartup, JobStatuses, JobPcs
  <2> HIDE DEF lost
  <2>3. startups' \in [Startups -> JobType]
    BY <1>0, <2>1, <2>2
  <2>4. Staged'
    BY <1>0, <2>1, <2>2 DEF Staged
  <2>5. Unfinished' = {}
    BY <1>0, <2>1, <2>2 DEF Unfinished, Staged
  <2>6. Tracked'
    <3>1. ~ stopCrossed' => ~ stopCrossed /\ InScript = {}
      BY <2>1
    <3>2. \A k \in Startups : startups'[k].pc \notin {"look", "launch", "pid"}
      BY <1>0, <2>1, <2>2
    <3>3. QED
      BY <1>0, <2>1, <3>1, <3>2 DEF Tracked, InScript, NoStop, InTyped
  <2>7. stopCrossed' \in BOOLEAN /\ stopping' \in [pc : {"none", "check", "kill", "remove"}, pid : Startups \cup {0}]
    BY <1>0, <2>1 DEF InTyped, NoStop
  <2>8. AtRest'
    BY <2>1 DEF AtRest, NoStop
  <2>9. QED
    BY <1>0, <2>1, <2>3, <2>4, <2>5, <2>6, <2>7, <2>8 DEF InInv, InTyped, SlotIsTheirs
<1>10. CASE UNCHANGED integrations
  BY <1>0, <1>1, <1>10 DEF integrations, InTyped, Tracked, AtRest, InScript
<1>11. QED
  BY <1>2, <1>3, <1>4, <1>5, <1>6, <1>7, <1>8, <1>9, <1>10, JobSteps DEF InNext, Catalog

\* At most one startup is under way, and a ComfyUI process that runs can be found, unless
\* a stop crossed a script: for any number of jobs, stops and restarts of the gateway.
THEOREM ServicesStartOnce == InSpec => []StartupsAreSound
<1>1. InInv => InTypeOK
  <2> SUFFICES ASSUME InInv PROVE InTypeOK
    OBVIOUS
  <2>1. \A j \in Startups : startups[j] \in [status : JobStatuses, target : SUBSET Catalog,
                                              pc : JobPcs, looks : 0..SteadyLooks]
    BY DEF InInv, InTyped
  <2>2. QED
    BY <2>1 DEF InInv, InTyped, InTypeOK, JobStatuses, JobPcs
<1>2. InInv => OneStartup
  <2> SUFFICES ASSUME InInv PROVE Cardinality(Unfinished) <= 1
    BY DEF OneStartup
  <2>1. IsFiniteSet({activeStartup}) /\ Cardinality({activeStartup}) = 1
    BY FS_Singleton
  <2>2. Unfinished \subseteq {activeStartup}
    BY DEF InInv, SlotIsTheirs
  <2>3. QED
    BY <2>1, <2>2, FS_Subset
<1>3. InInv => ProcessIsNamed
  BY DEF InInv, Tracked, ProcessIsNamed
<1>4. QED
  BY InInitOK, InStep, <1>1, <1>2, <1>3, PTL DEF InSpec, StartupsAreSound

----------------------------------------------------------------------------
(* The ports of the containers.                                              *)

CallPcs == {"out", "pick", "run", "conflict", "exhausted"}
CallType == [pc : CallPcs, box : Boxes \cup {"none"}, port : 0..LastPort,
             from : 1..LastPort + 1, tries : 0..MaxTries, refused : SUBSET Ports]
HoldType == [box : Boxes \cup {"none"}, port : 0..LastPort, owned : BOOLEAN]

\* The types, with calls and holds as records.
PortTyped ==
  /\ bound \in [Boxes -> [port : Ports, by : Creators] \cup {Stopped}]
  /\ lingering \subseteq Ports
  /\ reserved \in [Homes -> SUBSET Ports] /\ hostRuns \in 0..MaxRuns
  /\ call \in [Creators -> CallType] /\ holds \in [Creators -> HoldType]

\* A call: while it is under way the thread holds no sandbox, and it has attempts left;
\* what was refused lies behind the next port, each attempt another.
CallIsRight(k, h) ==
  /\ k.pc \in {"pick", "run", "conflict"} => h = NoHold /\ k.box \in Boxes
  /\ k.pc \in {"pick", "run"} => k.tries < MaxTries
  /\ k.pc = "run" => k.port \in Ports /\ k.port >= k.from
  /\ \A p \in k.refused : p < k.from
  /\ IsFiniteSet(k.refused) /\ Cardinality(k.refused) = k.tries
  /\ h # NoHold => h.box \in Boxes

CallsAreRight == \A c \in Creators : CallIsRight(call[c], holds[c])

HpInv == PortTyped /\ CallsAreRight /\ NoLeakedPort

LEMMA PortTypes ==
  /\ LastPort \in Nat /\ MaxTries \in Nat /\ MaxTries > 0 /\ LastPort > 0
  /\ NotIn \in CallType /\ NoHold \in HoldType
  /\ \A c \in Creators : Home[c] \in Homes
<1>1. LastPort \in Nat /\ MaxTries \in Nat /\ MaxTries > 0 /\ LastPort > 0
  BY PortsAssumption
<1>2. 0 \in 0..LastPort /\ 1 \in 1..LastPort + 1 /\ 0 \in 0..MaxTries /\ {} \in SUBSET Ports
  BY <1>1
<1>3. QED
  BY <1>1, <1>2 DEF NotIn, NoHold, CallType, HoldType, CallPcs, Homes

LEMMA NotInIsRight == ASSUME NEW h \in HoldType, h # NoHold => h.box \in Boxes PROVE CallIsRight(NotIn, h)
<1>1. IsFiniteSet({}) /\ Cardinality({}) = 0
  BY FS_EmptySet
<1>2. QED
  BY <1>1 DEF CallIsRight, NotIn

\* A thread's call goes on, or its sandbox comes and goes.
LEMMA CallMoves ==
  ASSUME HpInv, NEW c \in Creators, NEW k \in CallType, NEW h \in HoldType,
         CallIsRight(k, h), call' = [call EXCEPT ![c] = k], holds' = [holds EXCEPT ![c] = h]
  PROVE  /\ call' \in [Creators -> CallType] /\ holds' \in [Creators -> HoldType]
         /\ CallsAreRight'
         /\ call'[c] = k /\ holds'[c] = h
         /\ \A d \in Creators : d # c => call'[d] = call[d] /\ holds'[d] = holds[d]
<1>1. call \in [Creators -> CallType] /\ holds \in [Creators -> HoldType]
  BY DEF HpInv, PortTyped
<1>2. \A d \in Creators : /\ call'[d] = IF d = c THEN k ELSE call[d]
                          /\ holds'[d] = IF d = c THEN h ELSE holds[d]
  BY <1>1
<1>3. CallsAreRight'
  BY <1>2 DEF HpInv, CallsAreRight
<1>4. QED
  BY <1>1, <1>2, <1>3

\* The same with the ports: what the thread no longer uses is given back.
LEMMA PortMoves ==
  ASSUME HpInv, NEW c \in Creators, NEW k \in CallType, NEW h \in HoldType,
         CallIsRight(k, h), call' = [call EXCEPT ![c] = k], holds' = [holds EXCEPT ![c] = h],
         reserved' \in [Homes -> SUBSET Ports],
         \A d \in Creators : Home[d] # Home[c] => reserved'[Home[d]] = reserved[Home[d]],
         \A p \in reserved'[Home[c]] :
            \/ k.pc = "run" /\ k.port = p
            \/ h.owned /\ h.port = p
            \/ /\ p \in reserved[Home[c]]
               /\ ~ (call[c].pc = "run" /\ call[c].port = p)
               /\ ~ (holds[c].owned /\ holds[c].port = p)
  PROVE  CallsAreRight' /\ NoLeakedPort' /\ call' \in [Creators -> CallType] /\ holds' \in [Creators -> HoldType]
<1>1. /\ call' \in [Creators -> CallType] /\ holds' \in [Creators -> HoldType] /\ CallsAreRight'
      /\ call'[c] = k /\ holds'[c] = h
      /\ \A d \in Creators : d # c => call'[d] = call[d] /\ holds'[d] = holds[d]
  BY CallMoves
<1>2. ASSUME NEW d \in Creators, NEW p \in reserved'[Home[d]]
      PROVE  \E e \in Creators : /\ Home[e] = Home[d]
                                 /\ \/ call'[e].pc = "run" /\ call'[e].port = p
                                    \/ holds'[e].owned /\ holds'[e].port = p
  <2>1. CASE Home[d] = Home[c] /\ \/ k.pc = "run" /\ k.port = p
                                  \/ h.owned /\ h.port = p
    BY <1>1, <2>1
  <2>2. CASE /\ p \in reserved[Home[d]]
             /\ Home[d] = Home[c] => /\ ~ (call[c].pc = "run" /\ call[c].port = p)
                                     /\ ~ (holds[c].owned /\ holds[c].port = p)
    <3>1. PICK e \in Creators : /\ Home[e] = Home[d]
                                /\ \/ call[e].pc = "run" /\ call[e].port = p
                                   \/ holds[e].owned /\ holds[e].port = p
      BY <2>2 DEF HpInv, NoLeakedPort
    <3>2. e # c
      BY <2>2, <3>1
    <3>3. QED
      BY <1>1, <3>1, <3>2
  <2>3. QED
    BY <1>2, <2>1, <2>2
<1>3. QED
  BY <1>1, <1>2 DEF NoLeakedPort

LEMMA HpInitOK == HpInit => HpInv
<1> SUFFICES ASSUME HpInit PROVE HpInv
  OBVIOUS
<1>1. PortTyped
  BY PortTypes, PortsAssumption DEF HpInit, PortTyped
<1>2. CallsAreRight
  BY NotInIsRight, PortTypes DEF HpInit, CallsAreRight
<1>3. NoLeakedPort
  BY PortTypes DEF HpInit, NoLeakedPort
<1>4. QED
  BY <1>1, <1>2, <1>3 DEF HpInv

LEMMA HpStep == HpInv /\ [HpNext]_ports => HpInv'
<1> SUFFICES ASSUME HpInv, [HpNext]_ports PROVE HpInv'
  OBVIOUS
<1>0. PortTyped /\ CallsAreRight /\ NoLeakedPort
  BY DEF HpInv
\* What Docker does moves no call.
<1>1. ASSUME bound' \in [Boxes -> [port : Ports, by : Creators] \cup {Stopped}],
             lingering' \subseteq Ports, UNCHANGED <<reserved, call, holds, hostRuns>>
      PROVE  HpInv'
  BY <1>0, <1>1 DEF HpInv, PortTyped, CallsAreRight, NoLeakedPort
<1>2. ASSUME NEW b \in Boxes, Gone(b), bound[b] # Stopped
      PROVE  bound' \in [Boxes -> [port : Ports, by : Creators] \cup {Stopped}] /\ lingering' \subseteq Ports
  BY <1>0, <1>2 DEF Gone, PortTyped
<1>3. ASSUME NEW b \in Boxes, ContainerExits(b) PROVE HpInv'
  BY <1>1, <1>2, <1>3 DEF ContainerExits
<1>4. ASSUME NEW p \in Ports, PortIsFree(p) PROVE HpInv'
  BY <1>0, <1>1, <1>4 DEF PortIsFree, PortTyped
<1>5. CASE UNCHANGED ports
  BY <1>0, <1>1, <1>5 DEF ports, PortTyped
<1>6. ASSUME NEW c \in Creators,
             \/ \E b \in Boxes : Create(c, b)
             \/ PickPort(c) \/ ContainerRuns(c) \/ PortRefused(c) \/ RunFails(c)
             \/ NameTaken(c) \/ DiscoverAfterConflict(c) \/ DestroyBox(c)
      PROVE  HpInv'
  <2> DEFINE k == call[c]
             h == holds[c]
             H == Home[c]
  <2>0. /\ k \in CallType /\ h \in HoldType /\ CallIsRight(k, h) /\ H \in Homes
        /\ reserved \in [Homes -> SUBSET Ports] /\ NotIn \in CallType /\ NoHold \in HoldType
        /\ LastPort \in Nat /\ MaxTries \in Nat /\ MaxTries > 0 /\ CallIsRight(NotIn, h)
        /\ CallIsRight(NotIn, NoHold) /\ LastPort > 0
    <3>1. k \in CallType /\ h \in HoldType /\ CallIsRight(k, h) /\ H \in Homes
      BY <1>0, PortTypes DEF PortTyped, CallsAreRight
    <3>2. h # NoHold => h.box \in Boxes
      BY <3>1 DEF CallIsRight
    <3>3. QED
      BY <1>0, <3>1, <3>2, PortTypes, NotInIsRight DEF PortTyped
  <2>1. holds = [holds EXCEPT ![c] = h] /\ call = [call EXCEPT ![c] = k]
    BY <1>0 DEF PortTyped
  \* A port given back.
  <2>2. ASSUME NEW p, ReleasePort(H, p)
        PROVE  /\ reserved' \in [Homes -> SUBSET Ports] /\ reserved'[H] = reserved[H] \ {p}
               /\ \A d \in Creators : Home[d] # H => reserved'[Home[d]] = reserved[Home[d]]
    <3>1. reserved' = [reserved EXCEPT ![H] = reserved[H] \ {p}]
      BY <2>2 DEF ReleasePort
    <3> HIDE DEF H
    <3>2. QED
      BY <2>0, <3>1, PortTypes
  <2>3. ASSUME NEW m \in CallType, NEW g \in HoldType, CallIsRight(m, g),
               call' = [call EXCEPT ![c] = m], holds' = [holds EXCEPT ![c] = g],
               UNCHANGED reserved,
               k.pc = "run" => g.owned /\ g.port = k.port,
               h.owned => g = h,
               bound' \in [Boxes -> [port : Ports, by : Creators] \cup {Stopped}],
               lingering' \subseteq Ports, hostRuns' \in 0..MaxRuns
        PROVE  HpInv'
    <3>1. \A p \in reserved'[H] :
            \/ m.pc = "run" /\ m.port = p
            \/ g.owned /\ g.port = p
            \/ /\ p \in reserved[H]
               /\ ~ (k.pc = "run" /\ k.port = p)
               /\ ~ (h.owned /\ h.port = p)
      BY <2>3
    <3>2. CallsAreRight' /\ NoLeakedPort' /\ call' \in [Creators -> CallType] /\ holds' \in [Creators -> HoldType]
      BY <2>0, <2>3, <3>1, PortMoves
    <3>3. QED
      BY <2>0, <2>3, <3>2 DEF HpInv, PortTyped
  <2>4. ASSUME NEW m \in CallType, NEW g \in HoldType, CallIsRight(m, g),
               call' = [call EXCEPT ![c] = m], holds' = [holds EXCEPT ![c] = g],
               NEW p, ReleasePort(H, p),
               k.pc = "run" => k.port = p,
               h.owned => g = h \/ h.port = p,
               bound' \in [Boxes -> [port : Ports, by : Creators] \cup {Stopped}],
               lingering' \subseteq Ports, UNCHANGED hostRuns
        PROVE  HpInv'
    <3>1. \A q \in reserved'[H] :
            \/ m.pc = "run" /\ m.port = q
            \/ g.owned /\ g.port = q
            \/ /\ q \in reserved[H]
               /\ ~ (k.pc = "run" /\ k.port = q)
               /\ ~ (h.owned /\ h.port = q)
      BY <2>2, <2>4
    <3>2. CallsAreRight' /\ NoLeakedPort' /\ call' \in [Creators -> CallType] /\ holds' \in [Creators -> HoldType]
      BY <2>0, <2>2, <2>4, <3>1, PortMoves
    <3>3. QED
      BY <1>0, <2>2, <2>4, <3>2 DEF HpInv, PortTyped
  <2>5. ASSUME NEW b \in Boxes, Create(c, b) PROVE HpInv'
    <3> DEFINE m == [NotIn EXCEPT !.pc = "pick", !.box = b]
    <3>1. m \in CallType
      BY <2>0 DEF CallType, CallPcs
    <3>2. CallIsRight(m, NoHold)
      <4>1. m.pc = "pick" /\ m.box = b /\ m.refused = {} /\ m.tries = 0
        BY DEF NotIn
      <4>2. IsFiniteSet({}) /\ Cardinality({}) = 0
        BY FS_EmptySet
      <4> HIDE DEF m
      <4>3. QED
        BY <2>0, <4>1, <4>2 DEF CallIsRight
    <3>3. /\ call' = [call EXCEPT ![c] = m] /\ h = NoHold /\ hostRuns' \in 0..MaxRuns
          /\ k.pc # "run" /\ UNCHANGED <<bound, lingering, reserved, holds>>
      BY <1>0, <2>5, PortsAssumption DEF Create, PortTyped
    <3> HIDE DEF m
    <3>4. holds' = [holds EXCEPT ![c] = NoHold] /\ ~ NoHold.owned
      BY <2>1, <3>3 DEF NoHold
    <3>5. QED
      BY <1>0, <2>0, <2>3, <3>1, <3>2, <3>3, <3>4 DEF PortTyped
  <2>6. CASE PickPort(c)
    <3>1. /\ k.pc = "pick" /\ h = NoHold /\ ~ NoHold.owned /\ UNCHANGED <<bound, lingering, holds, hostRuns>>
          /\ holds' = [holds EXCEPT ![c] = NoHold]
      BY <2>0, <2>1, <2>6 DEF PickPort, CallIsRight, NoHold
    <3>2. CASE call' = [call EXCEPT ![c] = NotIn] /\ UNCHANGED reserved
      BY <1>0, <2>0, <2>3, <3>1, <3>2 DEF PortTyped
    <3>3. ASSUME NEW p \in Choices(c), reserved' = [reserved EXCEPT ![H] = @ \cup {p}],
                 call' = [call EXCEPT ![c].pc = "run", ![c].port = p]
          PROVE  HpInv'
      <4> DEFINE m == [k EXCEPT !.pc = "run", !.port = p]
      <4>1. p \in Ports /\ p \in 0..LastPort /\ p >= k.from
        BY <2>0, <3>3 DEF Choices, Ports, CallType
      <4>2. m \in CallType /\ m.pc = "run" /\ m.port = p /\ m.from = k.from /\ m.refused = k.refused
            /\ m.tries = k.tries /\ m.box = k.box
        BY <2>0, <4>1 DEF CallType, CallPcs
      <4>3. call' = [call EXCEPT ![c] = m]
        BY <3>3
      <4> HIDE DEF m
      <4>4. CallIsRight(m, NoHold)
        BY <2>0, <3>1, <4>1, <4>2 DEF CallIsRight
      <4>5. /\ reserved' \in [Homes -> SUBSET Ports] /\ reserved'[H] = reserved[H] \cup {p}
            /\ \A d \in Creators : Home[d] # H => reserved'[Home[d]] = reserved[Home[d]]
        <5> HIDE DEF H
        <5>1. QED
          BY <2>0, <3>3, <4>1, PortTypes
      <4>6. CallsAreRight' /\ NoLeakedPort' /\ call' \in [Creators -> CallType] /\ holds' \in [Creators -> HoldType]
        BY <2>0, <3>1, <4>2, <4>3, <4>4, <4>5, PortMoves
      <4>7. QED
        BY <1>0, <3>1, <4>5, <4>6 DEF HpInv, PortTyped
    <3>4. QED
      BY <2>6, <3>2, <3>3 DEF PickPort
  <2>7. CASE ContainerRuns(c)
    <3> DEFINE g == [box |-> k.box, port |-> k.port, owned |-> TRUE]
    <3>1. /\ k.pc = "run" /\ h = NoHold /\ k.port \in Ports /\ k.box \in Boxes
          /\ call' = [call EXCEPT ![c] = NotIn] /\ holds' = [holds EXCEPT ![c] = g]
          /\ bound' = [bound EXCEPT ![k.box] = [port |-> k.port, by |-> c]]
          /\ UNCHANGED <<lingering, reserved, hostRuns>>
      BY <2>0, <2>7 DEF ContainerRuns, CallIsRight
    <3>2. g \in HoldType /\ g.owned /\ g.port = k.port /\ g.box \in Boxes
      BY <2>0, <3>1 DEF HoldType, CallType
    <3>3. bound' \in [Boxes -> [port : Ports, by : Creators] \cup {Stopped}]
      <4> HIDE DEF k
      <4>1. QED
        BY <1>0, <3>1 DEF PortTyped
    <3> HIDE DEF g
    <3>4. CallIsRight(NotIn, g) /\ ~ h.owned
      BY <3>1, <3>2, NotInIsRight DEF NoHold
    <3>5. QED
      BY <1>0, <2>0, <2>3, <3>1, <3>2, <3>3, <3>4 DEF PortTyped
  <2>8. CASE PortRefused(c)
    <3> DEFINE again == [k EXCEPT !.pc = "pick", !.port = 0, !.from = From(k.port), !.tries = k.tries + 1,
                                  !.refused = k.refused \cup {k.port}]
               over == [again EXCEPT !.pc = "exhausted", !.box = "none"]
               m == IF again.tries < MaxTries THEN again ELSE over
    <3>1. /\ k.pc = "run" /\ ReleasePort(H, k.port) /\ call' = [call EXCEPT ![c] = m]
          /\ UNCHANGED <<bound, lingering, holds, hostRuns>>
      BY <2>8 DEF PortRefused
    <3>2. /\ h = NoHold /\ k.port \in Ports /\ k.port >= k.from /\ k.tries < MaxTries
          /\ k.box \in Boxes /\ k.port \notin k.refused
          /\ IsFiniteSet(k.refused) /\ Cardinality(k.refused) = k.tries
      BY <2>0, <3>1 DEF CallIsRight, CallType, Ports
    <3>3. k.port + 1 \in 1..LastPort + 1 /\ k.tries + 1 \in 0..MaxTries /\ 0 \in 0..LastPort
      BY <2>0, <3>2 DEF CallType, Ports
    <3>4. again \in CallType /\ again.pc = "pick" /\ again.tries = k.tries + 1 /\ again.from = k.port + 1
          /\ again.refused = k.refused \cup {k.port} /\ again.box = k.box
      BY <2>0, <3>2, <3>3 DEF CallType, CallPcs, From
    <3> HIDE DEF again
    <3>5. over \in CallType /\ over.pc = "exhausted" /\ over.tries = again.tries
          /\ over.from = again.from /\ over.refused = again.refused
      BY <3>4 DEF CallType, CallPcs
    <3>6. \A p \in again.refused : p < again.from
      <4>1. \A p \in k.refused : p \in Int /\ p < k.from
        BY <2>0 DEF CallIsRight, CallType, Ports
      <4>2. k.from \in Int /\ k.port \in Int
        BY <2>0 DEF CallType
      <4>3. QED
        BY <3>2, <3>4, <4>1, <4>2
    <3>7. IsFiniteSet(again.refused) /\ Cardinality(again.refused) = again.tries
      <4>1. ASSUME NEW S, NEW x, IsFiniteSet(S), x \notin S
            PROVE  IsFiniteSet(S \cup {x}) /\ Cardinality(S \cup {x}) = Cardinality(S) + 1
        BY <4>1, FS_AddElement
      <4> DEFINE R == k.refused \cup {k.port}
      <4>2. IsFiniteSet(R) /\ Cardinality(R) = Cardinality(k.refused) + 1
        BY <3>2, <4>1
      <4>3. again.refused = R /\ again.tries = Cardinality(k.refused) + 1
        BY <3>2, <3>4
      <4> HIDE DEF R
      <4>4. QED
        BY <4>2, <4>3, Zenon
    <3> HIDE DEF over
    <3>8. m \in CallType /\ CallIsRight(m, NoHold)
      BY <3>2, <3>4, <3>5, <3>6, <3>7 DEF CallIsRight
    <3>9. holds' = [holds EXCEPT ![c] = NoHold] /\ ~ NoHold.owned
      BY <2>1, <3>1, <3>2 DEF NoHold
    <3> HIDE DEF m
    <3>10. QED
      BY <1>0, <2>0, <2>4, <3>1, <3>2, <3>8, <3>9 DEF PortTyped
  <2>9. CASE RunFails(c)
    <3>1. k.pc = "run" /\ h = NoHold /\ ReleasePort(H, k.port) /\ call' = [call EXCEPT ![c] = NotIn]
          /\ UNCHANGED <<bound, lingering, holds, hostRuns>> /\ holds' = [holds EXCEPT ![c] = NoHold]
      BY <2>0, <2>1, <2>9 DEF RunFails, CallIsRight
    <3>2. QED
      BY <1>0, <2>0, <2>4, <3>1 DEF PortTyped
  <2>10. CASE NameTaken(c)
    <3> DEFINE m == [k EXCEPT !.pc = "conflict", !.port = 0]
    <3>1. k.pc = "run" /\ h = NoHold /\ ReleasePort(H, k.port) /\ call' = [call EXCEPT ![c] = m]
          /\ UNCHANGED <<bound, lingering, holds, hostRuns>> /\ holds' = [holds EXCEPT ![c] = NoHold]
      BY <2>0, <2>1, <2>10 DEF NameTaken, CallIsRight
    <3>2. m \in CallType /\ m.pc = "conflict" /\ m.box = k.box /\ m.refused = k.refused
          /\ m.tries = k.tries /\ m.from = k.from
      <4>1. 0 \in 0..LastPort /\ "conflict" \in CallPcs
        BY <2>0 DEF CallPcs
      <4>2. QED
        BY <2>0, <4>1 DEF CallType
    <3> HIDE DEF m
    <3>3. CallIsRight(m, NoHold)
      BY <2>0, <3>1, <3>2 DEF CallIsRight
    <3>4. QED
      BY <1>0, <2>0, <2>4, <3>1, <3>2, <3>3 DEF PortTyped
  <2>11. CASE DiscoverAfterConflict(c)
    <3>1. /\ k.pc = "conflict" /\ h = NoHold /\ k.box \in Boxes /\ call' = [call EXCEPT ![c] = NotIn]
          /\ UNCHANGED <<bound, lingering, reserved, hostRuns>>
      BY <2>0, <2>11 DEF DiscoverAfterConflict, CallIsRight
    <3>2. CASE UNCHANGED holds
      BY <1>0, <2>0, <2>1, <2>3, <3>1, <3>2 DEF PortTyped
    <3>3. CASE bound[k.box] # Stopped
               /\ holds' = [holds EXCEPT ![c] = [box |-> k.box, port |-> bound[k.box].port, owned |-> FALSE]]
      <4> DEFINE g == [box |-> k.box, port |-> bound[k.box].port, owned |-> FALSE]
      <4>1. bound[k.box].port \in 0..LastPort
        BY <1>0, <3>1, <3>3 DEF PortTyped, Ports
      <4>2. g \in HoldType /\ g.box \in Boxes /\ ~ h.owned
        BY <3>1, <4>1 DEF HoldType, NoHold
      <4>3. holds' = [holds EXCEPT ![c] = g]
        BY <3>3
      <4> HIDE DEF g
      <4>4. CallIsRight(NotIn, g)
        BY <4>2, NotInIsRight
      <4>5. QED
        BY <1>0, <2>0, <2>3, <3>1, <4>2, <4>3, <4>4 DEF PortTyped
    <3>4. QED
      BY <2>11, <3>2, <3>3 DEF DiscoverAfterConflict
  <2>12. CASE DestroyBox(c)
    <3>1. /\ h # NoHold /\ ReleasePort(H, h.port) /\ holds' = [holds EXCEPT ![c] = NoHold]
          /\ UNCHANGED <<call, hostRuns>>
          /\ (h.owned /\ bound[h.box].by = c /\ Gone(h.box)) \/ UNCHANGED <<bound, lingering>>
      BY <2>12 DEF DestroyBox
    <3>2. h.box \in Boxes /\ k.pc # "run"
      BY <2>0, <3>1 DEF CallIsRight
    <3>3. CallIsRight(k, NoHold) /\ call' = [call EXCEPT ![c] = k]
      BY <2>0, <2>1, <3>1, <3>2 DEF CallIsRight, NoHold
    <3>4. bound' \in [Boxes -> [port : Ports, by : Creators] \cup {Stopped}] /\ lingering' \subseteq Ports
      <4>1. CASE UNCHANGED <<bound, lingering>>
        BY <1>0, <4>1 DEF PortTyped
      <4>2. CASE bound[h.box].by = c /\ Gone(h.box)
        <5>1. bound[h.box] # Stopped
          BY <4>2, PortsAssumption DEF Stopped
        <5>2. QED
          BY <1>2, <3>2, <4>2, <5>1
      <4>3. QED
        BY <3>1, <4>1, <4>2
    <3>5. QED
      BY <2>0, <2>4, <3>1, <3>2, <3>3, <3>4
  <2>13. QED
    BY <1>6, <2>5, <2>6, <2>7, <2>8, <2>9, <2>10, <2>11, <2>12
<1>7. QED
  BY <1>3, <1>4, <1>5, <1>6 DEF HpNext

\* No port is lost for a process and no call tries a port twice, for any number of threads
\* and processes that compete for the range, whatever exits, lingers or is destroyed.
THEOREM PortsComeBack == HpSpec => []PortsAreSound
<1>1. HpInv => HpTypeOK
  <2> SUFFICES ASSUME HpInv PROVE HpTypeOK
    OBVIOUS
  <2>1. \A c \in Creators : call[c] \in CallType /\ holds[c] \in HoldType
    BY DEF HpInv, PortTyped
  <2>2. QED
    BY <2>1 DEF HpInv, PortTyped, HpTypeOK, CallType, CallPcs, HoldType
<1>2. HpInv => RetriesProgress
  BY DEF HpInv, CallsAreRight, CallIsRight, RetriesProgress
<1>3. HpInv => NoLeakedPort
  BY DEF HpInv
<1>4. QED
  BY HpInitOK, HpStep, <1>1, <1>2, <1>3, PTL DEF HpSpec, PortsAreSound

----------------------------------------------------------------------------
(* The pods of the Kubernetes provisioner.                                   *)

PodPcs == {"idle", "look", "pod", "service", "rollback", "port", "delservice", "delpod", "answer"}
PodOps == {"none", "create", "delete", "get"}
Request == [by : Clients, op : PodOps \ {"none"}, nr : 1..MaxRequests]
ServedType == [by : Clients \cup {"nobody"}, op : PodOps, nr : 0..MaxRequests, pc : PodPcs, bad : BOOLEAN]

PodTyped ==
  /\ pod \in Phases /\ svc \in {"none", "made", "port"}
  /\ inbox \in Seq(Request) /\ at \in ServedType
  /\ waits \in [Clients -> 0..MaxRequests] /\ knows \in [Clients -> BOOLEAN]
  /\ half \in BOOLEAN /\ unknown \in BOOLEAN
  /\ provisioner \in {"down", "starting", "up"}
  /\ requests \in 0..MaxRequests /\ faults \in 0..MaxFaults

\* A request that is served has its client and number, and a delete its own steps.
Serving ==
  /\ at.pc # "idle" => at.by \in Clients /\ at.nr # 0
  /\ at.pc \in {"look", "pod", "service", "rollback", "port"} => at.op # "delete"

\* As long as nothing got lost, whoever waits has one request under way.
Waited ==
  ~unknown =>
    /\ at.pc # "idle" => waits[at.by] = at.nr /\ \A i \in 1..Len(inbox) : inbox[i].by # at.by
    /\ \A i \in 1..Len(inbox) : waits[inbox[i].by] = inbox[i].nr
    /\ \A i, j \in 1..Len(inbox) : inbox[i].by = inbox[j].by => i = j

\* A pod is without its service only in the course of its making or removal.
Paired == ~half /\ Alive /\ svc = "none" => at.pc \in {"service", "rollback", "delpod"}

\* A delete takes the service first.
ServiceFirst == ~unknown /\ at.pc = "delpod" => svc = "none"

\* Who will see to what is there: a backend that knows the sandbox, a delete under way, or
\* a create that will tell its client or take the pod back.
InCare ==
  \/ \E c \in Clients : knows[c]
  \/ \E i \in 1..Len(inbox) : inbox[i].op = "delete"
  \/ at.pc \in {"delservice", "delpod", "port"}
  \/ at.pc \in {"service", "rollback"} /\ svc = "none"
  \/ at.pc = "answer" /\ at.op # "delete" /\ ~at.bad
Cared == ~half /\ ~unknown /\ (Alive \/ svc # "none") => InCare

PdInv == PodTyped /\ Serving /\ Waited /\ Paired /\ ServiceFirst /\ Cared

LEMMA PdInitOK == PdInit => PdInv
<1> SUFFICES ASSUME PdInit PROVE PdInv
  OBVIOUS
<1>1. Len(inbox) = 0 /\ inbox \in Seq(Request) /\ at \in ServedType /\ at.pc = "idle"
  BY PodsAssumption DEF PdInit, Nothing, ServedType, PodPcs, PodOps
<1>2. PodTyped
  <2>1. waits \in [Clients -> 0..MaxRequests] /\ knows \in [Clients -> BOOLEAN]
    BY PodsAssumption DEF PdInit
  <2>2. requests \in 0..MaxRequests /\ faults \in 0..MaxFaults
    BY PodsAssumption DEF PdInit
  <2>3. QED
    BY <1>1, <2>1, <2>2 DEF PdInit, PodTyped, Phases
<1>3. QED
  BY <1>1, <1>2 DEF PdInit, PdInv, Serving, Waited, Paired, ServiceFirst, Cared, Alive

LEMMA PodsSuffice == PdInv => PodsAreKnown
<1> SUFFICES ASSUME PdInv PROVE PodsAreKnown
  OBVIOUS
<1>1. at = Nothing => at.pc = "idle"
  BY DEF Nothing
<1>2. inbox = <<>> => Len(inbox) = 0
  OBVIOUS
<1>3. NoStrandedPod
  BY <1>1 DEF PdInv, Paired, NoStrandedPod
<1>4. SomebodyKnows
  BY <1>1, <1>2 DEF PdInv, Cared, InCare, SomebodyKnows
<1>5. PdTypeOK
  <2>1. at.pc \in PodPcs /\ \A i \in 1..Len(inbox) : inbox[i] \in Request
    BY DEF PdInv, PodTyped, ServedType
  <2>2. \A x \in Request : x.by \in Clients /\ x.op \in {"create", "delete", "get"}
    BY DEF Request, PodOps
  <2>3. QED
    BY <2>1, <2>2 DEF PdInv, PodTyped, PdTypeOK, PodPcs
<1>6. QED
  BY <1>3, <1>4, <1>5 DEF PodsAreKnown

\* A step of the request that is served changes where it is and whether it failed.
LEMMA ServingMoves ==
  ASSUME at \in ServedType, NEW p \in PodPcs, NEW b \in BOOLEAN,
         at' \in {[at EXCEPT !.pc = p], [at EXCEPT !.pc = p, !.bad = b]}
  PROVE  /\ at' \in ServedType /\ at'.pc = p
         /\ at'.by = at.by /\ at'.op = at.op /\ at'.nr = at.nr
         /\ at'.bad \in {at.bad, b}
  BY DEF ServedType

\* What the steps of a request do to the pod and its service.
Moves ==
  /\ at'.by = at.by /\ at'.op = at.op /\ at'.nr = at.nr /\ at' \in ServedType
  /\ UNCHANGED <<inbox, provisioner, waits, knows, requests>> /\ faults' \in 0..MaxFaults
  /\ \/ /\ at.pc = "look" /\ UNCHANGED <<pod, svc, half, unknown>>
        /\ \/ svc = "port" /\ at'.pc = "answer" /\ ~at'.bad
           \/ at'.pc = "answer" /\ at'.bad
           \/ at'.pc = "pod"
     \/ /\ at.pc = "pod" /\ UNCHANGED <<svc, half, unknown>>
        /\ \/ pod' = (IF pod = "NotFound" THEN "Pending" ELSE pod) /\ at'.pc = "service"
           \/ pod' = pod /\ at'.pc = "answer" /\ at'.bad
     \/ /\ at.pc = "service" /\ UNCHANGED <<pod, half, unknown>>
        /\ \/ svc' = (IF svc = "none" THEN "made" ELSE svc) /\ at'.pc = "port"
           \/ svc' = svc /\ at'.pc = "rollback"
     \/ /\ at.pc = "rollback" /\ UNCHANGED <<svc, unknown>> /\ at'.pc = "answer" /\ at'.bad
        /\ \/ pod' = Deleted /\ half' = half
           \/ pod' = pod /\ half'
     \/ /\ at.pc = "port" /\ UNCHANGED <<pod, svc, half>> /\ at'.pc = "answer"
        /\ \/ svc = "port" /\ ~at'.bad /\ unknown' = unknown
           \/ at'.bad /\ unknown'
     \/ /\ at.pc = "delservice" /\ UNCHANGED <<pod, half>> /\ at'.pc = "delpod"
        /\ \/ svc' = "none" /\ unknown' = unknown
           \/ svc' = svc /\ unknown'
     \/ /\ at.pc = "delpod" /\ UNCHANGED <<svc>> /\ at'.pc = "answer"
        /\ \/ pod' = Deleted /\ UNCHANGED <<half, unknown>>
           \/ pod' = pod /\ half' /\ unknown'

LEMMA ServiceMoves ==
  ASSUME PodTyped,
         Look \/ MakePod \/ MakeService \/ RollBack \/ AwaitPort \/ DeleteService \/ DeletePod
  PROVE  Moves
<1> USE DEF Moves, Step, Ends
<1>1. /\ at \in ServedType /\ half \in BOOLEAN /\ unknown \in BOOLEAN
      /\ faults \in 0..MaxFaults /\ (Fault => faults' \in 0..MaxFaults)
  BY PodsAssumption DEF PodTyped, Fault
<1>2. \A p \in PodPcs, b \in BOOLEAN :
        at' \in {[at EXCEPT !.pc = p], [at EXCEPT !.pc = p, !.bad = b]} =>
          /\ at' \in ServedType /\ at'.pc = p /\ at'.by = at.by
          /\ at'.op = at.op /\ at'.nr = at.nr /\ at'.bad \in {at.bad, b}
  BY <1>1, ServingMoves
<1>3. \A p \in PodPcs, b \in BOOLEAN : at' = [at EXCEPT !.pc = p, !.bad = b] => at'.bad = b
  BY <1>1 DEF ServedType
<1> USE <1>1, <1>2, <1>3 DEF PodPcs
<1>4. CASE Look
  BY <1>4 DEF Look
<1>5. CASE MakePod
  BY <1>5 DEF MakePod
<1>6. CASE MakeService
  BY <1>6 DEF MakeService
<1>7. CASE RollBack
  BY <1>7 DEF RollBack
<1>8. CASE AwaitPort
  BY <1>8 DEF AwaitPort
<1>9. CASE DeleteService
  BY <1>9 DEF DeleteService
<1>10. CASE DeletePod
  BY <1>10 DEF DeletePod, ServedType
<1>11. QED
  BY <1>4, <1>5, <1>6, <1>7, <1>8, <1>9, <1>10

LEMMA MovesStep == ASSUME PdInv, Moves PROVE PdInv'
<1> USE DEF Moves
<1>1. PodTyped'
  BY DEF PdInv, PodTyped, Phases, Deleted
<1>2. Serving'
  BY DEF PdInv, Serving
<1>3. Waited'
  BY DEF PdInv, Waited
<1>4. Paired'
  BY DEF PdInv, Paired, Alive, Deleted
<1>5. ServiceFirst'
  BY DEF PdInv, ServiceFirst
<1>6. Cared'
  BY DEF PdInv, Cared, InCare, Alive, Deleted, ServiceFirst, Serving, PodTyped
<1>7. QED
  BY <1>1, <1>2, <1>3, <1>4, <1>5, <1>6 DEF PdInv

LEMMA RequestsAre ==
  ASSUME PdInv
  PROVE  \A i \in 1..Len(inbox) : inbox[i].by \in Clients /\ inbox[i].nr # 0
<1>1. \A i \in 1..Len(inbox) : inbox[i] \in Request
  BY DEF PdInv, PodTyped
<1>2. \A x \in Request : x.by \in Clients /\ x.nr # 0
  BY DEF Request
<1>3. QED
  BY <1>1, <1>2

LEMMA AskStep ==
  ASSUME PdInv, NEW c \in Clients, NEW op \in {"create", "delete", "get"}, Ask(c, op)
  PROVE  PdInv'
<1> DEFINE new == [by |-> c, op |-> op, nr |-> requests + 1]
<1>1. /\ new \in Request /\ new.by = c /\ new.op = op /\ new.nr = requests + 1 /\ new.nr # 0
      /\ requests + 1 \in 1..MaxRequests
  BY PodsAssumption DEF PdInv, PodTyped, Request, PodOps, Ask
<1>2. /\ UNCHANGED <<pod, svc, at, provisioner, half, faults>> /\ waits[c] = 0
      /\ requests' = requests + 1
  BY DEF Ask
<1>3. knows' \in [Clients -> BOOLEAN] /\ \A d \in Clients : knows'[d] <=> knows[d] /\ d # c
  BY DEF Ask, PdInv, PodTyped
<1>4. CASE provisioner = "up"
  <2>1. /\ inbox' = Append(inbox, new) /\ waits' = [waits EXCEPT ![c] = requests + 1]
        /\ unknown' = unknown
    BY <1>4 DEF Ask
  <2> HIDE DEF new
  <2>2. /\ inbox' \in Seq(Request) /\ Len(inbox') = Len(inbox) + 1 /\ Len(inbox) \in Nat
        /\ \A i \in 1..Len(inbox) : inbox'[i] = inbox[i]
        /\ inbox'[Len(inbox) + 1] = new
    BY <1>1, <2>1 DEF PdInv, PodTyped
  <2>3. waits' \in [Clients -> 0..MaxRequests] /\ waits'[c] = new.nr /\ \A d \in Clients \ {c} : waits'[d] = waits[d]
    BY <1>1, <2>1 DEF PdInv, PodTyped
  <2>4. PodTyped'
    <3>1. requests' \in 0..MaxRequests
      BY <1>1, <1>2
    <3>2. QED
      BY <1>2, <1>3, <2>1, <2>2, <2>3, <3>1 DEF PdInv, PodTyped
  <2>5. \A i \in 1..Len(inbox) : inbox[i].by \in Clients /\ inbox[i].nr # 0
    BY RequestsAre
  <2>6. ~unknown => /\ \A i \in 1..Len(inbox) : inbox[i].by # c
                    /\ at.pc # "idle" => at.by # c
    BY <1>2, <2>5 DEF PdInv, Waited, Serving
  <2>7. Waited'
    <3>1. SUFFICES ASSUME ~unknown' PROVE Waited'
      BY DEF Waited
    <3>2. Waited /\ ~unknown /\ Serving
      BY <2>1, <3>1 DEF PdInv
    <3>3. at.pc # "idle" => waits'[at.by] = at.nr
      BY <2>3, <2>6, <3>2 DEF Waited, Serving
    <3>4. \A i \in 1..Len(inbox') : i \in 1..Len(inbox) \/ i = Len(inbox) + 1
      BY <2>2
    <3>5. at.pc # "idle" => \A i \in 1..Len(inbox') : inbox'[i].by # at.by
      BY <1>1, <2>2, <2>6, <3>2, <3>4 DEF Waited
    <3>6. \A i \in 1..Len(inbox') : waits'[inbox'[i].by] = inbox'[i].nr
      BY <1>1, <2>2, <2>3, <2>5, <2>6, <3>2, <3>4 DEF Waited
    <3>7. \A i, j \in 1..Len(inbox') : inbox'[i].by = inbox'[j].by => i = j
      BY <1>1, <2>2, <2>6, <3>2, <3>4 DEF Waited
    <3>8. QED
      BY <1>2, <3>3, <3>5, <3>6, <3>7 DEF Waited
  <2>8. Serving' /\ Paired' /\ ServiceFirst'
    BY <1>2, <2>1 DEF PdInv, Serving, Paired, ServiceFirst, Alive
  <2>9. Cared'
    <3>1. SUFFICES ASSUME ~half', ~unknown', Alive' \/ svc' # "none" PROVE InCare'
      BY DEF Cared
    <3>2. InCare
      BY <1>2, <2>1, <3>1 DEF PdInv, Cared, Alive
    <3>3. CASE \E d \in Clients : knows[d] /\ d # c
      BY <1>3, <3>3 DEF InCare
    <3>4. CASE op = "delete"
      BY <1>1, <2>2, <3>4 DEF InCare
    <3>5. CASE op # "delete" /\ ~ \E d \in Clients : knows[d] /\ d # c
      <4>1. ~ knows[c]
        BY <3>5 DEF Ask
      <4>2. ~ \E d \in Clients : knows[d]
        BY <3>5, <4>1
      <4>3. \A i \in 1..Len(inbox) : i \in 1..Len(inbox')
        BY <2>2
      <4>4. QED
        BY <1>2, <2>2, <3>2, <4>2, <4>3 DEF InCare
    <3>6. QED
      BY <3>3, <3>4, <3>5
  <2>10. QED
    BY <2>4, <2>7, <2>8, <2>9 DEF PdInv
<1>5. CASE provisioner # "up"
  <2>1. /\ UNCHANGED <<inbox, waits>> /\ unknown' = (unknown \/ op = "delete")
        /\ (op = "delete") = knows[c]
    BY <1>5 DEF Ask
  <2>2. PodTyped'
    <3>1. requests' \in 0..MaxRequests /\ unknown' \in BOOLEAN
      BY <1>1, <1>2, <2>1
    <3>2. QED
      BY <1>2, <1>3, <2>1, <3>1 DEF PdInv, PodTyped
  <2>3. Serving' /\ Waited' /\ Paired' /\ ServiceFirst'
    BY <1>2, <2>1 DEF PdInv, Serving, Waited, Paired, ServiceFirst, Alive
  <2>4. Cared'
    BY <1>2, <1>3, <2>1 DEF PdInv, Cared, InCare, Alive
  <2>5. QED
    BY <2>2, <2>3, <2>4 DEF PdInv
<1>6. QED
  BY <1>4, <1>5

LEMMA ServeStep == ASSUME PdInv, Serve PROVE PdInv'
<1>1. /\ inbox \in Seq(Request) /\ inbox # <<>> /\ at = Nothing /\ inbox' = Tail(inbox)
      /\ UNCHANGED <<pod, svc, provisioner, waits, knows, half, unknown, requests, faults>>
  BY DEF PdInv, PodTyped, Serve
<1>2. /\ Len(inbox) \in Nat \ {0} /\ Len(inbox') = Len(inbox) - 1 /\ inbox' \in Seq(Request)
      /\ \A i \in 1..Len(inbox') : inbox'[i] = inbox[i + 1] /\ i + 1 \in 1..Len(inbox)
      /\ Head(inbox) = inbox[1] /\ 1 \in 1..Len(inbox) /\ inbox[1] \in Request
  BY <1>1
<1>3. /\ at'.by = inbox[1].by /\ at'.op = inbox[1].op /\ at'.nr = inbox[1].nr /\ ~at'.bad
      /\ at'.pc = IF inbox[1].op = "delete" THEN "delservice" ELSE "look"
      /\ at' \in ServedType /\ at'.by \in Clients /\ at'.nr # 0
  BY <1>2 DEF Serve, ServedType, Request, PodPcs
<1>4. at.pc = "idle"
  BY <1>1 DEF Nothing
<1>5. PodTyped' /\ Serving'
  BY <1>1, <1>2, <1>3 DEF PdInv, PodTyped, Serving
<1>6. Waited'
  <2>1. SUFFICES ASSUME ~unknown' PROVE Waited'
    BY DEF Waited
  <2>2. Waited /\ ~unknown
    BY <1>1, <2>1 DEF PdInv
  <2>3. waits'[at'.by] = at'.nr
    BY <1>1, <1>2, <1>3, <2>2 DEF Waited
  <2>4. \A i \in 1..Len(inbox') : i + 1 # 1 /\ inbox'[i].by # at'.by
    BY <1>2, <1>3, <2>2 DEF Waited
  <2>5. \A i \in 1..Len(inbox') : waits'[inbox'[i].by] = inbox'[i].nr
    BY <1>1, <1>2, <2>2 DEF Waited
  <2>6. \A i, j \in 1..Len(inbox') : inbox'[i].by = inbox'[j].by => i = j
    <3>1. TAKE i, j \in 1..Len(inbox')
    <3>2. HAVE inbox'[i].by = inbox'[j].by
    <3>3. inbox[i + 1].by = inbox[j + 1].by /\ i + 1 \in 1..Len(inbox) /\ j + 1 \in 1..Len(inbox)
      BY <1>2, <3>2
    <3>4. i + 1 = j + 1
      BY <2>2, <3>3 DEF Waited
    <3>5. QED
      BY <3>4
  <2>7. QED
    BY <2>3, <2>4, <2>5, <2>6 DEF Waited
<1>7. Paired' /\ ServiceFirst'
  BY <1>1, <1>3, <1>4 DEF PdInv, Paired, ServiceFirst, Alive
<1>8. Cared'
  <2>1. SUFFICES ASSUME ~half', ~unknown', Alive' \/ svc' # "none" PROVE InCare'
    BY DEF Cared
  <2>2. InCare
    BY <1>1, <2>1 DEF PdInv, Cared, Alive
  <2>3. CASE \E c \in Clients : knows[c]
    BY <1>1, <2>3 DEF InCare
  <2>4. CASE \E i \in 1..Len(inbox) : inbox[i].op = "delete"
    <3>1. PICK i \in 1..Len(inbox) : inbox[i].op = "delete"
      BY <2>4
    <3>2. CASE i = 1
      BY <1>3, <3>1, <3>2 DEF InCare
    <3>3. CASE i # 1
      <4>1. i - 1 \in 1..Len(inbox') /\ inbox'[i - 1] = inbox[i - 1 + 1] /\ i - 1 + 1 = i
        BY <1>2, <3>3
      <4>2. QED
        BY <3>1, <4>1 DEF InCare
    <3>4. QED
      BY <3>2, <3>3
  <2>5. QED
    BY <1>4, <2>2, <2>3, <2>4 DEF InCare
<1>9. QED
  BY <1>5, <1>6, <1>7, <1>8 DEF PdInv

LEMMA AnswerStep == ASSUME PdInv, Answer PROVE PdInv'
<1>1. /\ at.pc = "answer" /\ at' = Nothing /\ at.by \in Clients /\ at.nr # 0
      /\ UNCHANGED <<pod, svc, inbox, provisioner, half, unknown, requests, faults>>
  BY DEF Answer, PdInv, Serving
<1>2. at'.pc = "idle" /\ at' \in ServedType
  BY <1>1, PodsAssumption DEF Nothing, ServedType, PodPcs, PodOps
<1>3. \/ /\ waits[at.by] = at.nr /\ waits' = [waits EXCEPT ![at.by] = 0]
         /\ knows' = [knows EXCEPT ![at.by] = @ \/ (at.op # "delete" /\ ~at.bad)]
      \/ waits[at.by] # at.nr /\ UNCHANGED <<waits, knows>>
  BY DEF Answer
<1>4. waits' \in [Clients -> 0..MaxRequests] /\ \A c \in Clients \ {at.by} : waits'[c] = waits[c]
  BY <1>1, <1>3, PodsAssumption DEF PdInv, PodTyped
<1>5. knows' \in [Clients -> BOOLEAN] /\ \A c \in Clients : knows[c] => knows'[c]
  BY <1>1, <1>3 DEF PdInv, PodTyped
<1>6. waits[at.by] = at.nr /\ at.op # "delete" /\ ~at.bad => knows'[at.by]
  BY <1>1, <1>3 DEF PdInv, PodTyped
<1>7. PodTyped' /\ Serving' /\ Paired' /\ ServiceFirst'
  BY <1>1, <1>2, <1>4, <1>5 DEF PdInv, PodTyped, Serving, Paired, ServiceFirst, Alive
<1>8. Waited'
  <2>1. \A i \in 1..Len(inbox) : inbox[i].by \in Clients
    BY RequestsAre
  <2>2. QED
    BY <1>1, <1>2, <1>4, <2>1 DEF PdInv, Waited
<1>9. Cared'
  BY <1>1, <1>5, <1>6 DEF PdInv, Cared, InCare, Alive, Waited
<1>10. QED
  BY <1>7, <1>8, <1>9 DEF PdInv

\* What loses a request is remembered.
LEMMA LossSteps ==
  ASSUME PdInv, Dies \/ \E c \in Clients : GivesUp(c)
  PROVE  PdInv'
<1>1. /\ unknown' = TRUE /\ UNCHANGED <<pod, svc, knows, requests>>
      /\ faults' \in 0..MaxFaults /\ provisioner' \in {"down", "starting", "up"}
  BY PodsAssumption DEF Dies, GivesUp, Fault, PdInv, PodTyped
<1>2. CASE Dies
  <2>1. /\ at' = Nothing /\ inbox' = <<>> /\ waits' = [c \in Clients |-> 0]
        /\ half' = (half \/ at.pc \in {"service", "rollback", "delpod"})
    BY <1>2 DEF Dies
  <2>2. at'.pc = "idle" /\ at' \in ServedType /\ inbox' \in Seq(Request)
    BY <2>1, PodsAssumption DEF Nothing, ServedType, PodPcs, PodOps
  <2>3. waits' \in [Clients -> 0..MaxRequests]
    BY <2>1, PodsAssumption
  <2>4. PodTyped'
    BY <1>1, <2>1, <2>2, <2>3 DEF PdInv, PodTyped
  <2>5. QED
    BY <1>1, <2>1, <2>2, <2>4 DEF PdInv, Serving, Waited, Paired, ServiceFirst, Cared, Alive
<1>3. CASE \E c \in Clients : GivesUp(c)
  <2>1. waits' \in [Clients -> 0..MaxRequests] /\ UNCHANGED <<at, inbox, half>>
    BY <1>3, PodsAssumption DEF GivesUp, PdInv, PodTyped
  <2>2. QED
    BY <1>1, <2>1 DEF PdInv, PodTyped, Serving, Waited, Paired, ServiceFirst, Cared, Alive
<1>4. QED
  BY <1>2, <1>3

\* What Kubernetes and the start of the provisioner do.
LEMMA OtherSteps ==
  ASSUME PdInv, PodMoves \/ PortAllocated \/ Starts \/ \E usable \in BOOLEAN : Boots(usable)
  PROVE  PdInv'
<1>1. /\ UNCHANGED <<inbox, at, waits, knows, half, unknown, requests>>
      /\ faults' \in 0..MaxFaults /\ provisioner' \in {"down", "starting", "up"}
  BY PodsAssumption DEF PodMoves, PortAllocated, Starts, Boots, Fault, PdInv, PodTyped
<1>2. /\ pod' \in Phases
      /\ Alive' => Alive
      /\ svc' = svc \/ (svc = "made" /\ svc' = "port")
  BY DEF PodMoves, PortAllocated, Starts, Boots, Alive, Phases, PdInv, PodTyped
<1>3. PodTyped' /\ Serving' /\ Waited'
  BY <1>1, <1>2 DEF PdInv, PodTyped, Serving, Waited
<1>4. Paired' /\ ServiceFirst'
  BY <1>1, <1>2 DEF PdInv, Paired, ServiceFirst
<1>5. Cared'
  <2>1. SUFFICES ASSUME ~half', ~unknown', Alive' \/ svc' # "none" PROVE InCare'
    BY DEF Cared
  <2>2. InCare
    BY <1>1, <1>2, <2>1 DEF PdInv, Cared
  <2>3. QED
    BY <1>1, <1>2, <2>2 DEF InCare
<1>6. QED
  BY <1>3, <1>4, <1>5 DEF PdInv

\* No sandbox is left with half of its resources, and somebody who was answered knows of
\* what runs, unless an answer was lost: for any number of clients, requests and faults.
THEOREM PodsStayKnown == PdSpec => []PodsAreKnown
<1>1. PdInv /\ [PdNext]_cluster => PdInv'
  <2>1. SUFFICES ASSUME PdInv, [PdNext]_cluster PROVE PdInv'
    OBVIOUS
  <2>2. CASE UNCHANGED cluster
    BY <2>1, <2>2 DEF cluster, PdInv, PodTyped, Serving, Waited, Paired, ServiceFirst, Cared, InCare, Alive
  <2>3. CASE PdNext
    BY <2>1, <2>3, AskStep, ServeStep, AnswerStep, LossSteps, OtherSteps, ServiceMoves, MovesStep
      DEF PdNext, PdInv
  <2>4. QED
    BY <2>1, <2>2, <2>3
<1>2. QED
  BY <1>1, PdInitOK, PodsSuffice, PTL DEF PdSpec


----------------------------------------------------------------------------
(* The provider.  The inductive invariant is PvInv: the types; a run inside  *)
(* an acquire has its thread's lock, and beyond the file lock that one too,  *)
(* and nothing is cached for its thread (LocksHeld); what it found there is  *)
(* so until it lets go (Found); and whoever may stop a container is its only *)
(* holder, as long as it runs (HeldInv).                                     *)

Inside == {"filelock", "discover", "adopt", "count", "evict", "stop", "start", "ready"}

\* A run on its way has its thread's lock, and nothing is cached for the thread; beyond the
\* file lock it has that one too.
LocksHeld ==
  \A r \in Runs : pc[r] \in Inside =>
    /\ threadLock[ProcOf[r]][ThreadOf[r]] = r
    /\ active[ProcOf[r]][ThreadOf[r]] = None /\ warm[ProcOf[r]][ThreadOf[r]] = None
    /\ pc[r] # "filelock" => fileLock[ThreadOf[r]] = r

\* What a run found: nothing that runs, a container that is not its own, its thread's.
Found ==
  \A r \in Runs :
    /\ pc[r] \in {"count", "evict", "stop", "start"} /\ ~Flaky => running[ThreadOf[r]] = 0
    /\ pc[r] = "adopt" => ~info[r][2].owned
    /\ pc[r] = "ready" => info[r][1] = ThreadOf[r]

\* Who may hold the right to stop a container.
Holders == ({"active", "warm", "doomed"} \X Procs) \cup ({"run"} \X Runs)
Holds(x, th, i) ==
  \/ x[1] = "active" /\ active[x[2]][th] = i
  \/ x[1] = "warm" /\ warm[x[2]][th] = i
  \/ x[1] = "doomed" /\ <<th, i>> \in doomed[x[2]]
  \/ x[1] = "run" /\ pc[x[2]] \in {"stop", "ready"} /\ info[x[2]] = <<th, i>>
Owned(i) == i \in Info /\ i.owned

\* What is held with its id runs, and has one holder.
HeldRuns == \A x \in Holders, th \in Threads, i \in Info :
              Owned(i) /\ Holds(x, th, i) => running[th] = i.inc /\ i.inc # 0
OneHolder == \A x, y \in Holders, th \in Threads, i \in Info :
               Owned(i) /\ Holds(x, th, i) /\ Holds(y, th, i) => x = y
\* Without a crash what runs is held, unless Docker failed to stop it.
RunsAreHeld == crashes = 0 =>
                 \A th \in Threads, i \in Info :
                   Owned(i) /\ running[th] = i.inc /\ i.inc # 0 /\ th \notin unstopped =>
                     \E x \in Holders : Holds(x, th, i)

HeldInv == HeldRuns /\ OneHolder /\ RunsAreHeld

\* What a run works in, and what the idle checker is about to destroy: the container is
\* its thread's entry yet, and the entry was stale when the checker looked or served later.
ToolHasEntry == \A r \in Runs : pc[r] = "using" /\ info[r][2].owned /\ ~cut[r] =>
                                 active[ProcOf[r]][ThreadOf[r]] = info[r][2]
Checked == \A p \in Procs, th \in Threads :
             th \in verified[p] /\ ~shut[p] => stale[p][th] \/ th \in later[p]
ToolInv == ToolHasEntry /\ Checked

PvInv == TypeOK /\ LocksHeld /\ Found /\ ActiveXorWarm /\ HeldInv /\ ToolInv

\* The placement of the runs, which no step changes.
LEMMA PlacesOf ==
  ASSUME TypeOK
  PROVE  /\ ProcOf \in [Runs -> Procs] /\ ThreadOf \in [Runs -> Threads] /\ Flaky \in BOOLEAN
         /\ placement.maxCrashes \in Nat
<1>1. placement \in [procOf : [Runs -> Procs], threadOf : [Runs -> Threads],
                     flaky : BOOLEAN, refuses : BOOLEAN, maxCrashes : Nat]
  BY SandboxAssumption DEF TypeOK
<1>2. QED
  BY <1>1 DEF ProcOf, ThreadOf, Flaky

\* The records of a container.
LEMMA InfoFacts ==
  /\ None \in Info /\ ~None.owned
  /\ \A n \in Nat, b \in BOOLEAN : [inc |-> n, owned |-> b] \in Info
  /\ \A i, j \in Info : i.inc = j.inc /\ i.owned /\ j.owned => i = j
  BY DEF None, Info

\* One entry of a table of one process changes.
LEMMA SetEntry ==
  ASSUME NEW S, NEW f \in [Procs -> [Threads -> S]], NEW p \in Procs, NEW th \in Threads, NEW i \in S,
         NEW g, g = [f EXCEPT ![p][th] = i]
  PROVE  /\ g \in [Procs -> [Threads -> S]] /\ g[p][th] = i
         /\ \A q \in Procs, u \in Threads : q # p \/ u # th => g[q][u] = f[q][u]
         /\ i = f[p][th] => g = f
<1>1. g \in [Procs -> [Threads -> S]]
  OBVIOUS
<1>2. \A q \in Procs : g[q] = IF q = p THEN [f[p] EXCEPT ![th] = i] ELSE f[q]
  OBVIOUS
<1>3. \A q \in Procs, u \in Threads : g[q][u] = IF q = p /\ u = th THEN i ELSE f[q][u]
  BY <1>2
<1>4. i = f[p][th] => g = f
  <2>1. SUFFICES ASSUME i = f[p][th] PROVE g = f
    OBVIOUS
  <2>2. \A q \in Procs : g[q] = f[q]
    <3>1. TAKE q \in Procs
    <3>2. g[q] \in [Threads -> S] /\ f[q] \in [Threads -> S]
      BY <1>1
    <3>3. \A u \in Threads : g[q][u] = f[q][u]
      BY <1>3, <2>1
    <3>4. QED
      BY <3>2, <3>3
  <2>3. QED
    BY <1>1, <2>2
<1>5. QED
  BY <1>1, <1>3, <1>4

----------------------------------------------------------------------------
(* The types.                                                                *)

\* The histories of the tool calls and the idle checker.
LEMMA WitnessTypes ==
  ASSUME TypeOK, Witness PROVE later' \in [Procs -> SUBSET Threads] /\ cut' \in [Runs -> BOOLEAN]
<1>1. verified \in [Procs -> SUBSET Threads]
  BY DEF TypeOK
<1>2. \A p \in Procs : {th \in verified[p] \cap verified'[p] :
                        th \in later[p] \/ (stale[p][th] /\ ~stale'[p][th])} \in SUBSET Threads
  BY <1>1
<1>3. later' \in [Procs -> SUBSET Threads]
  BY <1>2 DEF Witness
<1>4. \A r \in Runs : (pc'[r] = "using" /\ (cut[r] \/ TakesAway(r))) \in BOOLEAN
  OBVIOUS
<1>5. cut' \in [Runs -> BOOLEAN]
  BY <1>4, Zenon DEF Witness
<1>6. QED
  BY <1>3, <1>5

\* A step of a run keeps the types.
LEMMA TypesOfRun ==
  ASSUME TypeOK, NEW r \in Runs, RunStep(r), UNCHANGED placement, Witness PROVE TypeOK'
<1> DEFINE p == ProcOf[r]
           th == ThreadOf[r]
<1>0. /\ p \in Procs /\ th \in Threads /\ placement' \in Placements
      /\ later' \in [Procs -> SUBSET Threads] /\ cut' \in [Runs -> BOOLEAN]
  BY PlacesOf, WitnessTypes DEF TypeOK
<1>1. /\ active \in [Procs -> [Threads -> Info]] /\ warm \in [Procs -> [Threads -> Info]]
      /\ stale \in [Procs -> [Threads -> BOOLEAN]]
      /\ threadLock \in [Procs -> [Threads -> Runs \cup {Free}]]
      /\ fileLock \in [Threads -> Runs \cup {Free}]
      /\ pc \in [Runs -> Places] /\ known \in [Runs -> BOOLEAN] /\ info \in [Runs -> Threads \X Info]
      /\ running \in [Threads -> Nat] /\ starts \in [Threads -> Nat] /\ crashes \in Nat
      /\ info[r][2] \in Info /\ info[r][1] \in Threads
  BY DEF TypeOK
<1> HIDE DEF p, th
<1>2. \A i \in Info : SetActive(p, th, i) => /\ active' \in [Procs -> [Threads -> Info]]
                                           /\ stale' \in [Procs -> [Threads -> BOOLEAN]]
  BY <1>0, <1>1, SetEntry DEF SetActive
<1>3. \A place \in Places : Goto(r, place) => pc' \in [Runs -> Places]
  BY <1>1 DEF Goto
<1>4. \A u \in Threads, i \in Info : Hold(r, u, i) => info' \in [Runs -> Threads \X Info]
  BY <1>1 DEF Hold
<1>5. Unlock(r) => /\ threadLock' \in [Procs -> [Threads -> Runs \cup {Free}]]
                   /\ fileLock' \in [Threads -> Runs \cup {Free}]
  BY <1>0, <1>1, SetEntry DEF Unlock, p, th
<1>6. \A u \in Threads, i \in Info : BackendDestroy(u, i) =>
        running' \in [Threads -> Nat] /\ unstopped' \subseteq Threads
  BY <1>1 DEF BackendDestroy, TypeOK
<1>7. Lookup(p, th) => /\ active' \in [Procs -> [Threads -> Info]]
                       /\ stale' \in [Procs -> [Threads -> BOOLEAN]]
                       /\ warm' \in [Procs -> [Threads -> Info]]
  <2>1. warm' = [warm EXCEPT ![p][th] = None] => warm' \in [Procs -> [Threads -> Info]]
    BY <1>0, <1>1, SetEntry, InfoFacts
  <2>2. active[p][th] \in Info /\ warm[p][th] \in Info
    BY <1>0, <1>1
  <2>3. QED
    BY <1>1, <1>2, <2>1, <2>2 DEF Lookup
<1>8. \A n \in Nat, b \in BOOLEAN : [inc |-> n, owned |-> b] \in Info
  BY InfoFacts
<1>9. /\ "idle" \in Places /\ "filelock" \in Places /\ "discover" \in Places /\ "adopt" \in Places
      /\ "count" \in Places /\ "evict" \in Places /\ "stop" \in Places /\ "start" \in Places
      /\ "ready" \in Places /\ "have" \in Places /\ "using" \in Places
  BY DEF Places
<1>10. active[p][th] \in Info /\ None \in Info /\ running[th] \in Nat /\ starts[th] + 1 \in Nat
  BY <1>0, <1>1, InfoFacts
<1> USE <1>0, <1>1, <1>3, <1>9 DEF TypeOK
<1>11. CASE UseKnown(r)
  BY <1>2, <1>4, <1>10, <1>11 DEF UseKnown, p, th, checker, locks
<1>12. CASE Acquire(r)
  <2>1. threadLock' = [threadLock EXCEPT ![p][th] = r] =>
          threadLock' \in [Procs -> [Threads -> Runs \cup {Free}]]
    BY SetEntry
  <2>2. QED
    BY <1>7, <1>12, <2>1 DEF Acquire, Miss, p, th, provider, checker
<1>13. CASE TakeFileLock(r)
  <2>1. pc' \in [Runs -> Places] /\ UNCHANGED <<running, unstopped, starts, checker, known, info, crashes>>
    BY <1>13 DEF TakeFileLock
  <2>2. CASE Lookup(p, th) /\ Unlock(r)
    BY <1>5, <1>7, <2>1, <2>2 DEF checker
  <2>3. CASE Miss(p, th) /\ fileLock' = [fileLock EXCEPT ![th] = r] /\ UNCHANGED threadLock
    BY <2>1, <2>3 DEF Miss, provider, checker
  <2>4. QED
    BY <1>13, <2>2, <2>3 DEF TakeFileLock, p, th
<1>14. CASE Discover(r)
  BY <1>4, <1>8, <1>10, <1>14 DEF Discover, th, provider, checker, locks
<1>15. CASE Adopt(r)
  BY <1>2, <1>5, <1>15 DEF Adopt, p, th, checker
<1>16. CASE CountReplicas(r)
  BY <1>16 DEF CountReplicas, provider, checker, locks
<1>17. CASE EvictWarm(r)
  <2>1. ASSUME NEW v \in Warm(p), warm' = [warm EXCEPT ![p][v] = None]
        PROVE  warm' \in [Procs -> [Threads -> Info]]
    BY <1>10, <2>1, SetEntry DEF Warm
  <2>2. \A v \in Warm(p) : v \in Threads /\ warm[p][v] \in Info
    BY DEF Warm
  <2>3. QED
    BY <1>4, <1>17, <2>1, <2>2 DEF EvictWarm, p, checker, locks
<1>18. CASE StopEvicted(r)
  <2>1. BackendDestroy(info[r][1], info[r][2]) /\ Hold(r, th, None) /\ Goto(r, "start")
    BY <1>18 DEF StopEvicted, th
  <2>2. running' \in [Threads -> Nat] /\ unstopped' \subseteq Threads /\ info' \in [Runs -> Threads \X Info]
    BY <1>4, <1>6, <1>10, <2>1
  <2>3. pc' \in [Runs -> Places]
    BY <2>1
  <2>4. QED
    BY <1>18, <2>2, <2>3 DEF StopEvicted, provider, checker, locks
<1>19. CASE StartContainer(r)
  <2>1. UNCHANGED <<provider, checker, known, crashes>>
    BY <1>19 DEF StartContainer
  <2>2. CASE /\ starts' = [starts EXCEPT ![th] = @ + 1]
             /\ running' = [running EXCEPT ![th] = starts[th] + 1]
             /\ Hold(r, th, [inc |-> starts[th] + 1, owned |-> TRUE])
             /\ Goto(r, "ready") /\ UNCHANGED <<unstopped, locks>>
    <3>1. info' \in [Runs -> Threads \X Info]
      BY <1>4, <1>8, <1>10, <2>2
    <3>2. QED
      BY <1>10, <2>1, <2>2, <3>1 DEF provider, checker, locks
  <2>3. CASE /\ Hold(r, th, [inc |-> running[th], owned |-> FALSE])
             /\ Goto(r, "ready") /\ UNCHANGED <<running, unstopped, starts, locks>>
    <3>1. info' \in [Runs -> Threads \X Info]
      BY <1>4, <1>8, <1>10, <2>3
    <3>2. QED
      BY <2>1, <2>3, <3>1 DEF provider, checker, locks
  <2>4. CASE Goto(r, "idle") /\ Unlock(r) /\ UNCHANGED <<running, unstopped, starts, info>>
    BY <1>5, <2>1, <2>4 DEF provider, checker
  <2>5. QED
    BY <1>19, <2>2, <2>3, <2>4 DEF StartContainer, th
<1>20. CASE RegisterCreated(r)
  <2>1. /\ pc' \in [Runs -> Places] /\ Unlock(r)
        /\ UNCHANGED <<starts, warm, checker, known, info, crashes>>
    BY <1>20 DEF RegisterCreated
  <2>2. CASE SetActive(p, th, info[r][2]) /\ UNCHANGED <<running, unstopped>>
    BY <1>2, <1>5, <2>1, <2>2 DEF checker
  <2>3. CASE BackendDestroy(th, info[r][2]) /\ UNCHANGED <<active, stale>>
    BY <1>5, <1>6, <2>1, <2>3 DEF checker
  <2>4. QED
    BY <1>20, <2>2, <2>3 DEF RegisterCreated, p, th
<1>21. CASE GetAcquired(r)
  BY <1>2, <1>4, <1>10, <1>21 DEF GetAcquired, p, th, checker, locks
<1>22. CASE ToolDone(r)
  BY <1>22 DEF ToolDone, provider, checker, locks
<1>23. CASE Release(r)
  <2>1. active' \in [Procs -> [Threads -> Info]] /\ stale' \in [Procs -> [Threads -> BOOLEAN]]
    BY <1>10, <1>23, SetEntry DEF Release, p, th
  <2>2. warm' \in [Procs -> [Threads -> Info]]
    <3> DEFINE new == IF th \in Warm(p) THEN warm[p][th] ELSE active[p][th]
    <3>1. new \in Info /\ warm' = [warm EXCEPT ![p][th] = new]
      BY <1>23 DEF Release, p, th
    <3> HIDE DEF new
    <3>2. QED
      BY <3>1, SetEntry
  <2>3. QED
    BY <1>23, <2>1, <2>2 DEF Release, checker, locks, runs
<1>24. QED
  BY <1>11, <1>12, <1>13, <1>14, <1>15, <1>16, <1>17, <1>18, <1>19, <1>20, <1>21, <1>22, <1>23
    DEF RunStep

\* A step of a process keeps the types.
LEMMA TypesOfProc ==
  ASSUME TypeOK, NEW p \in Procs, ProcStep(p), UNCHANGED placement, Witness PROVE TypeOK'
<1>1. /\ active \in [Procs -> [Threads -> Info]] /\ warm \in [Procs -> [Threads -> Info]]
      /\ stale \in [Procs -> [Threads -> BOOLEAN]]
      /\ doomed \in [Procs -> SUBSET (Threads \X Info)]
      /\ scanned \in [Procs -> SUBSET Threads] /\ verified \in [Procs -> SUBSET Threads]
      /\ shut \in [Procs -> BOOLEAN] /\ running \in [Threads -> Nat] /\ crashes \in Nat
      /\ None \in Info /\ placement' \in Placements
      /\ later' \in [Procs -> SUBSET Threads] /\ cut' \in [Runs -> BOOLEAN]
  BY InfoFacts, WitnessTypes DEF TypeOK
<1>2. /\ [th \in Threads |-> None] \in [Threads -> Info]
      /\ [th \in Threads |-> FALSE] \in [Threads -> BOOLEAN]
      /\ [th \in Threads |-> Free] \in [Threads -> Runs \cup {Free}]
  BY <1>1
<1>3. ASSUME NEW th \in Threads, PopForDestroy(p, th)
      PROVE  /\ active' \in [Procs -> [Threads -> Info]] /\ warm' \in [Procs -> [Threads -> Info]]
             /\ doomed' \in [Procs -> SUBSET (Threads \X Info)]
  <2> DEFINE i == IF th \in Active(p) THEN active[p][th] ELSE warm[p][th]
  <2>1. i \in Info
    BY <1>1
  <2>2. /\ active' = [active EXCEPT ![p][th] = None] /\ warm' = [warm EXCEPT ![p][th] = None]
        /\ doomed' = doomed \/ doomed' = [doomed EXCEPT ![p] = @ \cup {<<th, i>>}]
    BY <1>3 DEF PopForDestroy
  <2> HIDE DEF i
  <2>3. active' \in [Procs -> [Threads -> Info]] /\ warm' \in [Procs -> [Threads -> Info]]
    BY <1>1, <2>2, SetEntry
  <2>4. doomed' \in [Procs -> SUBSET (Threads \X Info)]
    <3>1. doomed \in [Procs -> SUBSET (Threads \X Info)]
      BY <1>1
    <3>2. doomed[p] \cup {<<th, i>>} \in SUBSET (Threads \X Info)
      BY <2>1, <3>1
    <3>3. QED
      BY <2>2, <3>1, <3>2
  <2>5. QED
    BY <2>3, <2>4
<1> USE <1>1 DEF TypeOK
<1>4. ASSUME NEW th \in Threads, Age(p, th) PROVE TypeOK'
  <2>1. stale' \in [Procs -> [Threads -> BOOLEAN]]
    BY <1>4, SetEntry DEF Age
  <2>2. QED
    BY <1>4, <2>1 DEF Age, checker, locks, runs
<1>5. ASSUME NEW th \in Threads, IdleVerify(p, th) PROVE TypeOK'
  BY <1>5 DEF IdleVerify, provider, locks, runs
<1>6. ASSUME NEW th \in Threads, IdleDestroy(p, th) \/ ShutdownDestroy(p, th) PROVE TypeOK'
  <2>1. PopForDestroy(p, th)
    BY <1>6 DEF IdleDestroy, ShutdownDestroy
  <2>4. verified' \in [Procs -> SUBSET Threads]
    <3>1. CASE IdleDestroy(p, th)
      <4>1. verified' = [verified EXCEPT ![p] = {}]
        BY <3>1 DEF IdleDestroy
      <4>2. QED
        BY <4>1
    <3>2. CASE ShutdownDestroy(p, th)
      <4>1. verified' = [verified EXCEPT ![p] = verified[p] \ {th}]
        BY <3>2 DEF ShutdownDestroy
      <4>2. verified[p] \ {th} \in SUBSET Threads
        OBVIOUS
      <4>3. QED
        BY <4>1, <4>2
    <3>3. QED
      BY <1>6, <3>1, <3>2
  <2>2. UNCHANGED <<running, unstopped, starts, stale, scanned, shut, locks, runs, crashes>>
    BY <1>6 DEF IdleDestroy, ShutdownDestroy
  <2>3. QED
    BY <1>3, <2>1, <2>2, <2>4 DEF locks, runs
<1>7. CASE IdleScan(p)
  <2> DEFINE old == {th \in Warm(p) : stale[p][th]}
  <2>1. /\ scanned' = [scanned EXCEPT ![p] = {th \in Active(p) : stale[p][th]}]
        /\ doomed' = [doomed EXCEPT ![p] = {<<th, warm[p][th]>> : th \in old}]
        /\ warm' = [warm EXCEPT ![p] = [th \in Threads |-> IF th \in old THEN None ELSE @[th]]]
        /\ UNCHANGED <<running, unstopped, starts, active, stale, verified, shut, locks, runs, crashes>>
    BY <1>7 DEF IdleScan
  <2>2. {<<th, warm[p][th]>> : th \in old} \subseteq Threads \X Info
    BY DEF Warm
  <2>3. [th \in Threads |-> IF th \in old THEN None ELSE warm[p][th]] \in [Threads -> Info]
    OBVIOUS
  <2>4. {th \in Active(p) : stale[p][th]} \subseteq Threads
    BY DEF Active
  <2> HIDE DEF old
  <2>5. QED
    BY <2>1, <2>2, <2>3, <2>4 DEF locks, runs
<1>8. CASE Shutdown(p)
  <2>1. {<<th, warm[p][th]>> : th \in Warm(p)} \subseteq Threads \X Info /\ Active(p) \subseteq Threads
    BY DEF Warm, Active
  <2>2. QED
    BY <1>2, <1>8, <2>1 DEF Shutdown, locks, runs
<1>9. CASE StopDoomed(p)
  <2>1. PICK d \in doomed[p] :
          /\ BackendDestroy(d[1], d[2])
          /\ doomed' = [doomed EXCEPT ![p] = @ \ {d}]
          /\ UNCHANGED <<starts, provider, scanned, verified, shut, locks, runs, crashes>>
    BY <1>9 DEF StopDoomed
  <2>2. d[1] \in Threads
    BY <2>1
  <2>3. running' \in [Threads -> Nat] /\ unstopped' \subseteq Threads
    BY <2>1, <2>2 DEF BackendDestroy
  <2>4. QED
    BY <2>1, <2>3 DEF provider, locks, runs
<1>10. CASE Crash(p)
  <2>1. ThreadOf \in [Runs -> Threads]
    BY PlacesOf
  <2> DEFINE mine == {r \in Runs : ProcOf[r] = p}
  <2>2. /\ active' = [active EXCEPT ![p] = [th \in Threads |-> None]]
        /\ warm' = [warm EXCEPT ![p] = [th \in Threads |-> None]]
        /\ stale' = [stale EXCEPT ![p] = [th \in Threads |-> FALSE]]
        /\ doomed' = [doomed EXCEPT ![p] = {}] /\ scanned' = [scanned EXCEPT ![p] = {}]
        /\ verified' = [verified EXCEPT ![p] = {}] /\ shut' = [shut EXCEPT ![p] = FALSE]
        /\ threadLock' = [threadLock EXCEPT ![p] = [th \in Threads |-> Free]]
        /\ fileLock' = [th \in Threads |-> IF fileLock[th] \in mine THEN Free ELSE fileLock[th]]
        /\ pc' = [r \in Runs |-> IF r \in mine THEN "idle" ELSE pc[r]]
        /\ info' = [r \in Runs |-> IF r \in mine THEN <<ThreadOf[r], None>> ELSE info[r]]
        /\ crashes' = crashes + 1 /\ UNCHANGED <<running, unstopped, starts, known>>
    BY <1>10 DEF Crash
  <2> HIDE DEF mine
  <2>3. active' \in [Procs -> [Threads -> Info]] /\ warm' \in [Procs -> [Threads -> Info]]
    BY <1>2, <2>2
  <2>4. stale' \in [Procs -> [Threads -> BOOLEAN]] /\ doomed' \in [Procs -> SUBSET (Threads \X Info)]
    BY <1>2, <2>2
  <2>5. threadLock' \in [Procs -> [Threads -> Runs \cup {Free}]] /\ fileLock' \in [Threads -> Runs \cup {Free}]
    BY <1>2, <2>2
  <2>6. pc' \in [Runs -> Places]
    BY <2>2 DEF Places
  <2>7. info' \in [Runs -> Threads \X Info]
    BY <2>1, <2>2
  <2>8. QED
    BY <2>2, <2>3, <2>4, <2>5, <2>6, <2>7
<1>11. QED
  BY <1>4, <1>5, <1>6, <1>7, <1>8, <1>9, <1>10 DEF ProcStep

----------------------------------------------------------------------------
(* The locks, and what a run finds under them.                               *)

\* What a step of a run does to the locks, the places of the runs and what is cached.
RunLocks(r) ==
  LET p == ProcOf[r]  th == ThreadOf[r] IN
  /\ \A s \in Runs \ {r} : pc'[s] = pc[s] /\ info'[s] = info[s]
  /\ \A q \in Procs, u \in Threads :
       active[q][u] = None /\ warm[q][u] = None =>
         \/ active'[q][u] = None /\ warm'[q][u] = None
         \/ q = p /\ u = th /\ pc[r] \in {"adopt", "ready"} /\ pc'[r] \notin Inside
  /\ \/ threadLock' = threadLock /\ (pc'[r] \in Inside => pc[r] \in Inside)
     \/ /\ threadLock[p][th] = Free /\ threadLock' = [threadLock EXCEPT ![p][th] = r]
        /\ pc'[r] = "filelock" /\ active'[p][th] = None /\ warm'[p][th] = None
     \/ /\ pc[r] \in Inside /\ threadLock' = [threadLock EXCEPT ![p][th] = Free]
        /\ pc'[r] \notin Inside
  /\ \/ /\ fileLock' = fileLock
        /\ pc'[r] \in Inside \ {"filelock"} => pc[r] \in Inside \ {"filelock"}
     \/ fileLock[th] = Free /\ fileLock' = [fileLock EXCEPT ![th] = r]
     \/ /\ fileLock[th] = r /\ fileLock' = [fileLock EXCEPT ![th] = Free]
        /\ pc'[r] \notin Inside
  /\ \A u \in Threads : running[u] = 0 => running'[u] = 0 \/ (u = th /\ pc[r] = "start" /\ pc'[r] = "ready")
  /\ pc'[r] \in {"count", "evict", "stop", "start"} =>
       \/ pc[r] \in {"count", "evict", "stop", "start"}
       \/ Flaky \/ running[th] = 0
  /\ pc'[r] = "adopt" => ~info'[r][2].owned
  /\ pc'[r] = "ready" => info'[r][1] = th

\* What setting an entry, or a lookup, does to what is cached.
LEMMA Cached ==
  ASSUME TypeOK, NEW r \in Runs, UNCHANGED placement,
         NEW p, p = ProcOf[r], NEW th, th = ThreadOf[r]
  PROVE  /\ \A i \in Info : SetActive(p, th, i) =>
              /\ active'[p][th] = i
              /\ \A q \in Procs, u \in Threads : q # p \/ u # th => active'[q][u] = active[q][u]
         /\ \A u \in Threads : warm' = [warm EXCEPT ![p][u] = None] =>
              /\ warm'[p][u] = None
              /\ \A q \in Procs, v \in Threads : q # p \/ v # u => warm'[q][v] = warm[q][v]
         /\ Lookup(p, th) =>
              \A q \in Procs, u \in Threads :
                active[q][u] = None /\ warm[q][u] = None =>
                  active'[q][u] = None /\ warm'[q][u] = None
<1>0. /\ p \in Procs /\ th \in Threads
      /\ active \in [Procs -> [Threads -> Info]] /\ warm \in [Procs -> [Threads -> Info]]
  BY PlacesOf DEF TypeOK
<1>1. \A i \in Info : SetActive(p, th, i) =>
              /\ active'[p][th] = i
              /\ \A q \in Procs, u \in Threads : q # p \/ u # th => active'[q][u] = active[q][u]
  BY <1>0, SetEntry DEF SetActive
<1>2. \A u \in Threads : warm' = [warm EXCEPT ![p][u] = None] =>
              /\ warm'[p][u] = None
              /\ \A q \in Procs, v \in Threads : q # p \/ v # u => warm'[q][v] = warm[q][v]
  BY <1>0, SetEntry, InfoFacts
<1>3. ASSUME Lookup(p, th), NEW q \in Procs, NEW u \in Threads, active[q][u] = None, warm[q][u] = None
      PROVE  active'[q][u] = None /\ warm'[q][u] = None
  <2>1. active[p][th] \in Info /\ warm[p][th] \in Info
    BY <1>0
  <2>2. CASE th \in Active(p) /\ SetActive(p, th, active[p][th]) /\ UNCHANGED warm
    BY <1>0, <1>1, <1>3, <2>1, <2>2
  <2>3. CASE th \in Warm(p) /\ SetActive(p, th, warm[p][th]) /\ warm' = [warm EXCEPT ![p][th] = None]
    BY <1>0, <1>1, <1>2, <1>3, <2>1, <2>3 DEF Warm
  <2>4. QED
    BY <1>3, <2>2, <2>3 DEF Lookup
<1>4. QED
  BY <1>1, <1>2, <1>3

\* What a move, a hold and an unlock of one run do.
LEMMA StepFacts ==
  ASSUME TypeOK, NEW r \in Runs, UNCHANGED placement
  PROVE  /\ \A place : Goto(r, place) =>
              pc'[r] = place /\ \A s \in Runs \ {r} : pc'[s] = pc[s]
         /\ \A u, i : Hold(r, u, i) =>
              info'[r] = <<u, i>> /\ \A s \in Runs \ {r} : info'[s] = info[s]
         /\ Unlock(r) =>
              /\ threadLock' = [threadLock EXCEPT ![ProcOf[r]][ThreadOf[r]] = Free]
              /\ \/ fileLock' = fileLock
                 \/ /\ fileLock[ThreadOf[r]] = r
                    /\ fileLock' = [fileLock EXCEPT ![ThreadOf[r]] = Free]
  BY DEF TypeOK, Goto, Hold, Unlock

\* The container a run holds after Hold.
LEMMA HoldFacts ==
  ASSUME TypeOK, NEW r \in Runs, NEW u, NEW i, Hold(r, u, i)
  PROVE  info'[r] = <<u, i>> /\ \A s \in Runs \ {r} : info'[s] = info[s]
<1>1. info' = [info EXCEPT ![r] = <<u, i>>] /\ info \in [Runs -> Threads \X Info]
  BY DEF TypeOK, Hold
<1>2. QED
  BY <1>1

\* Stopping a container starts none.
LEMMA DestroyOnlyStops ==
  ASSUME TypeOK, NEW u \in Threads, NEW i \in Info, BackendDestroy(u, i)
  PROVE  /\ \A v \in Threads : v # u => running'[v] = running[v] /\ (v \in unstopped' <=> v \in unstopped)
         /\ i.owned /\ running[u] = i.inc =>
              running'[u] = 0 \/ (running' = running /\ u \in unstopped')
         /\ ~(i.owned /\ running[u] = i.inc) => running' = running /\ unstopped' = unstopped
  BY DEF TypeOK, BackendDestroy

\* Every step of a run does what RunLocks says.
LEMMA RunStepsLock ==
  ASSUME TypeOK, LocksHeld, Found, NEW r \in Runs, RunStep(r), UNCHANGED placement
  PROVE  RunLocks(r)
<1> DEFINE p == ProcOf[r]
           th == ThreadOf[r]
           Same == \A s \in Runs \ {r} : pc'[s] = pc[s] /\ info'[s] = info[s]
           Empty == \A q \in Procs, u \in Threads :
                      active[q][u] = None /\ warm[q][u] = None =>
                        active'[q][u] = None /\ warm'[q][u] = None
           NoStart == \A u \in Threads : running[u] = 0 => running'[u] = 0
<1>0. p \in Procs /\ th \in Threads /\ info[r] \in Threads \X Info /\ pc[r] \in Places
  BY PlacesOf DEF TypeOK
<1>c. /\ active \in [Procs -> [Threads -> Info]] /\ warm \in [Procs -> [Threads -> Info]]
      /\ running \in [Threads -> Nat]
  BY DEF TypeOK
<1>n. Lookup(p, th) => Empty
  BY <1>0, Cached
<1>a. \A i \in Info : SetActive(p, th, i) /\ active[p][th] = i /\ UNCHANGED warm => Empty
  <2>1. TAKE i \in Info
  <2>2. HAVE SetActive(p, th, i) /\ active[p][th] = i /\ UNCHANGED warm
  <2>3. active' = [active EXCEPT ![p][th] = i] /\ i = active[p][th]
    BY <2>2 DEF SetActive
  <2> HIDE DEF p, th
  <2>4. active' = active
    BY <1>0, <1>c, <2>3, SetEntry
  <2>5. QED
    BY <2>2, <2>4
<1>1. CASE UseKnown(r)
  <2>1. Same /\ pc[r] = "idle" /\ pc'[r] = "using"
    <3>1. pc[r] = "idle" /\ Goto(r, "using") /\ Hold(r, th, active[p][th])
      BY <1>1 DEF UseKnown
    <3>2. pc'[r] = "using" /\ \A s \in Runs \ {r} : pc'[s] = pc[s]
      BY <3>1, StepFacts
    <3>3. \A s \in Runs \ {r} : info'[s] = info[s]
      BY <3>1, HoldFacts
    <3>4. QED
      BY <3>1, <3>2, <3>3
  <2>2. Empty
    BY <1>0, <1>1, <1>a, <1>c DEF UseKnown
  <2>3. UNCHANGED <<running, unstopped, locks>>
    BY <1>1 DEF UseKnown
  <2>4. QED
    BY <2>1, <2>2, <2>3 DEF RunLocks, Inside, locks
<1>2. CASE Acquire(r)
  <2>1. Same /\ pc[r] = "idle" /\ UNCHANGED <<running, unstopped, fileLock>>
    BY <1>2, StepFacts DEF Acquire
  <2>2. CASE Lookup(p, th) /\ Goto(r, "have") /\ UNCHANGED threadLock
    <3>1. pc'[r] = "have"
      BY <2>2, StepFacts
    <3>2. QED
      BY <1>n, <2>1, <2>2, <3>1 DEF RunLocks, Inside
  <2>3. CASE /\ Miss(p, th) /\ Goto(r, "filelock") /\ threadLock[p][th] = Free
             /\ threadLock' = [threadLock EXCEPT ![p][th] = r]
    <3>1. pc'[r] = "filelock"
      BY <2>3, StepFacts
    <3>2. Empty /\ active'[p][th] = None /\ warm'[p][th] = None
      BY <1>0, <2>3 DEF Miss, provider, Active, Warm
    <3>3. QED
      BY <2>1, <2>3, <3>1, <3>2 DEF RunLocks
  <2>4. QED
    BY <1>2, <2>2, <2>3 DEF Acquire
<1>3. CASE TakeFileLock(r)
  <2>1. Same /\ pc[r] = "filelock" /\ UNCHANGED <<running, unstopped, info>>
    BY <1>3, StepFacts DEF TakeFileLock
  <2>2. CASE Lookup(p, th) /\ Goto(r, "have") /\ Unlock(r)
    <3>1. pc'[r] = "have"
      BY <2>2, StepFacts
    <3>2. QED
      BY <1>n, <2>1, <2>2, <3>1, StepFacts DEF RunLocks, Inside
  <2>3. CASE /\ Miss(p, th) /\ Goto(r, "discover") /\ fileLock[th] = Free
             /\ fileLock' = [fileLock EXCEPT ![th] = r] /\ UNCHANGED threadLock
    <3>1. pc'[r] = "discover"
      BY <2>3, StepFacts
    <3>2. Empty
      BY <1>0, <2>3 DEF Miss, provider
    <3>3. QED
      BY <2>1, <2>3, <3>1, <3>2 DEF RunLocks, Inside
  <2>4. QED
    BY <1>3, <2>2, <2>3 DEF TakeFileLock
<1>4. CASE Discover(r)
  <2>1. pc[r] = "discover" /\ UNCHANGED <<running, unstopped, provider, locks>>
    BY <1>4 DEF Discover
  <2>2. Empty
    BY <2>1 DEF provider
  <2>3. CASE Hold(r, th, [inc |-> running[th], owned |-> FALSE]) /\ Goto(r, "adopt")
    <3>0. PICK i : i = [inc |-> running[th], owned |-> FALSE] /\ Hold(r, th, i)
      BY <2>3
    <3>a. Goto(r, "adopt")
      BY <2>3
    <3>b. info'[r] = <<th, i>> /\ \A s \in Runs \ {r} : info'[s] = info[s]
      <4>1. Hold(r, th, i)
        BY <3>0
      <4>2. QED
        BY <4>1, StepFacts
    <3>c. pc'[r] = "adopt" /\ \A s \in Runs \ {r} : pc'[s] = pc[s]
      BY <3>a, StepFacts
    <3>1. Same /\ pc'[r] = "adopt" /\ ~info'[r][2].owned
      BY <3>0, <3>b, <3>c
    <3>2. QED
      BY <2>1, <2>2, <3>1 DEF RunLocks, Inside, locks
  <2>4. CASE (running[th] = 0 \/ Flaky) /\ Goto(r, "count") /\ UNCHANGED info
    <3>1. Same /\ pc'[r] = "count"
      BY <2>4, StepFacts
    <3>2. QED
      BY <2>1, <2>2, <2>4, <3>1 DEF RunLocks, Inside, locks
  <2>5. QED
    BY <1>4, <2>3, <2>4 DEF Discover
<1>5. CASE Adopt(r)
  <2>1. Same /\ pc[r] = "adopt" /\ pc'[r] = "have" /\ Unlock(r) /\ UNCHANGED <<running, unstopped, warm>>
    BY <1>5, StepFacts DEF Adopt
  <2>2. \A q \in Procs, u \in Threads : q # p \/ u # th => active'[q][u] = active[q][u]
    BY <1>0, <1>5, Cached DEF Adopt
  <2>3. QED
    BY <2>1, <2>2, StepFacts DEF RunLocks, Inside
<1>6. CASE CountReplicas(r)
  <2>1. Same /\ pc[r] = "count" /\ pc'[r] \in {"evict", "start"}
        /\ UNCHANGED <<running, unstopped, provider, locks, info>>
    BY <1>6, StepFacts DEF CountReplicas
  <2>2. QED
    BY <2>1 DEF RunLocks, Inside, provider, locks
<1>7. CASE EvictWarm(r)
  <2>1. pc[r] = "evict" /\ UNCHANGED <<running, unstopped, active, locks>>
    BY <1>7 DEF EvictWarm
  <2>2. Same /\ pc'[r] \in {"stop", "start"}
    BY <1>7, StepFacts DEF EvictWarm
  <2>3. Empty
    <3>1. \A v \in Warm(p) : warm' = [warm EXCEPT ![p][v] = None] => Empty
      <4>1. TAKE v \in Warm(p)
      <4>2. HAVE warm' = [warm EXCEPT ![p][v] = None]
      <4>3. v \in Threads
        BY DEF Warm
      <4>4. QED
        BY <1>0, <2>1, <4>2, <4>3, Cached
    <3>2. CASE UNCHANGED warm
      BY <2>1, <3>2
    <3>3. QED
      BY <1>7, <3>1, <3>2 DEF EvictWarm
  <2>4. QED
    BY <2>1, <2>2, <2>3 DEF RunLocks, Inside, locks
<1>8. CASE StopEvicted(r)
  <2>1. Same /\ pc[r] = "stop" /\ pc'[r] = "start" /\ UNCHANGED <<provider, locks>>
        /\ BackendDestroy(info[r][1], info[r][2])
    BY <1>8, StepFacts DEF StopEvicted
  <2>2. NoStart
    <3>1. info[r][1] \in Threads /\ info[r][2] \in Info
      BY <1>0
    <3>2. QED
      BY <1>c, <2>1, <3>1, DestroyOnlyStops
  <2>3. QED
    BY <2>1, <2>2 DEF RunLocks, Inside, provider, locks
<1>9. CASE StartContainer(r)
  <2>1. pc[r] = "start" /\ UNCHANGED provider
    BY <1>9 DEF StartContainer
  <2>2. Empty
    BY <2>1 DEF provider
  <2>3. CASE /\ running' = [running EXCEPT ![th] = starts[th] + 1]
             /\ Hold(r, th, [inc |-> starts[th] + 1, owned |-> TRUE])
             /\ Goto(r, "ready") /\ UNCHANGED <<unstopped, locks>>
    <3>0. PICK i : Hold(r, th, i)
      BY <2>3
    <3>a. Goto(r, "ready")
      BY <2>3
    <3>b. info'[r] = <<th, i>> /\ \A s \in Runs \ {r} : info'[s] = info[s]
      <4>1. Hold(r, th, i)
        BY <3>0
      <4>2. QED
        BY <4>1, StepFacts
    <3>c. pc'[r] = "ready" /\ \A s \in Runs \ {r} : pc'[s] = pc[s]
      BY <3>a, StepFacts
    <3>1. Same /\ pc'[r] = "ready" /\ info'[r][1] = th
      BY <3>0, <3>b, <3>c
    <3>2. \A u \in Threads : u # th => running'[u] = running[u]
      BY <1>c, <2>3
    <3>3. QED
      BY <2>1, <2>2, <2>3, <3>1, <3>2 DEF RunLocks, Inside, locks
  <2>4. CASE /\ Hold(r, th, [inc |-> running[th], owned |-> FALSE])
             /\ Goto(r, "ready") /\ UNCHANGED <<running, unstopped, starts, locks>>
    <3>0. PICK i : Hold(r, th, i)
      BY <2>4
    <3>a. Goto(r, "ready")
      BY <2>4
    <3>b. info'[r] = <<th, i>> /\ \A s \in Runs \ {r} : info'[s] = info[s]
      <4>1. Hold(r, th, i)
        BY <3>0
      <4>2. QED
        BY <4>1, StepFacts
    <3>c. pc'[r] = "ready" /\ \A s \in Runs \ {r} : pc'[s] = pc[s]
      BY <3>a, StepFacts
    <3>1. Same /\ pc'[r] = "ready" /\ info'[r][1] = th
      BY <3>0, <3>b, <3>c
    <3>2. QED
      BY <2>1, <2>2, <2>4, <3>1 DEF RunLocks, Inside, locks
  <2>5. CASE Goto(r, "idle") /\ Unlock(r) /\ UNCHANGED <<running, unstopped, starts, info>>
    <3>1. Same /\ pc'[r] = "idle"
      BY <2>5, StepFacts
    <3>2. QED
      BY <2>1, <2>2, <2>5, <3>1, StepFacts DEF RunLocks, Inside
  <2>6. QED
    BY <1>9, <2>3, <2>4, <2>5 DEF StartContainer
<1>10. CASE RegisterCreated(r)
  <2>1. pc[r] = "ready" /\ Unlock(r) /\ UNCHANGED <<warm, info>>
    BY <1>10 DEF RegisterCreated
  <2>2. Same /\ pc'[r] \in {"have", "idle"}
    BY <1>10, StepFacts DEF RegisterCreated
  <2>3. CASE SetActive(p, th, info[r][2]) /\ UNCHANGED <<running, unstopped>>
    <3>1. \A q \in Procs, u \in Threads : q # p \/ u # th => active'[q][u] = active[q][u]
      BY <1>0, <2>3, Cached
    <3>2. QED
      BY <2>1, <2>2, <2>3, <3>1, StepFacts DEF RunLocks, Inside
  <2>4. CASE BackendDestroy(th, info[r][2]) /\ UNCHANGED <<active, stale>>
    <3>1. NoStart
      BY <1>0, <1>c, <2>4, DestroyOnlyStops
    <3>2. QED
      BY <2>1, <2>2, <2>4, <3>1, StepFacts DEF RunLocks, Inside
  <2>5. QED
    BY <1>10, <2>3, <2>4 DEF RegisterCreated
<1>11. CASE GetAcquired(r)
  <2>1. pc[r] = "have" /\ UNCHANGED <<running, unstopped, warm, locks>>
    BY <1>11 DEF GetAcquired
  <2>2. Same /\ pc'[r] \in {"using", "idle"}
    BY <1>11, StepFacts DEF GetAcquired
  <2>3. Empty
    BY <1>0, <1>11, <1>a, <1>c DEF GetAcquired
  <2>4. QED
    BY <2>1, <2>2, <2>3 DEF RunLocks, Inside, locks
<1>12. CASE ToolDone(r)
  <2>1. Same /\ pc'[r] = "idle" /\ UNCHANGED <<running, unstopped, provider, locks>>
    BY <1>12, StepFacts DEF ToolDone
  <2>2. QED
    BY <2>1 DEF RunLocks, Inside, provider, locks
<1>13. CASE Release(r)
  <2>1. pc[r] = "idle" /\ UNCHANGED <<running, unstopped, locks, pc, info>> /\ active[p][th] # None
    BY <1>13 DEF Release, runs, Active
  <2>2. Empty
    <3> DEFINE new == IF th \in Warm(p) THEN warm[p][th] ELSE active[p][th]
    <3>1. new \in Info /\ None \in Info
      BY <1>0, <1>c, InfoFacts
    <3>2. active' = [active EXCEPT ![p][th] = None] /\ warm' = [warm EXCEPT ![p][th] = new]
      BY <1>13 DEF Release
    <3> HIDE DEF new
    <3>3. \A q \in Procs, u \in Threads : q # p \/ u # th =>
            active'[q][u] = active[q][u] /\ warm'[q][u] = warm[q][u]
      BY <1>0, <1>c, <3>1, <3>2, SetEntry
    <3>4. QED
      BY <2>1, <3>3
  <2>3. QED
    BY <2>1, <2>2 DEF RunLocks, Inside, locks
<1>14. QED
  BY <1>1, <1>2, <1>3, <1>4, <1>5, <1>6, <1>7, <1>8, <1>9, <1>10, <1>11, <1>12, <1>13 DEF RunStep

\* What a step of a process does to them.
ProcLocks(p) ==
  /\ \A q \in Procs, u \in Threads :
       active[q][u] = None /\ warm[q][u] = None => active'[q][u] = None /\ warm'[q][u] = None
  /\ \A q \in Procs, u \in Threads :
       active[q][u] = None \/ warm[q][u] = None => active'[q][u] = None \/ warm'[q][u] = None
  /\ \A u \in Threads : running[u] = 0 => running'[u] = 0
  /\ \/ UNCHANGED <<pc, info, threadLock, fileLock>>
     \/ \A r \in Runs :
          \/ pc'[r] = "idle"
          \/ /\ ProcOf[r] # p /\ pc'[r] = pc[r] /\ info'[r] = info[r]
             /\ threadLock'[ProcOf[r]] = threadLock[ProcOf[r]]
             /\ \A u \in Threads : fileLock[u] = r => fileLock'[u] = r

\* A step of a process leaves the locks of its runs, and caches nothing; one that dies
\* takes its runs and their locks with it.
LEMMA ProcStepsLock ==
  ASSUME TypeOK, NEW p \in Procs, ProcStep(p), UNCHANGED placement PROVE ProcLocks(p)
<1> DEFINE Empty == \A q \in Procs, u \in Threads :
                      active[q][u] = None /\ warm[q][u] = None =>
                        active'[q][u] = None /\ warm'[q][u] = None
           Apart == \A q \in Procs, u \in Threads :
                      active[q][u] = None \/ warm[q][u] = None =>
                        active'[q][u] = None \/ warm'[q][u] = None
           NoStart == \A u \in Threads : running[u] = 0 => running'[u] = 0
<1>0. /\ active \in [Procs -> [Threads -> Info]] /\ warm \in [Procs -> [Threads -> Info]]
      /\ running \in [Threads -> Nat] /\ doomed \in [Procs -> SUBSET (Threads \X Info)]
      /\ None \in Info
  BY InfoFacts DEF TypeOK
<1>1. ASSUME NEW th \in Threads, PopForDestroy(p, th) PROVE Empty /\ Apart
  <2>1. active' = [active EXCEPT ![p][th] = None] /\ warm' = [warm EXCEPT ![p][th] = None]
    BY <1>1 DEF PopForDestroy
  <2>2. /\ active'[p][th] = None
        /\ \A q \in Procs, u \in Threads : q # p \/ u # th => active'[q][u] = active[q][u]
    BY <1>0, <2>1, SetEntry
  <2>3. /\ warm'[p][th] = None
        /\ \A q \in Procs, u \in Threads : q # p \/ u # th => warm'[q][u] = warm[q][u]
    BY <1>0, <2>1, SetEntry
  <2>4. QED
    BY <2>2, <2>3
<1>2. ASSUME NEW th \in Threads, Age(p, th) \/ IdleVerify(p, th) PROVE ProcLocks(p)
  BY <1>2 DEF Age, IdleVerify, ProcLocks, runs, locks, provider
<1>3. ASSUME NEW th \in Threads, IdleDestroy(p, th) \/ ShutdownDestroy(p, th) PROVE ProcLocks(p)
  <2>1. PopForDestroy(p, th) /\ UNCHANGED <<running, unstopped, locks, runs>>
    BY <1>3 DEF IdleDestroy, ShutdownDestroy
  <2>2. Empty /\ Apart
    BY <1>1, <2>1
  <2>3. QED
    BY <2>1, <2>2 DEF ProcLocks, runs, locks
<1>4. ASSUME NEW old, warm' = [warm EXCEPT ![p] = [th \in Threads |-> IF th \in old THEN None ELSE @[th]]],
             UNCHANGED active
      PROVE  Empty /\ Apart
  BY <1>0, <1>4
<1>5. CASE IdleScan(p)
  <2>1. PICK old : warm' = [warm EXCEPT ![p] = [th \in Threads |-> IF th \in old THEN None ELSE @[th]]]
    BY <1>5 DEF IdleScan
  <2>2. UNCHANGED <<running, unstopped, active, locks, runs>>
    BY <1>5 DEF IdleScan
  <2>3. Empty /\ Apart
    BY <1>4, <2>1, <2>2
  <2>4. QED
    BY <2>2, <2>3 DEF ProcLocks, locks, runs
<1>6. CASE Shutdown(p)
  <2>1. warm' = [warm EXCEPT ![p] = [th \in Threads |-> None]] /\ UNCHANGED <<running, unstopped, active, locks, runs>>
    BY <1>6 DEF Shutdown
  <2>2. Empty /\ Apart
    BY <1>0, <2>1
  <2>3. QED
    BY <2>1, <2>2 DEF ProcLocks, locks, runs
<1>7. CASE StopDoomed(p)
  <2>1. PICK d \in doomed[p] : BackendDestroy(d[1], d[2]) /\ UNCHANGED <<provider, locks, runs>>
    BY <1>7 DEF StopDoomed
  <2>2. d[1] \in Threads /\ d[2] \in Info
    BY <1>0, <2>1
  <2>3. NoStart
    BY <1>0, <2>1, <2>2, DestroyOnlyStops
  <2>4. QED
    BY <2>1, <2>3 DEF ProcLocks, provider, locks, runs
<1>8. CASE Crash(p)
  <2> DEFINE mine == {r \in Runs : ProcOf[r] = p}
  <2>1. /\ active' = [active EXCEPT ![p] = [th \in Threads |-> None]]
        /\ warm' = [warm EXCEPT ![p] = [th \in Threads |-> None]]
        /\ threadLock' = [threadLock EXCEPT ![p] = [th \in Threads |-> Free]]
        /\ fileLock' = [th \in Threads |-> IF fileLock[th] \in mine THEN Free ELSE fileLock[th]]
        /\ pc' = [r \in Runs |-> IF r \in mine THEN "idle" ELSE pc[r]]
        /\ info' = [r \in Runs |-> IF r \in mine THEN <<ThreadOf[r], None>> ELSE info[r]]
        /\ UNCHANGED running
    BY <1>8 DEF Crash
  <2>2. Empty /\ Apart
    BY <1>0, <2>1
  <2>3. ASSUME NEW r \in Runs, ProcOf[r] # p
        PROVE  /\ pc'[r] = pc[r] /\ info'[r] = info[r]
               /\ threadLock'[ProcOf[r]] = threadLock[ProcOf[r]]
               /\ \A u \in Threads : fileLock[u] = r => fileLock'[u] = r
    <3>1. ProcOf[r] \in Procs /\ threadLock \in [Procs -> [Threads -> Runs \cup {Free}]]
      BY PlacesOf DEF TypeOK
    <3>2. threadLock'[ProcOf[r]] = threadLock[ProcOf[r]]
      BY <2>1, <2>3, <3>1
    <3>3. pc'[r] = pc[r] /\ info'[r] = info[r] /\ r \notin mine
      BY <2>1, <2>3
    <3>4. QED
      BY <2>1, <3>2, <3>3
  <2>4. \A r \in Runs : ProcOf[r] = p => pc'[r] = "idle"
    BY <2>1
  <2>5. QED
    BY <2>1, <2>2, <2>3, <2>4 DEF ProcLocks
<1>9. QED
  BY <1>2, <1>3, <1>5, <1>6, <1>7, <1>8 DEF ProcStep

\* A step of a run keeps a container in one of the two pools.
LEMMA RunStepsPark ==
  ASSUME TypeOK, LocksHeld, NEW r \in Runs, RunStep(r), UNCHANGED placement
  PROVE  \A q \in Procs, u \in Threads :
           active[q][u] = None \/ warm[q][u] = None => active'[q][u] = None \/ warm'[q][u] = None
<1> DEFINE p == ProcOf[r]
           th == ThreadOf[r]
           Apart == \A q \in Procs, u \in Threads :
                      active[q][u] = None \/ warm[q][u] = None =>
                        active'[q][u] = None \/ warm'[q][u] = None
<1>0. /\ p \in Procs /\ th \in Threads /\ info[r][2] \in Info
      /\ active \in [Procs -> [Threads -> Info]] /\ warm \in [Procs -> [Threads -> Info]]
  BY PlacesOf DEF TypeOK
<1>1. UNCHANGED <<active, warm>> => Apart
  OBVIOUS
<1>2. ASSUME NEW i \in Info, SetActive(p, th, i), UNCHANGED warm,
             active[p][th] = i \/ warm[p][th] = None
      PROVE  Apart
  <2>1. /\ active'[p][th] = i
        /\ \A q \in Procs, u \in Threads : q # p \/ u # th => active'[q][u] = active[q][u]
    BY <1>0, <1>2, Cached
  <2>2. QED
    BY <1>2, <2>1
<1>3. ASSUME Lookup(p, th) PROVE Apart
  <2>1. CASE SetActive(p, th, active[p][th]) /\ UNCHANGED warm
    BY <1>0, <1>2, <2>1
  <2>2. CASE SetActive(p, th, warm[p][th]) /\ warm' = [warm EXCEPT ![p][th] = None]
    <3>1. warm[p][th] \in Info
      BY <1>0
    <3>2. \A q \in Procs, u \in Threads : q # p \/ u # th =>
            active'[q][u] = active[q][u] /\ warm'[q][u] = warm[q][u]
      BY <1>0, <2>2, <3>1, Cached
    <3>3. warm'[p][th] = None
      BY <1>0, <2>2, Cached
    <3>4. QED
      BY <3>2, <3>3
  <2>3. QED
    BY <1>3, <2>1, <2>2 DEF Lookup
<1>4. ASSUME NEW v \in Threads, warm' = [warm EXCEPT ![p][v] = None], UNCHANGED active PROVE Apart
  <2>1. /\ warm'[p][v] = None
        /\ \A q \in Procs, u \in Threads : q # p \/ u # v => warm'[q][u] = warm[q][u]
    BY <1>0, <1>4, Cached
  <2>2. QED
    BY <1>4, <2>1
<1>5. pc[r] \in {"adopt", "ready"} => warm[p][th] = None
  BY DEF LocksHeld, Inside
<1>6. CASE UseKnown(r) \/ GetAcquired(r)
  <2>1. \/ SetActive(p, th, active[p][th]) /\ UNCHANGED warm
        \/ UNCHANGED <<active, warm>>
    BY <1>6 DEF UseKnown, GetAcquired
  <2>2. active[p][th] \in Info
    BY <1>0
  <2>3. QED
    BY <1>1, <1>2, <2>1, <2>2
<1>7. CASE Acquire(r)
  BY <1>1, <1>3, <1>7 DEF Acquire, Miss, provider
<1>8. CASE TakeFileLock(r)
  BY <1>1, <1>3, <1>8 DEF TakeFileLock, Miss, provider
<1>9. CASE Discover(r) \/ CountReplicas(r) \/ StopEvicted(r) \/ StartContainer(r) \/ ToolDone(r)
  BY <1>1, <1>9 DEF Discover, CountReplicas, StopEvicted, StartContainer, ToolDone, provider
<1>10. CASE Adopt(r)
  BY <1>0, <1>2, <1>5, <1>10 DEF Adopt
<1>11. CASE EvictWarm(r)
  <2>1. \A v \in Warm(p) : v \in Threads
    BY DEF Warm
  <2>2. QED
    BY <1>1, <1>4, <1>11, <2>1 DEF EvictWarm
<1>12. CASE RegisterCreated(r)
  <2>1. pc[r] = "ready" /\ UNCHANGED warm
    BY <1>12 DEF RegisterCreated
  <2>2. SetActive(p, th, info[r][2]) \/ UNCHANGED active
    BY <1>12 DEF RegisterCreated
  <2>3. QED
    BY <1>0, <1>1, <1>2, <1>5, <2>1, <2>2
<1>13. CASE Release(r)
  <2> DEFINE new == IF th \in Warm(p) THEN warm[p][th] ELSE active[p][th]
  <2>1. new \in Info /\ None \in Info
    BY <1>0, InfoFacts
  <2>2. active' = [active EXCEPT ![p][th] = None] /\ warm' = [warm EXCEPT ![p][th] = new]
    BY <1>13 DEF Release
  <2> HIDE DEF new
  <2>3. active'[p][th] = None /\ \A q \in Procs, u \in Threads : q # p \/ u # th =>
          active'[q][u] = active[q][u] /\ warm'[q][u] = warm[q][u]
    BY <1>0, <2>1, <2>2, SetEntry
  <2>4. QED
    BY <2>3
<1>14. QED
  BY <1>6, <1>7, <1>8, <1>9, <1>10, <1>11, <1>12, <1>13 DEF RunStep

\* What is in one pool is not in the other.
LEMMA ApartMeans == ActiveXorWarm <=> \A q \in Procs, u \in Threads :
                                        active[q][u] = None \/ warm[q][u] = None
  BY DEF ActiveXorWarm, Active, Warm

\* Every step keeps the locks, what was found and the two pools apart.
LEMMA LocksStep ==
  ASSUME TypeOK, LocksHeld, Found, ActiveXorWarm, Next
  PROVE  LocksHeld' /\ Found' /\ ActiveXorWarm'
<1>1. UNCHANGED placement /\ placement' = placement
  BY DEF Next
<1>2. ProcOf' = ProcOf /\ ThreadOf' = ThreadOf /\ Flaky' = Flaky
  BY <1>1 DEF ProcOf, ThreadOf, Flaky
<1>3. /\ ProcOf \in [Runs -> Procs] /\ ThreadOf \in [Runs -> Threads]
      /\ threadLock \in [Procs -> [Threads -> Runs \cup {Free}]]
      /\ fileLock \in [Threads -> Runs \cup {Free}] /\ running \in [Threads -> Nat]
  BY PlacesOf DEF TypeOK
<1>4. ASSUME NEW r \in Runs, RunLocks(r) PROVE LocksHeld' /\ Found'
  <2> DEFINE p == ProcOf[r]
             th == ThreadOf[r]
  <2>0. p \in Procs /\ th \in Threads
    BY <1>3
  <2>1. \A s \in Runs \ {r} : pc'[s] = pc[s] /\ info'[s] = info[s]
    BY <1>4 DEF RunLocks
  <2>2. ASSUME NEW s \in Runs \ {r}, pc'[s] \in Inside
        PROVE  /\ threadLock'[ProcOf[s]][ThreadOf[s]] = s
               /\ active'[ProcOf[s]][ThreadOf[s]] = None /\ warm'[ProcOf[s]][ThreadOf[s]] = None
               /\ pc'[s] # "filelock" => fileLock'[ThreadOf[s]] = s
    <3> DEFINE q == ProcOf[s]
               u == ThreadOf[s]
    <3>1. /\ pc[s] \in Inside /\ q \in Procs /\ u \in Threads
          /\ threadLock[q][u] = s /\ active[q][u] = None /\ warm[q][u] = None
          /\ pc[s] # "filelock" => fileLock[u] = s
      BY <1>3, <2>1, <2>2 DEF LocksHeld
    <3>2. pc[r] \in Inside => q # p \/ u # th
      BY <2>2, <3>1 DEF LocksHeld
    <3>3. "adopt" \in Inside /\ "ready" \in Inside
      BY DEF Inside
    <3>4. active'[q][u] = None /\ warm'[q][u] = None
      BY <1>4, <3>1, <3>2, <3>3 DEF RunLocks
    <3>5. threadLock'[q][u] = s
      <4>1. CASE threadLock' = threadLock
        BY <3>1, <4>1
      <4>2. CASE threadLock[p][th] = Free /\ threadLock' = [threadLock EXCEPT ![p][th] = r]
        <5>1. q # p \/ u # th
          BY <3>1, <4>2, SandboxAssumption
        <5>2. QED
          BY <1>3, <2>0, <3>1, <4>2, <5>1
      <4>3. CASE pc[r] \in Inside /\ threadLock' = [threadLock EXCEPT ![p][th] = Free]
        BY <1>3, <2>0, <3>1, <3>2, <4>3
      <4>4. QED
        BY <1>4, <4>1, <4>2, <4>3 DEF RunLocks
    <3>6. pc'[s] # "filelock" => fileLock'[u] = s
      <4>1. SUFFICES ASSUME pc'[s] # "filelock" PROVE fileLock'[u] = s
        OBVIOUS
      <4>2. fileLock[u] = s
        BY <2>1, <3>1, <4>1
      <4>3. CASE fileLock' = fileLock
        BY <4>2, <4>3
      <4>4. CASE fileLock[th] = Free /\ fileLock' = [fileLock EXCEPT ![th] = r]
        BY <1>3, <2>0, <3>1, <4>2, <4>4, SandboxAssumption
      <4>5. CASE fileLock[th] = r /\ fileLock' = [fileLock EXCEPT ![th] = Free]
        BY <1>3, <2>0, <3>1, <4>2, <4>5
      <4>6. QED
        BY <1>4, <4>3, <4>4, <4>5 DEF RunLocks
    <3>7. QED
      BY <3>4, <3>5, <3>6
  <2>3. ASSUME pc'[r] \in Inside
        PROVE  /\ threadLock'[p][th] = r
               /\ active'[p][th] = None /\ warm'[p][th] = None
               /\ pc'[r] # "filelock" => fileLock'[th] = r
    <3>1. \/ threadLock' = threadLock /\ pc[r] \in Inside
          \/ /\ threadLock' = [threadLock EXCEPT ![p][th] = r]
             /\ active'[p][th] = None /\ warm'[p][th] = None
      BY <1>4, <2>3 DEF RunLocks
    <3>2. threadLock'[p][th] = r
      BY <1>3, <2>0, <3>1 DEF LocksHeld
    <3>3. active'[p][th] = None /\ warm'[p][th] = None
      <4>1. CASE pc[r] \in Inside
        <5>1. active[p][th] = None /\ warm[p][th] = None
          BY <4>1 DEF LocksHeld
        <5>2. QED
          BY <1>4, <2>0, <2>3, <5>1 DEF RunLocks
      <4>2. QED
        BY <3>1, <4>1
    <3>4. pc'[r] # "filelock" => fileLock'[th] = r
      <4>1. SUFFICES ASSUME pc'[r] # "filelock" PROVE fileLock'[th] = r
        OBVIOUS
      <4>2. CASE fileLock' = fileLock /\ pc[r] \in Inside \ {"filelock"}
        BY <4>2 DEF LocksHeld
      <4>3. CASE fileLock' = [fileLock EXCEPT ![th] = r]
        BY <1>3, <2>0, <4>3
      <4>4. QED
        BY <1>4, <2>3, <4>1, <4>2, <4>3 DEF RunLocks
    <3>5. QED
      BY <3>2, <3>3, <3>4
  <2>4. LocksHeld'
    BY <1>2, <2>2, <2>3 DEF LocksHeld
  <2>5. ASSUME NEW s \in Runs, pc'[s] \in {"count", "evict", "stop", "start"}, ~Flaky
        PROVE  running'[ThreadOf[s]] = 0
    <3>1. ThreadOf[s] \in Threads
      BY <1>3
    <3>2. running[ThreadOf[s]] = 0
      <4>1. CASE pc[s] \in {"count", "evict", "stop", "start"}
        BY <2>5, <4>1 DEF Found
      <4>2. CASE pc[s] \notin {"count", "evict", "stop", "start"}
        <5>1. s = r
          BY <2>1, <2>5, <4>2
        <5>2. QED
          BY <1>4, <2>5, <4>2, <5>1 DEF RunLocks
      <4>3. QED
        BY <4>1, <4>2
    <3>3. ~(ThreadOf[s] = th /\ pc[r] = "start" /\ pc'[r] = "ready")
      <4>1. SUFFICES ASSUME ThreadOf[s] = th, pc[r] = "start", pc'[r] = "ready" PROVE FALSE
        OBVIOUS
      <4>2. s # r /\ pc[s] = pc'[s]
        BY <2>1, <2>5, <4>1
      <4>3. fileLock[th] = s /\ fileLock[th] = r
        BY <2>5, <4>1, <4>2 DEF LocksHeld, Inside
      <4>4. QED
        BY <4>2, <4>3
    <3>4. QED
      BY <1>4, <3>1, <3>2, <3>3 DEF RunLocks
  <2>6. \A s \in Runs : pc'[s] = "adopt" => ~info'[s][2].owned
    BY <1>4, <2>1 DEF RunLocks, Found
  <2>7. \A s \in Runs : pc'[s] = "ready" => info'[s][1] = ThreadOf[s]
    BY <1>4, <2>1 DEF RunLocks, Found
  <2>8. Found'
    BY <1>2, <2>5, <2>6, <2>7 DEF Found
  <2>9. QED
    BY <2>4, <2>8
<1>5. ASSUME NEW p \in Procs, ProcLocks(p) PROVE LocksHeld' /\ Found' /\ ActiveXorWarm'
  <2>1. /\ \A q \in Procs, u \in Threads :
              active[q][u] = None /\ warm[q][u] = None => active'[q][u] = None /\ warm'[q][u] = None
        /\ \A u \in Threads : running[u] = 0 => running'[u] = 0
    BY <1>5 DEF ProcLocks
  <2>2. ASSUME NEW r \in Runs
        PROVE  \/ pc'[r] = "idle"
               \/ /\ pc'[r] = pc[r] /\ info'[r] = info[r]
                  /\ threadLock'[ProcOf[r]] = threadLock[ProcOf[r]]
                  /\ \A u \in Threads : fileLock[u] = r => fileLock'[u] = r
    BY <1>5 DEF ProcLocks
  <2>3. LocksHeld'
    <3>1. ASSUME NEW r \in Runs, pc'[r] \in Inside
          PROVE  /\ threadLock'[ProcOf[r]][ThreadOf[r]] = r
                 /\ active'[ProcOf[r]][ThreadOf[r]] = None /\ warm'[ProcOf[r]][ThreadOf[r]] = None
                 /\ pc'[r] # "filelock" => fileLock'[ThreadOf[r]] = r
      <4>1. pc'[r] # "idle"
        BY <3>1 DEF Inside
      <4>2. ProcOf[r] \in Procs /\ ThreadOf[r] \in Threads
        BY <1>3
      <4>3. QED
        BY <2>1, <2>2, <3>1, <4>1, <4>2 DEF LocksHeld
    <3>2. QED
      BY <1>2, <3>1 DEF LocksHeld
  <2>4. Found'
    <3>1. ASSUME NEW r \in Runs, pc'[r] # "idle"
          PROVE  /\ pc'[r] \in {"count", "evict", "stop", "start"} /\ ~Flaky => running'[ThreadOf[r]] = 0
                 /\ pc'[r] = "adopt" => ~info'[r][2].owned
                 /\ pc'[r] = "ready" => info'[r][1] = ThreadOf[r]
      <4>1. pc'[r] = pc[r] /\ info'[r] = info[r] /\ ThreadOf[r] \in Threads
        BY <1>3, <2>2, <3>1
      <4>2. QED
        BY <2>1, <4>1 DEF Found
    <3>2. QED
      BY <1>2, <3>1 DEF Found
  <2>5. ActiveXorWarm'
    <3>1. \A q \in Procs, u \in Threads : active[q][u] = None \/ warm[q][u] = None
      BY ApartMeans
    <3>2. \A q \in Procs, u \in Threads : active'[q][u] = None \/ warm'[q][u] = None
      BY <1>5, <3>1 DEF ProcLocks
    <3>3. QED
      BY <3>2 DEF ActiveXorWarm, Active, Warm
  <2>6. QED
    BY <2>3, <2>4, <2>5
<1>6. ASSUME NEW r \in Runs, RunStep(r) PROVE LocksHeld' /\ Found' /\ ActiveXorWarm'
  <2>1. LocksHeld' /\ Found'
    BY <1>1, <1>4, <1>6, RunStepsLock
  <2>2. \A q \in Procs, u \in Threads : active[q][u] = None \/ warm[q][u] = None
    BY ApartMeans
  <2>3. \A q \in Procs, u \in Threads : active'[q][u] = None \/ warm'[q][u] = None
    BY <1>1, <1>6, <2>2, RunStepsPark
  <2>4. QED
    BY <2>1, <2>3 DEF ActiveXorWarm, Active, Warm
<1>7. ASSUME NEW p \in Up, ProcStep(p) PROVE LocksHeld' /\ Found' /\ ActiveXorWarm'
  <2>1. p \in Procs
    BY <1>3 DEF Up
  <2>2. QED
    BY <1>1, <1>5, <1>7, <2>1, ProcStepsLock
<1>8. QED
  BY <1>6, <1>7 DEF Next, Steps

----------------------------------------------------------------------------
(* The holders.                                                              *)

\* What o holds passes to n, or stays with it; nothing else that is held changes.
Passes(o, n) ==
  /\ UNCHANGED <<running, unstopped, crashes>>
  /\ \A th \in Threads, i \in Info : Owned(i) =>
       /\ \A x \in Holders \ {o, n} : Holds(x, th, i)' <=> Holds(x, th, i)
       /\ Holds(o, th, i)' \/ Holds(n, th, i)' <=> Holds(o, th, i) \/ Holds(n, th, i)
       /\ Holds(o, th, i)' /\ Holds(n, th, i)' => Holds(o, th, i) /\ Holds(n, th, i)

\* What o holds of thread u under the id of j is stopped, and o lets it go.
Stops(o, u, j) ==
  /\ BackendDestroy(u, j) /\ UNCHANGED crashes
  /\ Owned(j) => Holds(o, u, j)
  /\ \A th \in Threads, i \in Info : Owned(i) =>
       /\ \A x \in Holders \ {o} : Holds(x, th, i)' <=> Holds(x, th, i)
       /\ Holds(o, th, i)' <=> Holds(o, th, i) /\ ~(th = u /\ i = j)

\* When the right to stop a container passes from one holder to another, and
\* everything else rests, what is held stays sound.
LEMMA PassesKeeps ==
  ASSUME TypeOK, HeldInv, NEW o \in Holders, NEW n \in Holders, Passes(o, n)
  PROVE  HeldInv'
<1>1. ASSUME NEW th \in Threads, NEW i \in Info, Owned(i)
      PROVE  /\ \A x \in Holders \ {o, n} : Holds(x, th, i)' <=> Holds(x, th, i)
             /\ Holds(o, th, i)' \/ Holds(n, th, i)' <=> Holds(o, th, i) \/ Holds(n, th, i)
             /\ Holds(o, th, i)' /\ Holds(n, th, i)' => Holds(o, th, i) /\ Holds(n, th, i)
  BY <1>1 DEF Passes
<1>2. UNCHANGED <<running, unstopped, crashes>>
  BY DEF Passes
<1>3. ASSUME NEW th \in Threads, NEW i \in Info, Owned(i), NEW x \in Holders, Holds(x, th, i)'
      PROVE  \E y \in Holders : Holds(y, th, i)
  BY <1>1, <1>3
<1>4. HeldRuns'
  BY <1>2, <1>3 DEF HeldInv, HeldRuns
<1>5. OneHolder'
  <2>1. ASSUME NEW x \in Holders, NEW y \in Holders, NEW th \in Threads, NEW i \in Info, Owned(i),
               Holds(x, th, i)', Holds(y, th, i)'
        PROVE  x = y
    <3>1. \A a, b \in Holders : Holds(a, th, i) /\ Holds(b, th, i) => a = b
      BY <2>1 DEF HeldInv, OneHolder
    <3>2. QED
      BY <1>1, <2>1, <3>1
  <2>2. QED
    BY <2>1 DEF OneHolder
<1>6. RunsAreHeld'
  <2>1. ASSUME NEW th \in Threads, NEW x \in Holders, NEW i \in Info, Owned(i), Holds(x, th, i)
        PROVE  \E y \in Holders : Holds(y, th, i)'
    BY <1>1, <2>1
  <2>2. ASSUME crashes = 0, NEW th \in Threads, NEW i \in Info, Owned(i), running[th] = i.inc, i.inc # 0,
               th \notin unstopped
        PROVE  \E x \in Holders : Holds(x, th, i)'
    BY <2>1, <2>2 DEF HeldInv, RunsAreHeld
  <2>3. QED
    BY <1>2, <2>2 DEF RunsAreHeld
<1>7. QED
  BY <1>4, <1>5, <1>6 DEF HeldInv

\* The same when a holder stops its container.
LEMMA StopsKeeps ==
  ASSUME TypeOK, HeldInv, NEW o \in Holders, NEW u \in Threads, NEW j \in Info, Stops(o, u, j)
  PROVE  HeldInv'
<1>1. ASSUME NEW th \in Threads, NEW i \in Info, Owned(i)
      PROVE  /\ \A x \in Holders \ {o} : Holds(x, th, i)' <=> Holds(x, th, i)
             /\ Holds(o, th, i)' <=> Holds(o, th, i) /\ ~(th = u /\ i = j)
  BY <1>1 DEF Stops
<1>2. /\ crashes' = crashes /\ (Owned(j) => Holds(o, u, j)) /\ (j.owned <=> Owned(j))
      /\ \A v \in Threads : v # u => running'[v] = running[v] /\ (v \in unstopped' <=> v \in unstopped)
      /\ Owned(j) /\ running[u] = j.inc =>
           running'[u] = 0 \/ (running' = running /\ u \in unstopped')
      /\ ~(Owned(j) /\ running[u] = j.inc) => running' = running /\ unstopped' = unstopped
  BY DestroyOnlyStops DEF Stops, Owned
<1>3. ASSUME NEW th \in Threads, NEW i \in Info, Owned(i), NEW x \in Holders, Holds(x, th, i)'
      PROVE  Holds(x, th, i) /\ ~(th = u /\ i = j)
  <2>1. Holds(x, th, i)
    BY <1>1, <1>3
  <2>2. ASSUME th = u, i = j PROVE x = o
    BY <1>2, <1>3, <2>1, <2>2 DEF HeldInv, OneHolder
  <2>3. QED
    BY <1>1, <1>3, <2>1, <2>2
<1>4. HeldRuns'
  <2>1. ASSUME NEW x \in Holders, NEW th \in Threads, NEW i \in Info, Owned(i), Holds(x, th, i)'
        PROVE  running'[th] = i.inc /\ i.inc # 0
    <3>1. Holds(x, th, i) /\ ~(th = u /\ i = j)
      BY <1>3, <2>1
    <3>2. running[th] = i.inc /\ i.inc # 0
      BY <2>1, <3>1 DEF HeldInv, HeldRuns
    <3>3. Owned(j) /\ th = u /\ running[u] = j.inc => i = j
      BY <2>1, <3>2, InfoFacts DEF Owned
    <3>4. QED
      BY <1>2, <3>1, <3>2, <3>3
  <2>2. QED
    BY <2>1 DEF HeldRuns
<1>5. OneHolder'
  BY <1>3 DEF HeldInv, OneHolder
<1>6. RunsAreHeld'
  <2>1. ASSUME crashes = 0, NEW th \in Threads, NEW i \in Info, Owned(i), running'[th] = i.inc, i.inc # 0,
               th \notin unstopped'
        PROVE  \E x \in Holders : Holds(x, th, i)'
    <3>1. running[th] = i.inc /\ th \notin unstopped /\ ~(th = u /\ i = j)
      <4>1. CASE th = u /\ Owned(j) /\ running[u] = j.inc
        BY <1>2, <2>1, <4>1
      <4>2. CASE th = u /\ ~(Owned(j) /\ running[u] = j.inc)
        BY <1>2, <2>1, <4>2
      <4>3. CASE th # u
        BY <1>2, <2>1, <4>3
      <4>4. QED
        BY <4>1, <4>2, <4>3
    <3>2. PICK x \in Holders : Holds(x, th, i)
      BY <2>1, <3>1 DEF HeldInv, RunsAreHeld
    <3>3. ~(th = u /\ i = j)
      BY <3>1
    <3>4. QED
      BY <1>1, <2>1, <3>2, <3>3
  <2>2. QED
    BY <1>2, <2>1 DEF RunsAreHeld
<1>7. QED
  BY <1>4, <1>5, <1>6 DEF HeldInv

\* The holders but o and n hold what they held.
RestStays(o, n) ==
  /\ \A q \in Procs :
       /\ <<"active", q>> \notin {o, n} =>
            \A th \in Threads, i \in Info : Owned(i) => (active'[q][th] = i <=> active[q][th] = i)
       /\ <<"warm", q>> \notin {o, n} => warm'[q] = warm[q]
       /\ <<"doomed", q>> \notin {o, n} => doomed'[q] = doomed[q]
  /\ \A r \in Runs : <<"run", r>> \notin {o, n} =>
       \/ pc'[r] = pc[r] /\ info'[r] = info[r]
       \/ pc[r] \notin {"stop", "ready"} /\ pc'[r] \notin {"stop", "ready"}

\* The kinds of holders, one by one.
LEMMA HoldersAre ==
  /\ \A q \in Procs : <<"active", q>> \in Holders /\ <<"warm", q>> \in Holders /\ <<"doomed", q>> \in Holders
  /\ \A r \in Runs : <<"run", r>> \in Holders
  /\ \A x \in Holders :
       \/ \E q \in Procs : x \in {<<"active", q>>, <<"warm", q>>, <<"doomed", q>>}
       \/ \E r \in Runs : x = <<"run", r>>
  BY DEF Holders

\* What each of them holds.
LEMMA HoldsAre ==
  /\ \A q, th, i : Holds(<<"active", q>>, th, i) <=> active[q][th] = i
  /\ \A q, th, i : Holds(<<"warm", q>>, th, i) <=> warm[q][th] = i
  /\ \A q, th, i : Holds(<<"doomed", q>>, th, i) <=> <<th, i>> \in doomed[q]
  /\ \A r, th, i : Holds(<<"run", r>>, th, i) <=> pc[r] \in {"stop", "ready"} /\ info[r] = <<th, i>>
  BY DEF Holds

\* What each of them holds after a step.
LEMMA HoldThen ==
  /\ \A q, th, i : Holds(<<"active", q>>, th, i)' <=> active'[q][th] = i
  /\ \A q, th, i : Holds(<<"warm", q>>, th, i)' <=> warm'[q][th] = i
  /\ \A q, th, i : Holds(<<"doomed", q>>, th, i)' <=> <<th, i>> \in doomed'[q]
  /\ \A r, th, i : Holds(<<"run", r>>, th, i)' <=> pc'[r] \in {"stop", "ready"} /\ info'[r] = <<th, i>>
  BY DEF Holds

\* A holder that nothing changed for holds what it held.
LEMMA RestHolds ==
  ASSUME NEW o \in Holders, NEW n \in Holders, RestStays(o, n),
         NEW x \in Holders \ {o, n}, NEW th \in Threads, NEW i \in Info, Owned(i)
  PROVE  Holds(x, th, i)' <=> Holds(x, th, i)
<1>1. CASE \E q \in Procs : x \in {<<"active", q>>, <<"warm", q>>, <<"doomed", q>>}
  <2>1. PICK q \in Procs : x \in {<<"active", q>>, <<"warm", q>>, <<"doomed", q>>}
    BY <1>1
  <2>2. CASE x = <<"active", q>>
    <3>1. active'[q][th] = i <=> active[q][th] = i
      BY <2>2 DEF RestStays
    <3>2. QED
      BY <2>2, <3>1, HoldsAre, HoldThen
  <2>3. CASE x = <<"warm", q>>
    <3>1. warm'[q] = warm[q]
      BY <2>3 DEF RestStays
    <3>2. QED
      BY <2>3, <3>1, HoldsAre, HoldThen
  <2>4. CASE x = <<"doomed", q>>
    <3>1. doomed'[q] = doomed[q]
      BY <2>4 DEF RestStays
    <3>2. QED
      BY <2>4, <3>1, HoldsAre, HoldThen
  <2>5. QED
    BY <2>1, <2>2, <2>3, <2>4
<1>2. CASE \E r \in Runs : x = <<"run", r>>
  <2>1. PICK r \in Runs : x = <<"run", r>>
    BY <1>2
  <2>2. \/ pc'[r] = pc[r] /\ info'[r] = info[r]
        \/ pc[r] \notin {"stop", "ready"} /\ pc'[r] \notin {"stop", "ready"}
    BY <2>1 DEF RestStays
  <2>3. QED
    BY <2>1, <2>2, HoldsAre, HoldThen
<1>3. QED
  BY <1>1, <1>2, HoldersAre

\* A step that neither passes a container on nor stops one.
LEMMA QuietKeeps ==
  ASSUME TypeOK, HeldInv, NEW r \in Runs, UNCHANGED <<running, unstopped, crashes, warm, doomed>>,
         \A q \in Procs, th \in Threads, i \in Info :
           Owned(i) => (active'[q][th] = i <=> active[q][th] = i),
         \A s \in Runs \ {r} : pc'[s] = pc[s] /\ info'[s] = info[s],
         pc[r] \notin {"stop", "ready"},
         pc'[r] \notin {"stop", "ready"} \/ ~info'[r][2].owned
  PROVE  HeldInv'
<1> DEFINE o == <<"run", r>>
<1>1. o \in Holders
  BY HoldersAre
<1>2. RestStays(o, o)
  BY DEF RestStays
<1>3. ASSUME NEW th \in Threads, NEW i \in Info, Owned(i)
      PROVE  ~Holds(o, th, i) /\ ~Holds(o, th, i)'
  BY <1>3, HoldsAre, HoldThen DEF Owned
<1> HIDE DEF o
<1>4. Passes(o, o)
  BY <1>1, <1>2, <1>3, RestHolds DEF Passes
<1>5. QED
  BY <1>1, <1>4, PassesKeeps

\* A lookup may take the thread's container from the warm pool.
LEMMA LookupKeeps ==
  ASSUME TypeOK, HeldInv, ActiveXorWarm, NEW r \in Runs, UNCHANGED <<running, unstopped, crashes, doomed>>,
         NEW p \in Procs, NEW th \in Threads, Lookup(p, th),
         \A s \in Runs \ {r} : pc'[s] = pc[s] /\ info'[s] = info[s],
         pc[r] \notin {"stop", "ready"}, pc'[r] \notin {"stop", "ready"}
  PROVE  HeldInv'
<1>0. active \in [Procs -> [Threads -> Info]] /\ warm \in [Procs -> [Threads -> Info]]
  BY DEF TypeOK
<1>1. CASE SetActive(p, th, active[p][th]) /\ UNCHANGED warm
  <2>1. active[p][th] \in Info /\ active' = [active EXCEPT ![p][th] = active[p][th]]
    BY <1>0, <1>1 DEF SetActive
  <2>2. active' = active
    BY <1>0, <2>1, SetEntry
  <2>3. QED
    BY <1>1, <2>2, QuietKeeps
<1>2. CASE /\ active[p][th] = None /\ SetActive(p, th, warm[p][th])
           /\ warm' = [warm EXCEPT ![p][th] = None]
  <2> DEFINE o == <<"warm", p>>
             n == <<"active", p>>
  <2>1. o \in Holders /\ n \in Holders
    BY HoldersAre
  <2>2. PICK i \in Info : i = warm[p][th]
    BY <1>0
  <2>3. /\ active'[p][th] = i
        /\ \A q \in Procs, u \in Threads : q # p \/ u # th => active'[q][u] = active[q][u]
    BY <1>0, <1>2, <2>2, SetEntry DEF SetActive
  <2>4. /\ warm'[p][th] = None /\ warm' \in [Procs -> [Threads -> Info]]
        /\ \A q \in Procs, u \in Threads : q # p \/ u # th => warm'[q][u] = warm[q][u]
    BY <1>0, <1>2, SetEntry, InfoFacts
  <2>5. \A q \in Procs : q # p => warm'[q] = warm[q]
    BY <1>0, <1>2
  <2>6. RestStays(o, n)
    BY <2>3, <2>5 DEF RestStays
  <2>7. ASSUME NEW u \in Threads, NEW j \in Info, Owned(j)
        PROVE  /\ Holds(o, u, j)' \/ Holds(n, u, j)' <=> Holds(o, u, j) \/ Holds(n, u, j)
               /\ Holds(o, u, j)' /\ Holds(n, u, j)' => Holds(o, u, j) /\ Holds(n, u, j)
    <3>1. j # None
      BY <2>7 DEF Owned, None
    <3>2. u = th => active[p][u] = None /\ warm[p][u] = i /\ active'[p][u] = i /\ warm'[p][u] = None
      BY <1>2, <2>2, <2>3, <2>4
    <3>3. u # th => active'[p][u] = active[p][u] /\ warm'[p][u] = warm[p][u]
      BY <2>3, <2>4
    <3>4. QED
      BY <3>1, <3>2, <3>3, HoldsAre, HoldThen
  <2> HIDE DEF o, n
  <2>8. Passes(o, n)
    BY <2>1, <2>6, <2>7, RestHolds DEF Passes
  <2>9. QED
    BY <2>1, <2>8, PassesKeeps
<1>3. QED
  BY <1>1, <1>2 DEF Lookup, Active

\* A run takes the container it evicts from the warm pool.
LEMMA EvictKeeps ==
  ASSUME TypeOK, HeldInv, NEW r \in Runs, EvictWarm(r), UNCHANGED placement,
         NEW p \in Procs, p = ProcOf[r]
  PROVE  HeldInv'
<1>0. /\ active \in [Procs -> [Threads -> Info]] /\ warm \in [Procs -> [Threads -> Info]] /\ p \in Procs
  BY PlacesOf DEF TypeOK
<1>1. pc[r] = "evict" /\ UNCHANGED <<running, unstopped, active, doomed, crashes>>
  BY DEF EvictWarm, checker
<1>2. \A s \in Runs \ {r} : pc'[s] = pc[s]
  BY StepFacts DEF EvictWarm
<1>3. CASE \E v \in Warm(p) : /\ Hold(r, v, warm[p][v])
                              /\ warm' = [warm EXCEPT ![p][v] = None] /\ Goto(r, "stop")
  <2>1. PICK v \in Warm(p) : /\ Hold(r, v, warm[p][v])
                             /\ warm' = [warm EXCEPT ![p][v] = None] /\ Goto(r, "stop")
    BY <1>3
  <2>2. v \in Threads
    BY DEF Warm
  <2>3. /\ pc'[r] = "stop" /\ info'[r] = <<v, warm[p][v]>>
        /\ \A s \in Runs \ {r} : info'[s] = info[s]
    <3>1. pc'[r] = "stop"
      BY <2>1, StepFacts
    <3>2. info' = [info EXCEPT ![r] = <<v, warm[p][v]>>] /\ info \in [Runs -> Threads \X Info]
      BY <2>1 DEF Hold, TypeOK
    <3>3. QED
      BY <3>1, <3>2
  <2>4. /\ warm'[p][v] = None
        /\ \A q \in Procs, u \in Threads : q # p \/ u # v => warm'[q][u] = warm[q][u]
    BY <1>0, <2>1, <2>2, SetEntry, InfoFacts
  <2>5. \A q \in Procs : q # p => warm'[q] = warm[q]
    BY <1>0, <2>1
  <2> DEFINE o == <<"warm", p>>
             n == <<"run", r>>
  <2>6. o \in Holders /\ n \in Holders
    BY <1>0, HoldersAre
  <2>7. RestStays(o, n)
    BY <1>1, <1>2, <2>3, <2>5 DEF RestStays
  <2>8. ASSUME NEW u \in Threads, NEW j \in Info, Owned(j)
        PROVE  /\ Holds(o, u, j)' \/ Holds(n, u, j)' <=> Holds(o, u, j) \/ Holds(n, u, j)
               /\ Holds(o, u, j)' /\ Holds(n, u, j)' => Holds(o, u, j) /\ Holds(n, u, j)
    <3>1. j # None
      BY <2>8 DEF Owned, None
    <3>2. Holds(o, u, j)' <=> u # v /\ warm[p][u] = j
      <4>1. Holds(o, u, j)' <=> warm'[p][u] = j
        BY HoldThen
      <4>2. u # v => warm'[p][u] = warm[p][u]
        BY <1>0, <2>4
      <4>3. QED
        BY <2>4, <3>1, <4>1, <4>2
    <3>3. Holds(n, u, j)' <=> u = v /\ warm[p][v] = j
      BY <2>3, HoldThen
    <3>4. ~Holds(n, u, j) /\ (Holds(o, u, j) <=> warm[p][u] = j)
      BY <1>1, HoldsAre
    <3>5. QED
      BY <3>2, <3>3, <3>4
  <2> HIDE DEF o, n
  <2>9. Passes(o, n)
    BY <1>1, <2>6, <2>7, <2>8, RestHolds DEF Passes
  <2>10. QED
    BY <2>6, <2>9, PassesKeeps
<1>4. CASE Goto(r, "start") /\ UNCHANGED <<warm, info>>
  <2>1. pc'[r] = "start"
    BY <1>4, StepFacts
  <2>2. QED
    BY <1>1, <1>2, <1>4, <2>1, QuietKeeps
<1>5. QED
  BY <1>3, <1>4 DEF EvictWarm

\* It stops the container it took.
LEMMA StopEvictedKeeps ==
  ASSUME TypeOK, HeldInv, NEW r \in Runs, StopEvicted(r) PROVE HeldInv'
<1> DEFINE o == <<"run", r>>
<1>1. o \in Holders /\ pc[r] = "stop" /\ info[r] \in Threads \X Info
  BY HoldersAre DEF StopEvicted, TypeOK
<1>2. PICK u \in Threads, j \in Info : info[r] = <<u, j>>
  BY <1>1
<1>3. BackendDestroy(u, j) /\ UNCHANGED <<active, warm, doomed, crashes>>
  BY <1>2 DEF StopEvicted, provider, checker
<1>4. pc'[r] = "start" /\ \A s \in Runs \ {r} : pc'[s] = pc[s] /\ info'[s] = info[s]
  BY DEF StopEvicted, TypeOK, Goto, Hold
<1>5. RestStays(o, o)
  BY <1>3, <1>4 DEF RestStays
<1>6. ASSUME NEW th \in Threads, NEW i \in Info
      PROVE  /\ Holds(o, th, i) <=> th = u /\ i = j
             /\ ~Holds(o, th, i)'
  BY <1>1, <1>2, <1>4, HoldsAre, HoldThen
<1> HIDE DEF o
<1>7. Stops(o, u, j)
  BY <1>1, <1>3, <1>5, <1>6, RestHolds DEF Stops
<1>8. QED
  BY <1>1, <1>7, StopsKeeps

\* A start gives the run a container of its own, or a foreign one nobody owns.
LEMMA StartKeeps ==
  ASSUME TypeOK, HeldInv, NEW r \in Runs, StartContainer(r), UNCHANGED placement,
         NEW th \in Threads, th = ThreadOf[r]
  PROVE  HeldInv'
<1>0. /\ pc[r] = "start" /\ UNCHANGED <<active, warm, doomed, crashes>>
      /\ running \in [Threads -> Nat] /\ starts \in [Threads -> Nat]
  BY DEF StartContainer, provider, checker, TypeOK
<1>1. CASE /\ running[th] = 0
           /\ running' = [running EXCEPT ![th] = starts[th] + 1] /\ UNCHANGED unstopped
           /\ Hold(r, th, [inc |-> starts[th] + 1, owned |-> TRUE])
           /\ Goto(r, "ready")
  <2> DEFINE o == <<"run", r>>
  <2>0. starts[th] + 1 \in Nat
    BY <1>0
  <2>1. PICK j \in Info : j = [inc |-> starts[th] + 1, owned |-> TRUE]
    BY <2>0, InfoFacts
  <2>2. Owned(j) /\ j.inc = starts[th] + 1 /\ j.inc # 0
    BY <1>0, <2>1 DEF Owned
  <2>3. Hold(r, th, j) /\ Goto(r, "ready")
    BY <1>1, <2>1
  <2>4. /\ pc'[r] = "ready" /\ info'[r] = <<th, j>>
        /\ \A s \in Runs \ {r} : pc'[s] = pc[s] /\ info'[s] = info[s]
    <3>1. Goto(r, "ready")
      BY <2>3
    <3>2. Hold(r, th, j)
      BY <2>3
    <3>3. pc'[r] = "ready" /\ \A s \in Runs \ {r} : pc'[s] = pc[s]
      BY <3>1, StepFacts
    <3>4. info'[r] = <<th, j>> /\ \A s \in Runs \ {r} : info'[s] = info[s]
      BY <3>2, HoldFacts
    <3>5. QED
      BY <3>3, <3>4
  <2>5. running'[th] = j.inc /\ \A u \in Threads : u # th => running'[u] = running[u]
    BY <1>0, <1>1, <2>2
  <2>6. o \in Holders /\ RestStays(o, o)
    BY <1>0, <2>4, HoldersAre DEF RestStays
  <2>7. \A u \in Threads, i \in Info : /\ ~Holds(o, u, i)
                                       /\ Holds(o, u, i)' <=> u = th /\ i = j
    BY <1>0, <2>4, HoldsAre, HoldThen
  <2> HIDE DEF o
  <2>8. \A x \in Holders, i \in Info : Owned(i) => ~Holds(x, th, i)
    BY <1>1 DEF HeldInv, HeldRuns
  <2>9. \A x \in Holders, u \in Threads, i \in Info : Owned(i) =>
          (Holds(x, u, i)' <=> Holds(x, u, i) \/ (x = o /\ u = th /\ i = j))
    BY <2>6, <2>7, RestHolds
  <2>10. HeldRuns'
    BY <2>2, <2>5, <2>8, <2>9 DEF HeldInv, HeldRuns
  <2>11. OneHolder'
    BY <2>8, <2>9 DEF HeldInv, OneHolder
  <2>12. RunsAreHeld'
    <3>1. ASSUME crashes = 0, NEW u \in Threads, NEW i \in Info, Owned(i), running'[u] = i.inc, i.inc # 0,
                 u \notin unstopped'
          PROVE  \E x \in Holders : Holds(x, u, i)'
      <4>1. CASE u = th
        <5>1. i = j
          BY <2>2, <2>5, <3>1, <4>1, InfoFacts DEF Owned
        <5>2. QED
          BY <2>6, <2>9, <3>1, <4>1, <5>1
      <4>2. CASE u # th
        BY <1>1, <2>5, <2>9, <3>1, <4>2 DEF HeldInv, RunsAreHeld
      <4>3. QED
        BY <4>1, <4>2
    <3>2. QED
      BY <1>0, <3>1 DEF RunsAreHeld
  <2>13. QED
    BY <2>10, <2>11, <2>12 DEF HeldInv
<1>2. CASE /\ Hold(r, th, [inc |-> running[th], owned |-> FALSE])
           /\ Goto(r, "ready") /\ UNCHANGED <<running, unstopped>>
  <2>1. PICK j : j = [inc |-> running[th], owned |-> FALSE] /\ Hold(r, th, j)
    BY <1>2
  <2>2. /\ pc'[r] = "ready" /\ info'[r] = <<th, j>> /\ ~j.owned
        /\ \A s \in Runs \ {r} : pc'[s] = pc[s] /\ info'[s] = info[s]
    <3>1. Hold(r, th, j)
      BY <2>1
    <3>2. Goto(r, "ready")
      BY <1>2
    <3>3. pc'[r] = "ready" /\ \A s \in Runs \ {r} : pc'[s] = pc[s]
      BY <3>2, StepFacts
    <3>4. info'[r] = <<th, j>> /\ \A s \in Runs \ {r} : info'[s] = info[s]
      BY <3>1, HoldFacts
    <3>5. ~j.owned
      BY <2>1
    <3>6. QED
      BY <3>3, <3>4, <3>5
  <2>3. QED
    BY <1>0, <1>2, <2>2, QuietKeeps
<1>3. CASE Goto(r, "idle") /\ UNCHANGED <<running, unstopped, info>>
  <2>1. pc'[r] = "idle" /\ \A s \in Runs \ {r} : pc'[s] = pc[s]
    BY <1>3, StepFacts
  <2>2. QED
    BY <1>0, <1>3, <2>1, QuietKeeps
<1>4. QED
  BY <1>1, <1>2, <1>3 DEF StartContainer

\* The container goes to the active pool, or is stopped when the process shut down.
LEMMA RegisterKeeps ==
  ASSUME TypeOK, HeldInv, LocksHeld, Found, NEW r \in Runs, RegisterCreated(r), UNCHANGED placement,
         NEW p \in Procs, p = ProcOf[r], NEW th \in Threads, th = ThreadOf[r]
  PROVE  HeldInv'
<1> DEFINE o == <<"run", r>>
           n == <<"active", p>>
<1>0. /\ pc[r] = "ready" /\ pc'[r] \in {"have", "idle"} /\ UNCHANGED <<warm, doomed, info, crashes>>
      /\ \A s \in Runs \ {r} : pc'[s] = pc[s]
      /\ active \in [Procs -> [Threads -> Info]]
  BY StepFacts DEF RegisterCreated, checker, TypeOK
<1>1. PICK j \in Info : info[r] = <<th, j>> /\ j = info[r][2]
  <2>1. info[r] \in Threads \X Info /\ info[r][1] = th
    BY <1>0 DEF TypeOK, Found
  <2>2. QED
    BY <2>1
<1>2. o \in Holders /\ n \in Holders
  BY HoldersAre
<1>3. \A u \in Threads, i \in Info : /\ Holds(o, u, i) <=> u = th /\ i = j
                                     /\ ~Holds(o, u, i)'
  BY <1>0, <1>1, HoldsAre, HoldThen
<1>4. CASE SetActive(p, th, info[r][2]) /\ UNCHANGED <<running, unstopped>>
  <2>1. active[p][th] = None
    BY <1>0 DEF LocksHeld, Inside
  <2>2. /\ active'[p][th] = j
        /\ \A q \in Procs, u \in Threads : q # p \/ u # th => active'[q][u] = active[q][u]
    BY <1>0, <1>1, <1>4, SetEntry DEF SetActive
  <2>3. RestStays(o, n)
    BY <1>0, <2>2 DEF RestStays
  <2>4. ASSUME NEW u \in Threads, NEW i \in Info, Owned(i)
        PROVE  Holds(n, u, i)' <=> Holds(o, u, i) \/ Holds(n, u, i)
    <3>1. i # None
      BY <2>4 DEF Owned, None
    <3>2. Holds(n, u, i)' <=> active'[p][u] = i
      BY HoldThen
    <3>3. Holds(n, u, i) <=> active[p][u] = i
      BY HoldsAre
    <3> HIDE DEF n, o
    <3>4. QED
      BY <1>3, <2>1, <2>2, <3>1, <3>2, <3>3
  <2> HIDE DEF n, o
  <2>5. Passes(o, n)
    BY <1>0, <1>2, <1>3, <1>4, <2>3, <2>4, RestHolds DEF Passes
  <2>6. QED
    BY <1>2, <2>5, PassesKeeps
<1>5. CASE BackendDestroy(th, info[r][2]) /\ UNCHANGED active
  <2>1. RestStays(o, o)
    BY <1>0, <1>5 DEF RestStays
  <2> HIDE DEF n, o
  <2>2. Stops(o, th, j)
    BY <1>0, <1>1, <1>2, <1>3, <1>5, <2>1, RestHolds DEF Stops
  <2>3. QED
    BY <1>2, <2>2, StopsKeeps
<1>6. QED
  BY <1>4, <1>5 DEF RegisterCreated

\* A release puts the container into the warm pool.
LEMMA ReleaseKeeps ==
  ASSUME TypeOK, HeldInv, ActiveXorWarm, NEW r \in Runs, Release(r), UNCHANGED placement,
         NEW p \in Procs, p = ProcOf[r], NEW th \in Threads, th = ThreadOf[r]
  PROVE  HeldInv'
<1> DEFINE o == <<"active", p>>
           n == <<"warm", p>>
<1>0. /\ active \in [Procs -> [Threads -> Info]] /\ warm \in [Procs -> [Threads -> Info]]
      /\ active[p][th] # None /\ UNCHANGED <<running, unstopped, doomed, pc, info, crashes>>
  BY DEF Release, Active, checker, runs, TypeOK
<1>1. warm[p][th] = None
  BY <1>0, ApartMeans
<1>2. PICK i \in Info : i = active[p][th]
  BY <1>0
<1>3. active' = [active EXCEPT ![p][th] = None] /\ warm' = [warm EXCEPT ![p][th] = i]
  BY <1>1, <1>2 DEF Release, Warm
<1>4. /\ active'[p][th] = None /\ warm'[p][th] = i
      /\ \A q \in Procs, u \in Threads : q # p \/ u # th =>
           active'[q][u] = active[q][u] /\ warm'[q][u] = warm[q][u]
  BY <1>0, <1>3, SetEntry, InfoFacts
<1>5. \A q \in Procs : q # p => active'[q] = active[q] /\ warm'[q] = warm[q]
  BY <1>0, <1>3
<1>6. o \in Holders /\ n \in Holders /\ RestStays(o, n)
  BY <1>0, <1>5, HoldersAre DEF RestStays
<1>7. ASSUME NEW u \in Threads, NEW j \in Info, Owned(j)
      PROVE  /\ Holds(o, u, j)' \/ Holds(n, u, j)' <=> Holds(o, u, j) \/ Holds(n, u, j)
             /\ Holds(o, u, j)' /\ Holds(n, u, j)' => Holds(o, u, j) /\ Holds(n, u, j)
  <2>1. j # None
    BY <1>7 DEF Owned, None
  <2>2. /\ Holds(o, u, j)' <=> active'[p][u] = j
        /\ Holds(n, u, j)' <=> warm'[p][u] = j
        /\ Holds(o, u, j) <=> active[p][u] = j
        /\ Holds(n, u, j) <=> warm[p][u] = j
    BY HoldsAre, HoldThen
  <2> HIDE DEF o, n
  <2>3. CASE u = th
    BY <1>1, <1>2, <1>4, <2>1, <2>2, <2>3
  <2>4. CASE u # th
    BY <1>4, <2>2, <2>4
  <2>5. QED
    BY <2>3, <2>4
<1> HIDE DEF o, n
<1>8. Passes(o, n)
  BY <1>0, <1>6, <1>7, RestHolds DEF Passes
<1>9. QED
  BY <1>6, <1>8, PassesKeeps

\* Every step of a run keeps what is held sound.
LEMMA HeldRunStep ==
  ASSUME TypeOK, HeldInv, LocksHeld, Found, ActiveXorWarm, NEW r \in Runs, RunStep(r),
         UNCHANGED placement
  PROVE  HeldInv'
<1>0. PICK p \in Procs, th \in Threads : p = ProcOf[r] /\ th = ThreadOf[r]
  BY PlacesOf
<1>c. active \in [Procs -> [Threads -> Info]]
  BY DEF TypeOK
<1> DEFINE Same == \A s \in Runs \ {r} : pc'[s] = pc[s] /\ info'[s] = info[s]
<1>s. ASSUME NEW i \in Info, SetActive(p, th, i), active[p][th] = i PROVE active' = active
  BY <1>c, <1>s, SetEntry DEF SetActive
<1>1. CASE UseKnown(r)
  <2>1. pc[r] = "idle" /\ pc'[r] = "using" /\ UNCHANGED <<running, unstopped, warm, doomed, crashes>> /\ Same
    <3>1. /\ pc[r] = "idle" /\ UNCHANGED <<running, unstopped, warm, doomed, crashes>> /\ Goto(r, "using")
          /\ Hold(r, th, active[p][th])
      BY <1>0, <1>1 DEF UseKnown, checker
    <3>2. pc'[r] = "using" /\ \A s \in Runs \ {r} : pc'[s] = pc[s]
      BY <3>1, StepFacts
    <3>3. \A s \in Runs \ {r} : info'[s] = info[s]
      BY <3>1, HoldFacts
    <3>4. QED
      BY <3>1, <3>2, <3>3
  <2>2. active' = active
    BY <1>0, <1>1, <1>c, <1>s DEF UseKnown
  <2>3. QED
    BY <2>1, <2>2, QuietKeeps
<1>2. CASE Acquire(r)
  <2>1. pc[r] = "idle" /\ pc'[r] \in {"have", "filelock"} /\ UNCHANGED <<running, unstopped, doomed, crashes>> /\ Same
    BY <1>2, StepFacts DEF Acquire, checker
  <2>2. Lookup(p, th) \/ UNCHANGED <<active, warm>>
    BY <1>0, <1>2 DEF Acquire, Miss, provider
  <2>3. QED
    BY <2>1, <2>2, LookupKeeps, QuietKeeps
<1>3. CASE TakeFileLock(r)
  <2>1. pc[r] = "filelock" /\ pc'[r] \in {"have", "discover"} /\ UNCHANGED <<running, unstopped, doomed, crashes>> /\ Same
    BY <1>3, StepFacts DEF TakeFileLock, checker
  <2>2. Lookup(p, th) \/ UNCHANGED <<active, warm>>
    BY <1>0, <1>3 DEF TakeFileLock, Miss, provider
  <2>3. QED
    BY <2>1, <2>2, LookupKeeps, QuietKeeps
<1>4. CASE Discover(r)
  <2>1. pc[r] = "discover" /\ UNCHANGED <<running, unstopped, active, warm, doomed, crashes>>
    BY <1>4 DEF Discover, provider, checker
  <2>2. pc'[r] \in {"adopt", "count"} /\ \A s \in Runs \ {r} : pc'[s] = pc[s]
    <3>1. \E place \in {"adopt", "count"} : Goto(r, place)
      BY <1>4 DEF Discover
    <3>2. QED
      BY <3>1, StepFacts
  <2>3. \A s \in Runs \ {r} : info'[s] = info[s]
    <3>1. (\E u, i : Hold(r, u, i)) \/ UNCHANGED info
      BY <1>4 DEF Discover
    <3>2. QED
      BY <3>1, HoldFacts
  <2>4. QED
    BY <2>1, <2>2, <2>3, QuietKeeps
<1>5. CASE Adopt(r)
  <2>1. pc[r] = "adopt" /\ pc'[r] = "have" /\ UNCHANGED <<running, unstopped, warm, doomed, crashes>> /\ Same
    BY <1>5, StepFacts DEF Adopt, checker
  <2>2. active[p][th] = None /\ ~info[r][2].owned /\ info[r][2] \in Info
    BY <1>0, <2>1 DEF LocksHeld, Inside, Found, TypeOK
  <2>3. /\ active'[p][th] = info[r][2]
        /\ \A q \in Procs, u \in Threads : q # p \/ u # th => active'[q][u] = active[q][u]
    BY <1>0, <1>5, <1>c, <2>2, SetEntry DEF Adopt, SetActive
  <2>4. \A q \in Procs, u \in Threads, i \in Info : Owned(i) => (active'[q][u] = i <=> active[q][u] = i)
    BY <2>2, <2>3, InfoFacts DEF Owned
  <2>5. QED
    BY <2>1, <2>4, QuietKeeps
<1>6. CASE CountReplicas(r)
  <2>1. /\ pc[r] = "count" /\ pc'[r] \in {"evict", "start"} /\ Same
        /\ UNCHANGED <<running, unstopped, active, warm, doomed, crashes>>
    BY <1>6, StepFacts DEF CountReplicas, provider, checker
  <2>2. QED
    BY <2>1, QuietKeeps
<1>7. CASE EvictWarm(r)
  BY <1>0, <1>7, EvictKeeps
<1>8. CASE StopEvicted(r)
  BY <1>8, StopEvictedKeeps
<1>9. CASE StartContainer(r)
  BY <1>0, <1>9, StartKeeps
<1>10. CASE RegisterCreated(r)
  BY <1>0, <1>10, RegisterKeeps
<1>11. CASE GetAcquired(r)
  <2>1. pc[r] = "have" /\ UNCHANGED <<running, unstopped, warm, doomed, crashes>>
    BY <1>11 DEF GetAcquired, checker
  <2>2. pc'[r] \in {"using", "idle"} /\ \A s \in Runs \ {r} : pc'[s] = pc[s]
    BY <1>11, StepFacts DEF GetAcquired
  <2>3. \A s \in Runs \ {r} : info'[s] = info[s]
    BY <1>11, StepFacts DEF GetAcquired
  <2>4. active' = active
    BY <1>0, <1>11, <1>c, <1>s DEF GetAcquired
  <2>5. QED
    BY <2>1, <2>2, <2>3, <2>4, QuietKeeps
<1>12. CASE ToolDone(r)
  <2>1. /\ pc[r] = "using" /\ pc'[r] = "idle" /\ Same
        /\ UNCHANGED <<running, unstopped, active, warm, doomed, crashes>>
    BY <1>12, StepFacts DEF ToolDone, provider, checker
  <2>2. QED
    BY <2>1, QuietKeeps
<1>13. CASE Release(r)
  BY <1>0, <1>13, ReleaseKeeps
<1>14. QED
  BY <1>1, <1>2, <1>3, <1>4, <1>5, <1>6, <1>7, <1>8, <1>9, <1>10, <1>11, <1>12, <1>13 DEF RunStep

\* An idle scan or a shutdown takes containers from the warm pool to stop them.
LEMMA WarmIsDoomed ==
  ASSUME TypeOK, HeldInv, NEW p \in Procs, NEW old \in SUBSET Warm(p),
         UNCHANGED <<running, unstopped, active, pc, info, crashes>>,
         doomed' = [doomed EXCEPT ![p] = @ \cup {<<th, warm[p][th]>> : th \in old}],
         warm' = [warm EXCEPT ![p] = [th \in Threads |-> IF th \in old THEN None ELSE @[th]]]
  PROVE  HeldInv'
<1> DEFINE o == <<"warm", p>>
           n == <<"doomed", p>>
<1>0. /\ warm \in [Procs -> [Threads -> Info]] /\ doomed \in [Procs -> SUBSET (Threads \X Info)]
  BY DEF TypeOK
<1>1. /\ doomed'[p] = doomed[p] \cup {<<th, warm[p][th]>> : th \in old}
      /\ \A th \in Threads : warm'[p][th] = IF th \in old THEN None ELSE warm[p][th]
      /\ \A q \in Procs : q # p => doomed'[q] = doomed[q] /\ warm'[q] = warm[q]
  BY <1>0
<1>2. o \in Holders /\ n \in Holders /\ RestStays(o, n)
  BY <1>1, HoldersAre DEF RestStays
<1>3. ASSUME NEW u \in Threads, NEW j \in Info, Owned(j)
      PROVE  /\ Holds(o, u, j)' \/ Holds(n, u, j)' <=> Holds(o, u, j) \/ Holds(n, u, j)
             /\ Holds(o, u, j)' /\ Holds(n, u, j)' => Holds(o, u, j) /\ Holds(n, u, j)
  <2>1. j # None
    BY <1>3 DEF Owned, None
  <2>2. /\ Holds(o, u, j)' <=> warm'[p][u] = j
        /\ Holds(n, u, j)' <=> <<u, j>> \in doomed'[p]
        /\ Holds(o, u, j) <=> warm[p][u] = j
        /\ Holds(n, u, j) <=> <<u, j>> \in doomed[p]
    <3>1. Holds(o, u, j)' <=> warm'[p][u] = j
      BY HoldThen
    <3>2. Holds(n, u, j)' <=> <<u, j>> \in doomed'[p]
      BY HoldThen
    <3>3. Holds(o, u, j) <=> warm[p][u] = j
      BY HoldsAre
    <3>4. Holds(n, u, j) <=> <<u, j>> \in doomed[p]
      BY HoldsAre
    <3>5. QED
      BY <3>1, <3>2, <3>3, <3>4
  <2>3. <<u, j>> \in doomed'[p] <=> <<u, j>> \in doomed[p] \/ (u \in old /\ warm[p][u] = j)
    BY <1>1
  <2> HIDE DEF o, n
  <2>4. QED
    BY <1>1, <2>1, <2>2, <2>3
<1> HIDE DEF o, n
<1>4. Passes(o, n)
  BY <1>2, <1>3, RestHolds DEF Passes
<1>5. QED
  BY <1>2, <1>4, PassesKeeps

\* A thread's container is taken out of the pools to stop it.
LEMMA PopKeeps ==
  ASSUME TypeOK, HeldInv, ActiveXorWarm, NEW p \in Procs, NEW th \in Threads, PopForDestroy(p, th),
         UNCHANGED <<running, unstopped, pc, info, crashes>>
  PROVE  HeldInv'
<1> DEFINE n == <<"doomed", p>>
<1>0. /\ active \in [Procs -> [Threads -> Info]] /\ warm \in [Procs -> [Threads -> Info]]
      /\ doomed \in [Procs -> SUBSET (Threads \X Info)]
  BY DEF TypeOK
<1>1. active' = [active EXCEPT ![p][th] = None] /\ warm' = [warm EXCEPT ![p][th] = None]
  BY DEF PopForDestroy
<1>2. /\ active'[p][th] = None
      /\ \A q \in Procs, u \in Threads : q # p \/ u # th => active'[q][u] = active[q][u]
  BY <1>0, <1>1, SetEntry, InfoFacts
<1>3. /\ warm'[p][th] = None
      /\ \A q \in Procs, u \in Threads : q # p \/ u # th => warm'[q][u] = warm[q][u]
  BY <1>0, <1>1, SetEntry, InfoFacts
<1>4. \A q \in Procs : q # p => warm'[q] = warm[q]
  BY <1>0, <1>1
<1>5. active[p][th] = None \/ warm[p][th] = None
  BY ApartMeans
<1>6. PICK i \in Info : i = IF th \in Active(p) THEN active[p][th] ELSE warm[p][th]
  BY <1>0
<1>7. doomed' = IF i = None THEN doomed ELSE [doomed EXCEPT ![p] = @ \cup {<<th, i>>}]
  BY <1>6 DEF PopForDestroy
<1>8. /\ \A q \in Procs : q # p => doomed'[q] = doomed[q]
      /\ \A u \in Threads, j \in Info : Owned(j) =>
           (<<u, j>> \in doomed'[p] <=> <<u, j>> \in doomed[p] \/ (u = th /\ j = i))
  BY <1>0, <1>7 DEF Owned, None
<1>9. \A u \in Threads, j \in Info : Holds(n, u, j)' <=> <<u, j>> \in doomed'[p]
  BY HoldThen
<1>10. \A u \in Threads, j \in Info : Holds(n, u, j) <=> <<u, j>> \in doomed[p]
  BY HoldsAre
<1>11. \A j \in Info : Owned(j) => j # None
  BY DEF Owned, None
<1>12. CASE th \in Active(p)
  <2> DEFINE o == <<"active", p>>
  <2>1. warm[p][th] = None /\ i = active[p][th]
    BY <1>5, <1>6, <1>12 DEF Active
  <2>2. warm' = warm
    BY <1>0, <1>1, <2>1, SetEntry, InfoFacts
  <2>3. o \in Holders /\ n \in Holders /\ RestStays(o, n)
    BY <1>2, <1>8, <2>2, HoldersAre DEF RestStays
  <2>4. ASSUME NEW u \in Threads, NEW j \in Info, Owned(j)
        PROVE  /\ Holds(o, u, j)' \/ Holds(n, u, j)' <=> Holds(o, u, j) \/ Holds(n, u, j)
               /\ Holds(o, u, j)' /\ Holds(n, u, j)' => Holds(o, u, j) /\ Holds(n, u, j)
    <3>1. (Holds(o, u, j)' <=> active'[p][u] = j) /\ (Holds(o, u, j) <=> active[p][u] = j)
      BY HoldsAre, HoldThen
    <3> HIDE DEF o, n
    <3>2. CASE u = th
      BY <1>2, <1>8, <1>9, <1>10, <1>11, <2>1, <2>4, <3>1, <3>2
    <3>3. CASE u # th
      BY <1>2, <1>8, <1>9, <1>10, <2>4, <3>1, <3>3
    <3>4. QED
      BY <3>2, <3>3
  <2> HIDE DEF o, n
  <2>5. Passes(o, n)
    BY <2>3, <2>4, RestHolds DEF Passes
  <2>6. QED
    BY <2>3, <2>5, PassesKeeps
<1>13. CASE th \notin Active(p)
  <2> DEFINE o == <<"warm", p>>
  <2>1. active[p][th] = None /\ i = warm[p][th]
    BY <1>6, <1>13 DEF Active
  <2>2. active' = active
    BY <1>0, <1>1, <2>1, SetEntry, InfoFacts
  <2>3. o \in Holders /\ n \in Holders /\ RestStays(o, n)
    BY <1>4, <1>8, <2>2, HoldersAre DEF RestStays
  <2>4. ASSUME NEW u \in Threads, NEW j \in Info, Owned(j)
        PROVE  /\ Holds(o, u, j)' \/ Holds(n, u, j)' <=> Holds(o, u, j) \/ Holds(n, u, j)
               /\ Holds(o, u, j)' /\ Holds(n, u, j)' => Holds(o, u, j) /\ Holds(n, u, j)
    <3>1. (Holds(o, u, j)' <=> warm'[p][u] = j) /\ (Holds(o, u, j) <=> warm[p][u] = j)
      BY HoldsAre, HoldThen
    <3> HIDE DEF o, n
    <3>2. CASE u = th
      BY <1>3, <1>8, <1>9, <1>10, <1>11, <2>1, <2>4, <3>1, <3>2
    <3>3. CASE u # th
      BY <1>3, <1>8, <1>9, <1>10, <2>4, <3>1, <3>3
    <3>4. QED
      BY <3>2, <3>3
  <2> HIDE DEF o, n
  <2>5. Passes(o, n)
    BY <2>3, <2>4, RestHolds DEF Passes
  <2>6. QED
    BY <2>3, <2>5, PassesKeeps
<1>14. QED
  BY <1>12, <1>13

\* And is stopped.
LEMMA StopDoomedKeeps ==
  ASSUME TypeOK, HeldInv, NEW p \in Procs, StopDoomed(p) PROVE HeldInv'
<1> DEFINE o == <<"doomed", p>>
<1>1. PICK d \in doomed[p] :
        /\ BackendDestroy(d[1], d[2]) /\ doomed' = [doomed EXCEPT ![p] = @ \ {d}]
        /\ UNCHANGED <<active, warm, pc, info, crashes>>
  BY DEF StopDoomed, provider, runs
<1>2. doomed \in [Procs -> SUBSET (Threads \X Info)]
  BY DEF TypeOK
<1>3. PICK u \in Threads, j \in Info : d = <<u, j>>
  BY <1>1, <1>2
<1>4. /\ doomed'[p] = doomed[p] \ {<<u, j>>} /\ <<u, j>> \in doomed[p]
      /\ \A q \in Procs : q # p => doomed'[q] = doomed[q]
  BY <1>1, <1>2, <1>3
<1>5. o \in Holders /\ RestStays(o, o)
  BY <1>1, <1>4, HoldersAre DEF RestStays
<1>6. ASSUME NEW th \in Threads, NEW i \in Info
      PROVE  /\ Holds(o, th, i) <=> <<th, i>> \in doomed[p]
             /\ Holds(o, th, i)' <=> <<th, i>> \in doomed'[p]
  BY HoldsAre, HoldThen
<1>7. BackendDestroy(u, j)
  BY <1>1, <1>3
<1> HIDE DEF o
<1>8. \A th \in Threads, i \in Info : Holds(o, th, i)' <=> Holds(o, th, i) /\ ~(th = u /\ i = j)
  BY <1>4, <1>6
<1>9. Stops(o, u, j)
  BY <1>1, <1>4, <1>5, <1>6, <1>7, <1>8, RestHolds DEF Stops
<1>10. QED
  BY <1>5, <1>9, StopsKeeps

\* A process that dies leaves its containers running, and to nobody.
LEMMA CrashKeeps ==
  ASSUME TypeOK, HeldInv, NEW p \in Procs, Crash(p) PROVE HeldInv'
<1>0. /\ active \in [Procs -> [Threads -> Info]] /\ warm \in [Procs -> [Threads -> Info]]
      /\ doomed \in [Procs -> SUBSET (Threads \X Info)] /\ crashes \in Nat
  BY DEF TypeOK
<1>1. /\ active' = [active EXCEPT ![p] = [th \in Threads |-> None]]
      /\ warm' = [warm EXCEPT ![p] = [th \in Threads |-> None]]
      /\ doomed' = [doomed EXCEPT ![p] = {}]
      /\ crashes' = crashes + 1 /\ UNCHANGED <<running, unstopped>>
  BY DEF Crash
<1>2. \A r \in Runs : pc'[r] = "idle" \/ (pc'[r] = pc[r] /\ info'[r] = info[r])
  BY DEF Crash
<1>3. ASSUME NEW x \in Holders, NEW th \in Threads, NEW i \in Info, Owned(i), Holds(x, th, i)'
      PROVE  Holds(x, th, i)
  <2>1. i # None
    BY <1>3 DEF Owned, None
  <2>2. ASSUME NEW q \in Procs, x = <<"active", q>> PROVE Holds(x, th, i)
    BY <1>0, <1>1, <1>3, <2>1, <2>2, HoldsAre, HoldThen
  <2>3. ASSUME NEW q \in Procs, x = <<"warm", q>> PROVE Holds(x, th, i)
    BY <1>0, <1>1, <1>3, <2>1, <2>3, HoldsAre, HoldThen
  <2>4. ASSUME NEW q \in Procs, x = <<"doomed", q>> PROVE Holds(x, th, i)
    BY <1>0, <1>1, <1>3, <2>4, HoldsAre, HoldThen
  <2>5. ASSUME NEW r \in Runs, x = <<"run", r>> PROVE Holds(x, th, i)
    BY <1>2, <1>3, <2>5, HoldsAre, HoldThen
  <2>6. QED
    BY <2>2, <2>3, <2>4, <2>5, HoldersAre
<1>4. HeldRuns'
  BY <1>1, <1>3 DEF HeldInv, HeldRuns
<1>5. OneHolder'
  BY <1>3 DEF HeldInv, OneHolder
<1>6. RunsAreHeld'
  BY <1>0, <1>1 DEF RunsAreHeld
<1>7. QED
  BY <1>4, <1>5, <1>6 DEF HeldInv

\* Every step of a process keeps what is held sound.
LEMMA HeldProcStep ==
  ASSUME TypeOK, HeldInv, ActiveXorWarm, NEW p \in Procs, ProcStep(p) PROVE HeldInv'
<1>1. ASSUME UNCHANGED <<running, unstopped, active, warm, doomed, pc, info, crashes>> PROVE HeldInv'
  BY <1>1 DEF HeldInv, HeldRuns, OneHolder, RunsAreHeld, Holds
<1>2. ASSUME NEW th \in Threads, Age(p, th) \/ IdleVerify(p, th) PROVE HeldInv'
  BY <1>1, <1>2 DEF Age, IdleVerify, provider, checker, runs
<1>3. ASSUME NEW th \in Threads, IdleDestroy(p, th) \/ ShutdownDestroy(p, th) PROVE HeldInv'
  BY <1>3, PopKeeps DEF IdleDestroy, ShutdownDestroy, runs
<1>4. CASE IdleScan(p)
  <2>1. PICK old \in SUBSET Warm(p) :
          /\ doomed' = [doomed EXCEPT ![p] = {<<th, warm[p][th]>> : th \in old}]
          /\ warm' = [warm EXCEPT ![p] = [th \in Threads |-> IF th \in old THEN None ELSE @[th]]]
    <3>1. {th \in Warm(p) : stale[p][th]} \in SUBSET Warm(p)
      OBVIOUS
    <3>2. QED
      BY <1>4, <3>1 DEF IdleScan
  <2>2. doomed[p] = {} /\ UNCHANGED <<running, unstopped, active, pc, info, crashes>>
    BY <1>4 DEF IdleScan, runs
  <2>3. doomed' = [doomed EXCEPT ![p] = @ \cup {<<th, warm[p][th]>> : th \in old}]
    <3>1. doomed[p] \cup {<<th, warm[p][th]>> : th \in old} = {<<th, warm[p][th]>> : th \in old}
      BY <2>2
    <3>2. QED
      BY <2>1, <3>1
  <2>4. QED
    BY <2>1, <2>2, <2>3, WarmIsDoomed
<1>5. CASE Shutdown(p)
  <2>1. PICK old \in SUBSET Warm(p) : old = Warm(p)
    OBVIOUS
  <2>2. /\ doomed' = [doomed EXCEPT ![p] = @ \cup {<<th, warm[p][th]>> : th \in old}]
        /\ UNCHANGED <<running, unstopped, active, pc, info, crashes>>
    BY <1>5, <2>1 DEF Shutdown, runs
  <2>3. warm' = [warm EXCEPT ![p] = [th \in Threads |-> IF th \in old THEN None ELSE @[th]]]
    <3>1. [th \in Threads |-> IF th \in old THEN None ELSE warm[p][th]] = [th \in Threads |-> None]
      BY <2>1 DEF Warm
    <3>2. QED
      BY <1>5, <3>1 DEF Shutdown
  <2>4. QED
    BY <2>2, <2>3, WarmIsDoomed
<1>6. CASE StopDoomed(p)
  BY <1>6, StopDoomedKeeps
<1>7. CASE Crash(p)
  BY <1>7, CrashKeeps
<1>8. QED
  BY <1>2, <1>3, <1>4, <1>5, <1>6, <1>7 DEF ProcStep

----------------------------------------------------------------------------
(* The tool calls and the idle checker.                                      *)

\* What a step of a run does to an entry in use: nothing, or it is parked.
LEMMA RunStepsServe ==
  ASSUME TypeOK, LocksHeld, NEW r \in Runs, RunStep(r), UNCHANGED placement
  PROVE  \A q \in Procs, u \in Threads :
           active[q][u] # None =>
             active'[q][u] = active[q][u] \/ (active'[q][u] = None /\ warm'[q][u] # None)
<1> DEFINE p == ProcOf[r]
           th == ThreadOf[r]
           Served == \A q \in Procs, u \in Threads : active[q][u] # None =>
                       active'[q][u] = active[q][u] \/ (active'[q][u] = None /\ warm'[q][u] # None)
<1>0. /\ p \in Procs /\ th \in Threads /\ info[r][2] \in Info /\ active[p][th] \in Info /\ warm[p][th] \in Info
      /\ active \in [Procs -> [Threads -> Info]] /\ warm \in [Procs -> [Threads -> Info]]
  BY PlacesOf DEF TypeOK
<1>1. UNCHANGED active => Served
  OBVIOUS
<1>2. ASSUME NEW i \in Info, SetActive(p, th, i), active[p][th] = i \/ active[p][th] = None
      PROVE  Served
  <2>1. /\ active'[p][th] = i
        /\ \A q \in Procs, u \in Threads : q # p \/ u # th => active'[q][u] = active[q][u]
    BY <1>0, <1>2, Cached
  <2>2. QED
    BY <1>2, <2>1
<1>3. Lookup(p, th) => Served
  BY <1>0, <1>2 DEF Lookup, Active
<1>4. pc[r] \in {"adopt", "ready"} => active[p][th] = None
  BY DEF LocksHeld, Inside
<1>5. CASE UseKnown(r) \/ GetAcquired(r)
  <2>1. SetActive(p, th, active[p][th]) \/ UNCHANGED active
    BY <1>5 DEF UseKnown, GetAcquired
  <2>2. QED
    BY <1>0, <1>1, <1>2, <2>1
<1>6. CASE Acquire(r) \/ TakeFileLock(r)
  BY <1>1, <1>3, <1>6 DEF Acquire, TakeFileLock, Miss, provider
<1>7. CASE \/ Discover(r) \/ CountReplicas(r) \/ EvictWarm(r) \/ StopEvicted(r) \/ StartContainer(r)
           \/ ToolDone(r)
  BY <1>1, <1>7 DEF Discover, CountReplicas, EvictWarm, StopEvicted, StartContainer, ToolDone, provider
<1>8. CASE Adopt(r)
  BY <1>0, <1>2, <1>4, <1>8 DEF Adopt
<1>9. CASE RegisterCreated(r)
  BY <1>0, <1>1, <1>2, <1>4, <1>9 DEF RegisterCreated
<1>10. CASE Release(r)
  <2> DEFINE new == IF th \in Warm(p) THEN warm[p][th] ELSE active[p][th]
  <2>1. new \in Info /\ None \in Info /\ new # None
    BY <1>0, <1>10, InfoFacts DEF Release, Active, Warm
  <2>2. active' = [active EXCEPT ![p][th] = None] /\ warm' = [warm EXCEPT ![p][th] = new]
    BY <1>10 DEF Release
  <2> HIDE DEF new
  <2>3. /\ active'[p][th] = None /\ warm'[p][th] = new
        /\ \A q \in Procs, u \in Threads : q # p \/ u # th => active'[q][u] = active[q][u]
    BY <1>0, <2>1, <2>2, SetEntry
  <2>4. QED
    BY <2>1, <2>3
<1>11. QED
  BY <1>5, <1>6, <1>7, <1>8, <1>9, <1>10 DEF RunStep

\* A step of a run moves no other.
LEMMA OthersRest ==
  ASSUME TypeOK, NEW r \in Runs, RunStep(r), UNCHANGED placement, NEW s \in Runs \ {r}
  PROVE  pc'[s] = pc[s] /\ info'[s] = info[s]
<1>1. pc \in [Runs -> Places] /\ info \in [Runs -> Threads \X Info]
  BY DEF TypeOK
<1>2. /\ \A place : Goto(r, place) => pc'[s] = pc[s]
      /\ \A u, i : Hold(r, u, i) => info'[s] = info[s]
  BY <1>1 DEF Goto, Hold
<1>3. CASE UseKnown(r) \/ Acquire(r) \/ TakeFileLock(r) \/ Discover(r) \/ Adopt(r)
  BY <1>2, <1>3 DEF UseKnown, Acquire, TakeFileLock, Discover, Adopt
<1>4. CASE CountReplicas(r) \/ EvictWarm(r) \/ StopEvicted(r) \/ StartContainer(r)
  BY <1>2, <1>4 DEF CountReplicas, EvictWarm, StopEvicted, StartContainer
<1>5. CASE RegisterCreated(r) \/ GetAcquired(r) \/ ToolDone(r) \/ Release(r)
  BY <1>2, <1>5 DEF RegisterCreated, GetAcquired, ToolDone, Release, runs
<1>6. QED
  BY <1>3, <1>4, <1>5 DEF RunStep

\* A run that begins to use a container uses its thread's entry.
LEMMA UseBegins ==
  ASSUME TypeOK, NEW r \in Runs, RunStep(r), UNCHANGED placement, pc'[r] = "using"
  PROVE  active'[ProcOf[r]][ThreadOf[r]] = info'[r][2] \/ UNCHANGED <<active, pc, info>>
<1> DEFINE p == ProcOf[r]
           th == ThreadOf[r]
<1>0. p \in Procs /\ th \in Threads /\ active[p][th] \in Info
  BY PlacesOf DEF TypeOK
<1>1. CASE UseKnown(r) \/ GetAcquired(r)
  <2>1. ~Goto(r, "idle")
    <3>1. Goto(r, "idle") => pc'[r] = "idle"
      BY StepFacts
    <3>2. QED
      BY <3>1
  <2>2. SetActive(p, th, active[p][th]) /\ Hold(r, th, active[p][th])
    <3>1. CASE UseKnown(r)
      BY <3>1 DEF UseKnown
    <3>2. CASE GetAcquired(r)
      BY <2>1, <3>2 DEF GetAcquired
    <3>3. QED
      BY <1>1, <3>1, <3>2
  <2>3. active'[p][th] = active[p][th]
    BY <1>0, <2>2, Cached
  <2>4. info'[r] = <<th, active[p][th]>>
    BY <2>2, HoldFacts
  <2>5. QED
    BY <2>3, <2>4
<1>2. CASE Release(r)
  BY <1>2 DEF Release, runs, TypeOK
<1>3. ASSUME NEW place, Goto(r, place), place # "using" PROVE FALSE
  BY <1>3, StepFacts
<1>4. CASE Acquire(r) \/ TakeFileLock(r) \/ Discover(r) \/ Adopt(r)
  BY <1>3, <1>4 DEF Acquire, TakeFileLock, Discover, Adopt
<1>5. CASE CountReplicas(r) \/ EvictWarm(r) \/ StopEvicted(r)
  <2>1. CASE CountReplicas(r)
    BY <1>3, <2>1 DEF CountReplicas
  <2>2. CASE EvictWarm(r) \/ StopEvicted(r)
    BY <1>3, <2>2 DEF EvictWarm, StopEvicted
  <2>3. QED
    BY <1>5, <2>1, <2>2
<1>6. CASE StartContainer(r) \/ RegisterCreated(r) \/ ToolDone(r)
  BY <1>3, <1>6 DEF StartContainer, RegisterCreated, ToolDone
<1>7. QED
  BY <1>1, <1>2, <1>4, <1>5, <1>6 DEF RunStep

\* What a step of a process does to an entry in use: nothing, or it takes it away for one of
\* the reasons that TakesAway names, or the process dies and its runs with it.
LEMMA ProcStepsServe ==
  ASSUME TypeOK, Checked, NEW p \in Procs, ProcStep(p), UNCHANGED placement
  PROVE  \/ /\ UNCHANGED <<pc, info>>
            /\ \A q \in Procs, u \in Threads :
                 active[q][u] # None =>
                   \/ active'[q][u] = active[q][u]
                   \/ active'[q][u] = None /\ (shut[q] \/ stale[q][u] \/ u \in later[q])
         \/ \A r \in Runs :
              \/ pc'[r] = "idle"
              \/ /\ pc'[r] = pc[r] /\ info'[r] = info[r]
                 /\ \A u \in Threads : active'[ProcOf[r]][u] = active[ProcOf[r]][u]
<1>0. active \in [Procs -> [Threads -> Info]] /\ None \in Info /\ ProcOf \in [Runs -> Procs]
  BY InfoFacts, PlacesOf DEF TypeOK
<1>1. ASSUME NEW th \in Threads, IdleDestroy(p, th) \/ ShutdownDestroy(p, th)
      PROVE  /\ UNCHANGED <<pc, info>>
             /\ \A q \in Procs, u \in Threads :
                  active[q][u] # None =>
                    \/ active'[q][u] = active[q][u]
                    \/ active'[q][u] = None /\ (shut[q] \/ stale[q][u] \/ u \in later[q])
  <2>1. /\ active' = [active EXCEPT ![p][th] = None] /\ UNCHANGED <<pc, info>>
        /\ th \in verified[p]
    BY <1>1 DEF IdleDestroy, ShutdownDestroy, PopForDestroy, runs
  <2>2. /\ active'[p][th] = None
        /\ \A q \in Procs, u \in Threads : q # p \/ u # th => active'[q][u] = active[q][u]
    BY <1>0, <2>1, SetEntry
  <2>3. shut[p] \/ stale[p][th] \/ th \in later[p]
    BY <2>1 DEF Checked
  <2>4. QED
    BY <2>1, <2>2, <2>3
<1>2. CASE \/ \E th \in Threads : Age(p, th) \/ IdleVerify(p, th)
           \/ IdleScan(p) \/ Shutdown(p) \/ StopDoomed(p)
  <2>1. UNCHANGED <<active, pc, info>>
    BY <1>2 DEF Age, IdleVerify, IdleScan, Shutdown, StopDoomed, provider, runs
  <2>2. QED
    BY <2>1
<1>3. CASE Crash(p)
  <2>1. /\ \A r \in Runs : pc'[r] = "idle" \/ (ProcOf[r] # p /\ pc'[r] = pc[r] /\ info'[r] = info[r])
        /\ active' = [active EXCEPT ![p] = [th \in Threads |-> None]]
    BY <1>3 DEF Crash
  <2>2. \A q \in Procs : q # p => active'[q] = active[q]
    BY <1>0, <2>1
  <2>3. QED
    BY <1>0, <2>1, <2>2
<1>4. QED
  BY <1>1, <1>2, <1>3 DEF ProcStep

\* Who comes to be verified is stale, or the process is shutting down.
LEMMA ChecksStep ==
  ASSUME TypeOK, Steps
  PROVE  \A p \in Procs, th \in Threads : th \in verified'[p] /\ ~shut'[p] =>
           (th \in verified[p] /\ ~shut[p]) \/ stale'[p][th]
<1>0. verified \in [Procs -> SUBSET Threads] /\ shut \in [Procs -> BOOLEAN]
  BY DEF TypeOK
<1>1. ASSUME NEW r \in Runs, RunStep(r) PROVE UNCHANGED <<verified, shut>>
  BY <1>1 DEF RunStep, UseKnown, Acquire, TakeFileLock, Discover, Adopt, CountReplicas, EvictWarm,
              StopEvicted, StartContainer, RegisterCreated, GetAcquired, ToolDone, Release, checker
<1>2. ASSUME NEW p \in Procs, ProcStep(p)
      PROVE  \A q \in Procs, th \in Threads : th \in verified'[q] /\ ~shut'[q] =>
               (th \in verified[q] /\ ~shut[q]) \/ stale'[q][th]
  <2>1. ASSUME NEW u \in Threads, Age(p, u) PROVE UNCHANGED <<verified, shut>>
    BY <2>1 DEF Age, checker
  <2>2. ASSUME NEW u \in Threads, IdleVerify(p, u)
        PROVE  /\ UNCHANGED <<stale, shut>>
               /\ verified' = verified \/ (stale[p][u] /\ verified' = [verified EXCEPT ![p] = {u}])
               /\ verified[p] = {}
    BY <2>2 DEF IdleVerify, provider
  <2>3. ASSUME NEW u \in Threads, IdleDestroy(p, u) \/ ShutdownDestroy(p, u)
        PROVE  UNCHANGED shut /\ \A q \in Procs : verified'[q] \subseteq verified[q]
    BY <1>0, <2>3 DEF IdleDestroy, ShutdownDestroy
  <2>4. IdleScan(p) \/ StopDoomed(p) => UNCHANGED <<verified, shut>>
    BY DEF IdleScan, StopDoomed
  <2>5. Shutdown(p) => /\ shut'[p] /\ \A q \in Procs : q # p => verified'[q] = verified[q] /\ shut'[q] = shut[q]
    BY <1>0 DEF Shutdown
  <2>6. Crash(p) => /\ verified'[p] = {}
                    /\ \A q \in Procs : q # p => verified'[q] = verified[q] /\ shut'[q] = shut[q]
    BY <1>0 DEF Crash
  <2>7. ASSUME NEW u \in Threads, IdleVerify(p, u)
        PROVE  \A q \in Procs, th \in Threads : th \in verified'[q] /\ ~shut'[q] =>
                 (th \in verified[q] /\ ~shut[q]) \/ stale'[q][th]
    BY <1>0, <2>2, <2>7
  <2>8. QED
    BY <1>2, <2>1, <2>3, <2>4, <2>5, <2>6, <2>7 DEF ProcStep
<1>3. Up \subseteq Procs
  BY PlacesOf DEF Up
<1>4. QED
  BY <1>1, <1>2, <1>3 DEF Steps

\* Every step keeps the entries of the tool calls, and what the idle checker looked at.
LEMMA ToolStep ==
  ASSUME TypeOK, LocksHeld, ToolInv, Next PROVE ToolInv'
<1>0. /\ Steps /\ Witness /\ UNCHANGED placement /\ ToolHasEntry /\ Checked
      /\ ProcOf' = ProcOf /\ ThreadOf' = ThreadOf
      /\ ProcOf \in [Runs -> Procs] /\ ThreadOf \in [Runs -> Threads] /\ Up \subseteq Procs
      /\ stale \in [Procs -> [Threads -> BOOLEAN]]
  BY PlacesOf DEF Next, ToolInv, ProcOf, ThreadOf, Up, TypeOK
<1>1. Checked'
  <2>1. ASSUME NEW p \in Procs, NEW th \in Threads, th \in verified'[p], ~shut'[p]
        PROVE  stale'[p][th] \/ th \in later'[p]
    <3>1. (th \in verified[p] /\ ~shut[p]) \/ stale'[p][th]
      BY <1>0, <2>1, ChecksStep
    <3>2. CASE th \in verified[p] /\ ~shut[p] /\ ~stale'[p][th]
      <4>1. stale[p][th] \/ th \in later[p]
        BY <1>0, <3>2 DEF Checked
      <4>2. later'[p] = {u \in verified[p] \cap verified'[p] :
                           u \in later[p] \/ (stale[p][u] /\ ~stale'[p][u])}
        BY <1>0 DEF Witness
      <4>3. QED
        BY <2>1, <3>2, <4>1, <4>2
    <3>3. QED
      BY <3>1, <3>2
  <2>2. QED
    BY <2>1 DEF Checked
<1>2. ASSUME NEW r \in Runs, pc'[r] = "using", info'[r][2].owned, ~cut'[r]
      PROVE  active'[ProcOf[r]][ThreadOf[r]] = info'[r][2]
  <2> DEFINE p == ProcOf[r]
             th == ThreadOf[r]
  <2>0. p \in Procs /\ th \in Threads
    BY <1>0
  <2>1. ~cut[r] /\ ~TakesAway(r)
    BY <1>0, <1>2 DEF Witness
  <2>2. ASSUME pc'[r] = pc[r], info'[r] = info[r]
        PROVE  active[p][th] = info'[r][2] /\ active[p][th] # None
    BY <1>0, <1>2, <2>1, <2>2 DEF ToolHasEntry, None
  <2>3. ASSUME active[p][th] # None, active'[p][th] = None
        PROVE  warm'[p][th] = None /\ ~shut[p] /\ ~stale[p][th] /\ th \notin later[p]
    BY <1>0, <2>0, <2>1, <2>3 DEF TakesAway, Active, Warm
  <2>4. ASSUME NEW s \in Runs, RunStep(s) PROVE active'[p][th] = info'[r][2]
    <3>1. active[p][th] # None =>
            active'[p][th] = active[p][th] \/ (active'[p][th] = None /\ warm'[p][th] # None)
      BY <1>0, <2>0, <2>4, RunStepsServe
    <3>2. CASE pc'[r] = pc[r] /\ info'[r] = info[r]
      BY <2>2, <2>3, <3>1, <3>2
    <3>3. CASE s = r
      <4>1. active'[p][th] = info'[r][2] \/ UNCHANGED <<active, pc, info>>
        BY <1>0, <1>2, <2>4, <3>3, UseBegins
      <4>2. QED
        BY <3>2, <4>1
    <3>4. s # r => pc'[r] = pc[r] /\ info'[r] = info[r]
      BY <1>0, <2>4, OthersRest
    <3>5. QED
      BY <3>2, <3>3, <3>4
  <2>5. ASSUME NEW q \in Procs, ProcStep(q) PROVE active'[p][th] = info'[r][2]
    <3>1. \/ /\ UNCHANGED <<pc, info>>
             /\ active[p][th] # None =>
                  \/ active'[p][th] = active[p][th]
                  \/ active'[p][th] = None /\ (shut[p] \/ stale[p][th] \/ th \in later[p])
          \/ /\ pc'[r] = pc[r] /\ info'[r] = info[r] /\ active'[p][th] = active[p][th]
      BY <1>0, <1>2, <2>0, <2>5, ProcStepsServe
    <3>2. pc'[r] = pc[r] /\ info'[r] = info[r]
      BY <3>1
    <3>3. QED
      BY <2>2, <2>3, <3>1, <3>2
  <2>6. QED
    BY <1>0, <2>4, <2>5 DEF Steps
<1>3. ToolHasEntry'
  BY <1>0, <1>2 DEF ToolHasEntry
<1>4. QED
  BY <1>1, <1>3 DEF ToolInv

----------------------------------------------------------------------------
(* The theorem.                                                              *)

\* The start.
LEMMA PvInvInit == Init => PvInv
<1> SUFFICES ASSUME Init PROVE PvInv
  OBVIOUS
<1>1. TypeOK
  <2>1. /\ ThreadOf \in [Runs -> Threads] /\ None \in Info /\ "idle" \in Places
    BY SandboxAssumption, InfoFacts DEF Init, ThreadOf, Places
  <2>2. /\ active \in [Procs -> [Threads -> Info]] /\ warm \in [Procs -> [Threads -> Info]]
        /\ stale \in [Procs -> [Threads -> BOOLEAN]]
    BY <2>1 DEF Init
  <2>3. /\ doomed \in [Procs -> SUBSET (Threads \X Info)] /\ scanned \in [Procs -> SUBSET Threads]
        /\ verified \in [Procs -> SUBSET Threads] /\ shut \in [Procs -> BOOLEAN]
    BY DEF Init
  <2>4. /\ threadLock \in [Procs -> [Threads -> Runs \cup {Free}]]
        /\ fileLock \in [Threads -> Runs \cup {Free}]
    BY DEF Init
  <2>5. pc \in [Runs -> Places] /\ known \in [Runs -> BOOLEAN] /\ info \in [Runs -> Threads \X Info]
    BY <2>1 DEF Init
  <2>6. QED
    BY <2>2, <2>3, <2>4, <2>5 DEF Init, TypeOK
<1>2. /\ \A r \in Runs : pc[r] = "idle"
      /\ \A q \in Procs, th \in Threads : active[q][th] = None /\ warm[q][th] = None
      /\ \A q \in Procs : doomed[q] = {}
      /\ \A th \in Threads : running[th] = 0
  BY DEF Init
<1>3. LocksHeld /\ Found
  BY <1>2 DEF LocksHeld, Found, Inside
<1>4. ActiveXorWarm
  BY <1>2, ApartMeans
<1>5. \A x \in Holders, th \in Threads, i \in Info : Owned(i) => ~Holds(x, th, i)
  <2>1. TAKE x \in Holders, th \in Threads, i \in Info
  <2>2. HAVE Owned(i)
  <2>3. i # None
    BY <2>2 DEF Owned, None
  <2>4. ASSUME NEW q \in Procs, x \in {<<"active", q>>, <<"warm", q>>, <<"doomed", q>>}
        PROVE  ~Holds(x, th, i)
    <3>1. active[q][th] = None /\ warm[q][th] = None /\ doomed[q] = {}
      BY <1>2
    <3>2. CASE x = <<"active", q>>
      BY <2>3, <3>1, <3>2, HoldsAre
    <3>3. CASE x = <<"warm", q>>
      BY <2>3, <3>1, <3>3, HoldsAre
    <3>4. CASE x = <<"doomed", q>>
      BY <3>1, <3>4, HoldsAre
    <3>5. QED
      BY <2>4, <3>2, <3>3, <3>4
  <2>5. ASSUME NEW r \in Runs, x = <<"run", r>> PROVE ~Holds(x, th, i)
    BY <1>2, <2>5, HoldsAre
  <2>6. QED
    BY <2>4, <2>5, HoldersAre
<1>6. HeldRuns /\ OneHolder
  BY <1>5 DEF HeldRuns, OneHolder
<1>7. RunsAreHeld
  BY <1>2 DEF RunsAreHeld
<1>8. ToolInv
  BY DEF Init, ToolInv, ToolHasEntry, Checked
<1>9. QED
  BY <1>1, <1>3, <1>4, <1>6, <1>7, <1>8 DEF PvInv, HeldInv

\* Every step.
LEMMA PvInvStep == PvInv /\ [Next]_vars => PvInv'
<1> SUFFICES ASSUME PvInv, [Next]_vars PROVE PvInv'
  OBVIOUS
<1>1. TypeOK /\ LocksHeld /\ Found /\ ActiveXorWarm /\ HeldInv /\ ToolInv
  BY DEF PvInv
<1>2. CASE Next
  <2>1. UNCHANGED placement /\ Witness
    BY <1>2 DEF Next
  <2>2. LocksHeld' /\ Found' /\ ActiveXorWarm'
    BY <1>1, <1>2, LocksStep
  <2>3. ASSUME NEW r \in Runs, RunStep(r) PROVE TypeOK' /\ HeldInv'
    BY <1>1, <2>1, <2>3, TypesOfRun, HeldRunStep
  <2>4. ASSUME NEW p \in Up, ProcStep(p) PROVE TypeOK' /\ HeldInv'
    <3>1. p \in Procs
      BY <1>1, PlacesOf DEF Up
    <3>2. QED
      BY <1>1, <2>1, <2>4, <3>1, TypesOfProc, HeldProcStep
  <2>5. TypeOK' /\ HeldInv'
    BY <1>2, <2>3, <2>4 DEF Next, Steps
  <2>6. ToolInv'
    BY <1>1, <1>2, ToolStep
  <2>7. QED
    BY <2>2, <2>5, <2>6 DEF PvInv
<1>3. CASE UNCHANGED vars
  <2>1. TypeOK' /\ ActiveXorWarm'
    BY <1>1, <1>3 DEF vars, provider, checker, locks, runs, TypeOK, ActiveXorWarm, Active, Warm
  <2>2. LocksHeld' /\ Found'
    BY <1>1, <1>3 DEF vars, provider, checker, locks, runs, LocksHeld, Found, ProcOf, ThreadOf, Flaky
  <2>3. HeldRuns' /\ OneHolder' /\ RunsAreHeld'
    <3>1. \A x \in Holders, th \in Threads, i \in Info : Holds(x, th, i)' <=> Holds(x, th, i)
      BY <1>3 DEF vars, provider, checker, locks, runs, Holds
    <3>2. UNCHANGED <<running, unstopped, crashes>>
      BY <1>3 DEF vars
    <3>3. QED
      BY <1>1, <3>1, <3>2 DEF HeldInv, HeldRuns, OneHolder, RunsAreHeld
  <2>4. ToolInv'
    BY <1>1, <1>3 DEF vars, provider, checker, runs, ToolInv, ToolHasEntry, Checked, ProcOf, ThreadOf
  <2>5. QED
    BY <2>1, <2>2, <2>3, <2>4 DEF PvInv, HeldInv
<1>4. QED
  BY <1>2, <1>3

\* What the run checks follows.
LEMMA PvInvSuffices == PvInv => ContainersAreSound
<1> SUFFICES ASSUME PvInv PROVE ContainersAreSound
  OBVIOUS
<1>1. TypeOK /\ Found /\ ActiveXorWarm /\ HeldRuns /\ RunsAreHeld
  BY DEF PvInv, HeldInv
<1>2. OwnedIsAlive
  <2>1. ASSUME NEW p \in Procs, NEW th \in Threads
        PROVE  /\ active[p][th].owned => running[th] = active[p][th].inc
               /\ warm[p][th].owned => running[th] = warm[p][th].inc
    <3>1. active[p][th] \in Info /\ warm[p][th] \in Info
      BY <1>1 DEF TypeOK
    <3>2. Holds(<<"active", p>>, th, active[p][th]) /\ Holds(<<"warm", p>>, th, warm[p][th])
      BY HoldsAre
    <3>3. <<"active", p>> \in Holders /\ <<"warm", p>> \in Holders
      BY HoldersAre
    <3>4. \A x \in Holders, i \in Info : Holds(x, th, i) /\ i.owned => running[th] = i.inc
      BY <1>1 DEF HeldRuns, Owned
    <3>5. QED
      BY <3>1, <3>2, <3>3, <3>4
  <2>2. QED
    BY <2>1 DEF OwnedIsAlive
<1>3. NoForgottenContainer
  <2>1. ASSUME crashes = 0, NEW th \in Threads \ unstopped, running[th] # 0,
               NEW it, it = [inc |-> running[th], owned |-> TRUE]
        PROVE  \/ \E p \in Procs : it \in {active[p][th], warm[p][th]} \/ <<th, it>> \in doomed[p]
               \/ \E r \in Runs : pc[r] \in {"stop", "ready"} /\ info[r] = <<th, it>>
    <3>1. it \in Info /\ Owned(it) /\ it.inc = running[th]
      <4>1. running[th] \in Nat
        BY <1>1 DEF TypeOK
      <4>2. it \in Info
        BY <2>1, <4>1, InfoFacts
      <4>3. QED
        BY <2>1, <4>2 DEF Owned
    <3>2. PICK x \in Holders : Holds(x, th, it)
      BY <1>1, <2>1, <3>1 DEF RunsAreHeld
    <3>3. CASE \E p \in Procs : x \in {<<"active", p>>, <<"warm", p>>, <<"doomed", p>>}
      BY <3>2, <3>3, HoldsAre
    <3>4. CASE \E r \in Runs : x = <<"run", r>>
      BY <3>2, <3>4, HoldsAre
    <3>5. QED
      BY <3>3, <3>4, HoldersAre
  <2>2. QED
    BY <2>1 DEF NoForgottenContainer
<1>4. NoNameConflict
  BY <1>1 DEF NoNameConflict, Found
<1>5. ServesWhileUsed
  <2>1. ASSUME NEW r \in Runs, pc[r] = "using", info[r][2].owned, ~cut[r]
        PROVE  running[ThreadOf[r]] = info[r][2].inc
    <3>1. ProcOf[r] \in Procs /\ ThreadOf[r] \in Threads
      BY <1>1, PlacesOf
    <3>2. active[ProcOf[r]][ThreadOf[r]] = info[r][2]
      BY <2>1 DEF PvInv, ToolInv, ToolHasEntry
    <3>3. QED
      BY <1>2, <2>1, <3>1, <3>2 DEF OwnedIsAlive
  <2>2. QED
    BY <2>1 DEF ServesWhileUsed
<1>6. QED
  BY <1>1, <1>2, <1>3, <1>4, <1>5 DEF ContainersAreSound

\* A container a provider holds runs; it is in one of its pools; without a crash none is
\* forgotten while it runs, unless Docker failed to stop it; a run that starts one finds its
\* name free; and a tool's container is not stopped while it works but after its entry was
\* taken away: for any number of threads, of gateways that share the host, and of runs that
\* race for a thread.
THEOREM ContainersStaySound == Spec => []ContainersAreSound
<1>1. Init => PvInv
  BY PvInvInit
<1>2. PvInv /\ [Next]_vars => PvInv'
  BY PvInvStep
<1>3. PvInv => ContainersAreSound
  BY PvInvSuffices
<1>4. QED
  BY <1>1, <1>2, <1>3, PTL DEF Spec
=============================================================================
