----------------------------- MODULE MCVaultLife -----------------------------
(* The knowledge vault: the queue with the workers of its ingest jobs, the   *)
(* pages with the manifest that leads to them, and the registry of names.    *)
(* They meet in files that the jobs share; a behaviour works on one of them. *)
EXTENDS VaultIngest, VaultPages, CanonicalNames

CONSTANT MaxExtent    \* bound: workers of the process and faults, together

VARIABLE part         \* what this behaviour works on

vault == <<vars, pages, registry, part>>

\* Two jobs of one worker or one job of two, with a fault; one of one, with two.
Extent == SumFunction(size) + faults["crash"] + faults["wipe"] + faults["lease"]

AllInit ==
  /\ Init /\ PgInit /\ CnInit /\ part \in {"queue", "pages", "names"}
  /\ part # "pages" => budget = CHOOSE b \in PageLoads : TRUE

AllNext ==
  /\ UNCHANGED part
  /\ \/ part = "queue" /\ Next /\ Extent' <= MaxExtent /\ UNCHANGED <<pages, registry>>
     \/ part = "pages" /\ PgNext /\ UNCHANGED <<vars, registry>>
     \/ part = "names" /\ CnNext /\ UNCHANGED <<vars, pages>>

\* Of the queue's workers some one goes on, and so does the event loop.
AllSpec == /\ AllInit /\ [][AllNext]_vault
           /\ WF_vars(\E k \in Workers : WorkerStep(k))
           /\ WF_vars(LoopStep)

\* What an entry, a source or a name leads to is there, and led to in one step.
PagesStay == /\ PgTypeOK /\ CnTypeOK
             /\ IngestedHasSource /\ OwnPagesStay /\ ConceptsHavePages
             /\ NothingSettledIsAsked /\ PassMakesNoChain /\ ResolvesOnce

\* A verdict, a dismissal and a review are not taken back by anything at work.
DecisionsStay == VerdictStays /\ DismissalSticks /\ ReviewedStays

------------------------------------------------------------------------------
(* Its instance for TLC.                                                     *)

CONSTANT s1

Ent(slug) == [kind |-> "entity", slug |-> slug]
Con(slug) == [kind |-> "concept", slug |-> slug]
MCNames == {Ent("a"), Ent("b"), Con("a")}
MCSurfaces == {Ent("a"), Ent("b"), Ent("c"), Con("a"), Con("b")}
MCSources == {s1}

\* Two jobs on one source with the explorer or the lint beside them, a preview
\* and what it leads to, and the dismissals.
MCPageLoads ==
  { [jobs |-> 2, clips |-> 2, stops |-> 1, calls |-> 1, routes |-> {"refresh", "prune"}],
    [jobs |-> 1, clips |-> 1, stops |-> 0, calls |-> 2, routes |-> {"prune"}],
    [jobs |-> 2, clips |-> 1, stops |-> 0, calls |-> 2, routes |-> {"dismiss", "restore"}] }
==============================================================================
