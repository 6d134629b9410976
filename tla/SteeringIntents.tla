-------------------------- MODULE SteeringIntents --------------------------
(***************************************************************************)
(* What the steering queue promises: an accepted intent waits until a turn   *)
(* takes it, once, oldest first, and is injected into the thread at most     *)
(* once; it is lost only with the run that took it.                          *)
(***************************************************************************)
EXTENDS Naturals, Sequences

CONSTANT Items

VARIABLES accepted,  \* intents in the order of their arrival
          waiting,   \* those no turn has taken yet
          taken,     \* intents in the hands of a turn
          injected,  \* intents in the thread
          lost       \* intents that died with their run

vars == <<accepted, waiting, taken, injected, lost>>

Init == accepted = <<>> /\ waiting = {} /\ taken = {} /\ injected = {} /\ lost = {}

Accept(i) ==
    /\ \A n \in DOMAIN accepted : accepted[n] # i
    /\ accepted' = Append(accepted, i) /\ waiting' = waiting \cup {i}
    /\ UNCHANGED <<taken, injected, lost>>

Take ==
    \E n \in DOMAIN accepted :
        /\ accepted[n] \in waiting
        /\ \A m \in 1..(n - 1) : accepted[m] \notin waiting
        /\ waiting' = waiting \ {accepted[n]} /\ taken' = taken \cup {accepted[n]}
        /\ UNCHANGED <<accepted, injected, lost>>

Inject(i) ==
    /\ i \in taken /\ taken' = taken \ {i} /\ injected' = injected \cup {i}
    /\ UNCHANGED <<accepted, waiting, lost>>

Lose(i) ==
    /\ i \in taken /\ taken' = taken \ {i} /\ lost' = lost \cup {i}
    /\ UNCHANGED <<accepted, waiting, injected>>

Next == Take \/ \E i \in Items : Accept(i) \/ Inject(i) \/ Lose(i)

Spec == Init /\ [][Next]_vars
=============================================================================
