------------------------------ MODULE MCSandbox ------------------------------
(* What runs on the host for the agents: the provider of the container       *)
(* sandboxes, the two backends it may have (local containers with their      *)
(* ports, or pods behind the provisioner) and the integration services.  The *)
(* provider's own steps take a backend for granted and the services share    *)
(* nothing with it, so a behaviour is about one of the four.                 *)
EXTENDS SandboxProvider, HostPorts, SandboxPods, IntegrationServices, TLC

VARIABLE part    \* what this behaviour is about

sandboxes == <<vars, ports, cluster, integrations, part>>

AllInit ==
  /\ Init /\ HpInit /\ PdInit /\ InInit
  /\ part \in {"provider", "ports", "pods", "services"}
  /\ part # "provider" => placement = CHOOSE p \in Placements : TRUE

AllNext ==
  /\ UNCHANGED part
  /\ \/ part = "provider" /\ Next /\ UNCHANGED <<ports, cluster, integrations>>
     \/ part = "ports" /\ HpNext /\ UNCHANGED <<vars, cluster, integrations>>
     \/ part = "pods" /\ PdNext /\ UNCHANGED <<vars, ports, integrations>>
     \/ part = "services" /\ InNext /\ UNCHANGED <<vars, ports, cluster>>
     \/ part # "provider" /\ UNCHANGED <<vars, ports, cluster, integrations>>   \* nobody asks any more

AllSpec == AllInit /\ [][AllNext]_sandboxes

------------------------------------------------------------------------------
(* Its instance for TLC.                                                     *)

CONSTANTS p1, p2, thA, thB, r1, r2, c1, c2, c3

TwoProcs == {p1, p2}
TwoThreads == {thA, thB}
TwoRuns == {r1, r2}
NoBorrower == {}

Both(x, y) == [r \in TwoRuns |-> IF r = r1 THEN x ELSE y]
Placed(proc2, thread2, flaky, refuses, n) ==
    [procOf |-> Both(p1, proc2), threadOf |-> Both(thA, thread2),
     flaky |-> flaky, refuses |-> refuses, maxCrashes |-> n]

\* Two threads of one process and one of another create sandboxes.
ThreeCreators == {c1, c2, c3}
Homes3 == [c \in ThreeCreators |-> IF c = c3 THEN "second" ELSE "first"]
TwoBoxes == {thA, thB}
\* A startup beside one that has just ended, and a third.
ThreeStartups == 1 .. 3

\* Two threads of one process; one thread in two processes, of which one may crash;
\* two runs of one thread in one process, whose health checks may fail.  Docker may
\* fail to stop a container in the first and the last.
EvictAndProcs ==
    {Placed(p1, thB, FALSE, TRUE, 0), Placed(p2, thA, FALSE, FALSE, 1), Placed(p1, thA, TRUE, TRUE, 0)}

\* The two runs are alike, each with its thread or each with its process.
Alike == {(r1 :> r[1] @@ r2 :> r[2] @@ thA :> t[1] @@ thB :> t[2] @@ p1 :> p[1] @@ p2 :> p[2]) :
            <<r, t, p>> \in {<<<<r1, r2>>, <<thA, thB>>, <<p1, p2>>>>, <<<<r2, r1>>, <<thB, thA>>, <<p1, p2>>>>,
                              <<<<r2, r1>>, <<thA, thB>>, <<p2, p1>>>>, <<<<r1, r2>>, <<thB, thA>>, <<p2, p1>>>>}}
==============================================================================
