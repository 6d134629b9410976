----------------------------- MODULE SandboxPods -----------------------------
(* Sandboxes as Kubernetes pods: the provisioner service                     *)
(* (docker/provisioner/app.py) and its client RemoteSandboxBackend           *)
(* (community/aio_sandbox/remote_backend.py).  The provisioner serves one    *)
(* request at a time, its handlers never await; a client waits for so long   *)
(* and goes its way.  Kubernetes deletes a pod after a grace period.         *)
EXTENDS Integers, Sequences, FiniteSets

CONSTANTS Clients,     \* the backend processes
          MaxRequests, \* bound on requests
          MaxFaults    \* bound on refused API calls, lost answers, restarts, evictions

ASSUME PodsAssumption == {MaxRequests, MaxFaults} \subseteq Nat

VARIABLES pod,         \* of the sandbox: its phase
          svc,         \* its service: none, made, or with a port
          inbox,       \* requests that wait for the provisioner: [by, op, nr]
          at,          \* the request being served: [by, op, nr, pc, bad]
          provisioner, \* its process
          waits,       \* per client: the request it waits for, 0 without
          knows,       \* per client: the sandbox is among its infos
          half,        \* history: a delete of the pod was refused, or a restart
                       \* came between the pod and its service
          unknown,     \* history: an answer, or a delete, did not get through
          requests, faults

cluster == <<pod, svc, inbox, at, provisioner, waits, knows, half, unknown, requests, faults>>

Phases == {"NotFound", "Pending", "Running", "Failed", "Terminating"}
Nothing == [by |-> "nobody", op |-> "none", nr |-> 0, pc |-> "idle", bad |-> FALSE]

PdTypeOK ==
  /\ pod \in Phases /\ svc \in {"none", "made", "port"}
  /\ \A i \in 1..Len(inbox) : /\ inbox[i].by \in Clients
                              /\ inbox[i].op \in {"create", "delete", "get"}
  /\ at.pc \in {"idle", "look", "pod", "service", "rollback", "port", "delservice", "delpod", "answer"}
  /\ provisioner \in {"down", "starting", "up"}
  /\ waits \in [Clients -> 0..MaxRequests] /\ knows \in [Clients -> BOOLEAN]
  /\ requests \in 0..MaxRequests /\ faults \in 0..MaxFaults

PdInit == /\ pod = "NotFound" /\ svc = "none" /\ inbox = <<>> /\ at = Nothing
          /\ provisioner = "down" /\ waits = [c \in Clients |-> 0]
          /\ knows = [c \in Clients |-> FALSE] /\ half = FALSE /\ unknown = FALSE
          /\ requests = 0 /\ faults = 0

Fault == faults < MaxFaults /\ faults' = faults + 1

----------------------------------------------------------------------------
(* The client.                                                               *)

\* create and discover for a sandbox it does not have, destroy for one it forgets.
Ask(c, op) ==
  /\ waits[c] = 0 /\ requests < MaxRequests
  /\ (op = "delete") = knows[c]
  /\ requests' = requests + 1
  /\ knows' = [knows EXCEPT ![c] = FALSE]
  /\ IF provisioner = "up"
     THEN /\ inbox' = Append(inbox, [by |-> c, op |-> op, nr |-> requests + 1])
          /\ waits' = [waits EXCEPT ![c] = requests + 1] /\ UNCHANGED unknown
     ELSE unknown' = (unknown \/ op = "delete") /\ UNCHANGED <<inbox, waits>>
  /\ UNCHANGED <<pod, svc, at, provisioner, half, faults>>

\* Its timeout, or a broken connection: an exception for create, a warning for
\* destroy, nothing found for discover.  The provisioner goes on.
GivesUp(c) == /\ waits[c] # 0 /\ Fault
              /\ waits' = [waits EXCEPT ![c] = 0]
              /\ unknown' = TRUE
              /\ UNCHANGED <<pod, svc, inbox, at, provisioner, knows, half, requests>>

----------------------------------------------------------------------------
(* The provisioner.                                                          *)

Starts == /\ provisioner = "down" /\ provisioner' = "starting"
          /\ UNCHANGED <<pod, svc, inbox, at, waits, knows, half, unknown, requests, faults>>

\* lifespan: a kubeconfig file, or the in-cluster configuration after waiting for
\* one; a directory in its place, a broken file or a refused namespace end it.
Boots(usable) == /\ provisioner = "starting"
                 /\ usable \/ faults < MaxFaults
                 /\ faults' = IF usable THEN faults ELSE faults + 1
                 /\ provisioner' = IF usable THEN "up" ELSE "down"
                 /\ UNCHANGED <<pod, svc, inbox, at, waits, knows, half, unknown, requests>>

Step(pc) == at' = [at EXCEPT !.pc = pc]
Ends(bad) == at' = [at EXCEPT !.pc = "answer", !.bad = bad]

Serve == /\ provisioner = "up" /\ at = Nothing /\ inbox # <<>>
         /\ at' = [by |-> Head(inbox).by, op |-> Head(inbox).op, nr |-> Head(inbox).nr,
                   bad |-> FALSE,
                   pc |-> IF Head(inbox).op = "delete" THEN "delservice" ELSE "look"]
         /\ inbox' = Tail(inbox)
         /\ UNCHANGED <<pod, svc, provisioner, waits, knows, half, unknown, requests, faults>>

\* _get_node_port: a service with a port is the answer, whatever became of its
\* pod; a refused read is the same as none.
Look == /\ at.pc = "look"
        /\ \/ svc = "port" /\ Ends(FALSE) /\ UNCHANGED faults
           \/ /\ svc # "port" /\ UNCHANGED faults
              /\ IF at.op = "create" THEN Step("pod") ELSE Ends(TRUE)
           \/ svc = "port" /\ Fault /\ IF at.op = "create" THEN Step("pod") ELSE Ends(TRUE)
        /\ UNCHANGED <<pod, svc, inbox, provisioner, waits, knows, half, unknown, requests>>

\* A pod that is there is not an error, not even one that is terminating.
MakePod == /\ at.pc = "pod"
           /\ \/ /\ pod' = IF pod = "NotFound" THEN "Pending" ELSE pod
                 /\ Step("service") /\ UNCHANGED faults
              \/ Fault /\ Ends(TRUE) /\ UNCHANGED pod
           /\ UNCHANGED <<svc, inbox, provisioner, waits, knows, half, unknown, requests>>

MakeService == /\ at.pc = "service"
               /\ \/ /\ svc' = IF svc = "none" THEN "made" ELSE svc
                     /\ Step("port") /\ UNCHANGED faults
                  \/ Fault /\ Step("rollback") /\ UNCHANGED svc
               /\ UNCHANGED <<pod, inbox, provisioner, waits, knows, half, unknown, requests>>

Deleted == IF pod = "NotFound" THEN pod ELSE "Terminating"

RollBack == /\ at.pc = "rollback" /\ Ends(TRUE)
            /\ \/ pod' = Deleted /\ UNCHANGED <<half, faults>>
               \/ Fault /\ half' = TRUE /\ UNCHANGED pod
            /\ UNCHANGED <<svc, inbox, provisioner, waits, knows, unknown, requests>>

\* It looks up to twenty times for the port.
AwaitPort == /\ at.pc = "port"
             /\ \/ svc = "port" /\ Ends(FALSE) /\ UNCHANGED <<unknown, faults>>
                \/ Fault /\ Ends(TRUE) /\ unknown' = TRUE
             /\ UNCHANGED <<pod, svc, inbox, provisioner, waits, knows, half, requests>>

\* Mutated: only the pod is deleted.
LeaveService == /\ at.pc = "delservice" /\ Step("delpod")
                /\ UNCHANGED <<pod, svc, inbox, provisioner, waits, knows, half, unknown,
                               requests, faults>>

\* destroy_sandbox: a refused call is noted and the other one is made.
DeleteService == /\ at.pc = "delservice"
                 /\ \/ svc' = "none" /\ Step("delpod") /\ UNCHANGED <<unknown, faults>>
                    \/ /\ svc # "none" /\ Fault
                       /\ at' = [at EXCEPT !.pc = "delpod", !.bad = TRUE]
                       /\ unknown' = TRUE /\ UNCHANGED svc
                 /\ UNCHANGED <<pod, inbox, provisioner, waits, knows, half, requests>>

DeletePod == /\ at.pc = "delpod"
             /\ \/ pod' = Deleted /\ Ends(at.bad) /\ UNCHANGED <<half, unknown, faults>>
                \/ /\ pod # "NotFound" /\ Fault /\ Ends(TRUE)
                   /\ half' = TRUE /\ unknown' = TRUE /\ UNCHANGED pod
             /\ UNCHANGED <<svc, inbox, provisioner, waits, knows, requests>>

\* The answer reaches a client that still waits: its url makes an info of it.
Answer ==
  LET c == at.by IN
  /\ at.pc = "answer" /\ at' = Nothing
  /\ IF waits[c] = at.nr
     THEN /\ waits' = [waits EXCEPT ![c] = 0]
          /\ knows' = [knows EXCEPT ![c] = @ \/ (at.op # "delete" /\ ~at.bad)]
     ELSE UNCHANGED <<waits, knows>>
  /\ UNCHANGED <<pod, svc, inbox, provisioner, half, unknown, requests, faults>>

\* It dies with the requests it had; its clients get an error.
Dies == /\ provisioner = "up" /\ Fault /\ provisioner' = "down"
        /\ inbox' = <<>> /\ at' = Nothing /\ waits' = [c \in Clients |-> 0]
        /\ half' = (half \/ at.pc \in {"service", "rollback", "delpod"}) /\ unknown' = TRUE
        /\ UNCHANGED <<pod, svc, knows, requests>>

----------------------------------------------------------------------------
(* Kubernetes.                                                               *)

PodMoves ==
  /\ \/ pod = "Pending" /\ pod' = "Running" /\ UNCHANGED faults
     \/ pod = "Terminating" /\ pod' = "NotFound" /\ UNCHANGED faults
     \/ pod \in {"Pending", "Running"} /\ Fault /\ pod' \in {"Failed", "NotFound"}
  /\ UNCHANGED <<svc, inbox, at, provisioner, waits, knows, half, unknown, requests>>

PortAllocated == /\ svc = "made" /\ svc' = "port"
                 /\ UNCHANGED <<pod, inbox, at, provisioner, waits, knows, half, unknown,
                                requests, faults>>

PdNext ==
  \/ \E c \in Clients : \/ \E op \in {"create", "delete", "get"} : Ask(c, op)
                        \/ GivesUp(c)
  \/ Starts \/ \E usable \in BOOLEAN : Boots(usable)
  \/ Serve \/ Look \/ MakePod \/ MakeService \/ RollBack \/ AwaitPort
  \/ DeleteService \/ DeletePod \/ Answer \/ Dies \/ PodMoves \/ PortAllocated

PdSpec == PdInit /\ [][PdNext]_cluster

----------------------------------------------------------------------------
(* Properties.                                                               *)

Alive == pod \in {"Pending", "Running", "Failed"}

\* Between requests a pod has its service, without which nobody finds it again:
\* a create that fails half way takes the pod back, unless that is refused as well.
NoStrandedPod == at = Nothing /\ Alive /\ ~half => svc # "none"

\* While nobody is being served, a sandbox is among the infos of some backend,
\* which will destroy it when it is idle, unless an answer or a call got lost.
SomebodyKnows ==
  at = Nothing /\ inbox = <<>> /\ (Alive \/ svc # "none") /\ ~half /\ ~unknown
    => \E c \in Clients : knows[c]

\* A sandbox is whole and known to somebody who will destroy it, unless a fault undid that.
PodsAreKnown == PdTypeOK /\ NoStrandedPod /\ SomebodyKnows
=============================================================================
