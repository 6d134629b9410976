------------------------------ MODULE HostPorts ------------------------------
(* The ports of the local sandbox containers (community/aio_sandbox/         *)
(* local_backend.py, utils/network.py): every process has an allocator that  *)
(* reserves what it hands out; Docker has the last word on a port, and keeps *)
(* one for a while after its container is gone.                              *)
EXTENDS Integers, FiniteSets

CONSTANTS Creators,    \* threads that create sandboxes
          Home,        \* the process of each
          Boxes,       \* sandbox ids, which name the containers
          LastPort,    \* the last port of the range
          MaxTries,    \* attempts of create
          MaxRuns      \* bound on calls of create

ASSUME PortsAssumption ==
  /\ {LastPort, MaxTries} \subseteq Nat \ {0} /\ MaxRuns \in Nat
  /\ DOMAIN Home = Creators /\ "none" \notin Creators \cup Boxes

Ports == 1..LastPort
Homes == {Home[c] : c \in Creators}

VARIABLES bound,       \* Docker: [port, by] of each container, Stopped without
          lingering,   \* ports that Docker has not let go yet
          reserved,    \* _reserved_ports of each process
          call,        \* per thread: the call of create it is in
          holds,       \* per thread: the info it got
          hostRuns     \* calls of create

ports == <<bound, lingering, reserved, call, holds, hostRuns>>

Stopped == [port |-> 0, by |-> "none"]
NoHold == [box |-> "none", port |-> 0, owned |-> FALSE]
NotIn == [pc |-> "out", box |-> "none", port |-> 0, from |-> 1, tries |-> 0, refused |-> {}]

HpTypeOK ==
  /\ bound \in [Boxes -> [port : Ports, by : Creators] \cup {Stopped}]
  /\ lingering \subseteq Ports
  /\ reserved \in [Homes -> SUBSET Ports] /\ hostRuns \in 0..MaxRuns
  /\ \A c \in Creators : /\ call[c].pc \in {"out", "pick", "run", "conflict", "exhausted"}
                         /\ call[c].port \in 0..LastPort /\ call[c].tries \in 0..MaxTries
                         /\ holds[c].port \in 0..LastPort

HpInit ==
  /\ bound = [b \in Boxes |-> Stopped] /\ lingering = {}
  /\ reserved = [h \in Homes |-> {}] /\ hostRuns = 0
  /\ call = [c \in Creators |-> NotIn] /\ holds = [c \in Creators |-> NoHold]

InUse == {bound[b].port : b \in Boxes} \ {0}

ReleasePort(h, p) == reserved' = [reserved EXCEPT ![h] = @ \ {p}]

\* The thread lock of the provider: one call per process and sandbox at a time.
Create(c, b) ==
  /\ call[c].pc \in {"out", "exhausted"} /\ holds[c] = NoHold /\ hostRuns < MaxRuns
  /\ \A d \in Creators : Home[d] = Home[c] => call[d].box # b /\ holds[d].box # b
  /\ call' = [call EXCEPT ![c] = [NotIn EXCEPT !.pc = "pick", !.box = b]]
  /\ hostRuns' = hostRuns + 1
  /\ UNCHANGED <<bound, lingering, reserved, holds>>

\* get_free_port under the allocator's lock: the first port from here on that is
\* not reserved and can be bound, a lingering one perhaps.
Choices(c) == {p \in call[c].from .. LastPort : p \notin reserved[Home[c]] \cup InUse}
PickPort(c) ==
  /\ call[c].pc = "pick"
  /\ \/ /\ Choices(c) = {}
        /\ call' = [call EXCEPT ![c] = NotIn] /\ UNCHANGED reserved
     \/ \E p \in Choices(c) :
          /\ \A q \in Choices(c) : q < p => q \in lingering
          /\ reserved' = [reserved EXCEPT ![Home[c]] = @ \cup {p}]
          /\ call' = [call EXCEPT ![c].pc = "run", ![c].port = p]
  /\ UNCHANGED <<bound, lingering, holds, hostRuns>>

\* docker run takes the port.
ContainerRuns(c) ==
  LET k == call[c] IN
  /\ k.pc = "run" /\ bound[k.box] = Stopped /\ k.port \notin InUse \cup lingering
  /\ bound' = [bound EXCEPT ![k.box] = [port |-> k.port, by |-> c]]
  /\ holds' = [holds EXCEPT ![c] = [box |-> k.box, port |-> k.port, owned |-> TRUE]]
  /\ call' = [call EXCEPT ![c] = NotIn]
  /\ UNCHANGED <<lingering, reserved, hostRuns>>

\* The next attempt starts behind the port that was refused.
From(port) == port + 1

\* It refuses the port: the next one is tried, up to ten times.
PortRefused(c) ==
  LET k == call[c]
      again == [k EXCEPT !.pc = "pick", !.port = 0, !.from = From(k.port), !.tries = @ + 1,
                        !.refused = @ \cup {k.port}]
  IN /\ k.pc = "run" /\ k.port \in InUse \cup lingering
     /\ ReleasePort(Home[c], k.port)
     /\ call' = [call EXCEPT ![c] = IF again.tries < MaxTries THEN again
                                    ELSE [again EXCEPT !.pc = "exhausted", !.box = "none"]]
     /\ UNCHANGED <<bound, lingering, holds, hostRuns>>

\* Mutated: the port of a run that failed stays reserved.
RunFailsKeeping(c) ==
  /\ call[c].pc = "run"
  /\ call' = [call EXCEPT ![c] = NotIn]
  /\ UNCHANGED <<bound, lingering, reserved, holds, hostRuns>>

\* It fails for another reason.
RunFails(c) ==
  /\ call[c].pc = "run"
  /\ ReleasePort(Home[c], call[c].port) /\ call' = [call EXCEPT ![c] = NotIn]
  /\ UNCHANGED <<bound, lingering, holds, hostRuns>>

\* The name is taken: the port is given back and the container is looked for.
NameTaken(c) ==
  /\ call[c].pc = "run" /\ bound[call[c].box] # Stopped
  /\ ReleasePort(Home[c], call[c].port)
  /\ call' = [call EXCEPT ![c].pc = "conflict", ![c].port = 0]
  /\ UNCHANGED <<bound, lingering, holds, hostRuns>>

\* discover: it runs, has a port and answers; otherwise the error is raised.
DiscoverAfterConflict(c) ==
  LET k == call[c] IN
  /\ k.pc = "conflict"
  /\ \/ /\ bound[k.box] # Stopped
        /\ holds' = [holds EXCEPT ![c] = [box |-> k.box, port |-> bound[k.box].port, owned |-> FALSE]]
     \/ UNCHANGED holds
  /\ call' = [call EXCEPT ![c] = NotIn]
  /\ UNCHANGED <<bound, lingering, reserved, hostRuns>>

\* A container is gone, its port lingers.
Gone(b) == /\ bound' = [bound EXCEPT ![b] = Stopped]
           /\ lingering' = lingering \cup {bound[b].port}

\* destroy: only the info of whoever started it names the container, and Docker
\* may fail to stop it; the port is given back in any case.
DestroyBox(c) ==
  LET i == holds[c] IN
  /\ i # NoHold
  /\ \/ i.owned /\ bound[i.box].by = c /\ Gone(i.box)
     \/ UNCHANGED <<bound, lingering>>
  /\ ReleasePort(Home[c], i.port) /\ holds' = [holds EXCEPT ![c] = NoHold]
  /\ UNCHANGED <<call, hostRuns>>

ContainerExits(b) == /\ bound[b] # Stopped /\ Gone(b)
                     /\ UNCHANGED <<reserved, call, holds, hostRuns>>

PortIsFree(p) == /\ p \in lingering /\ lingering' = lingering \ {p}
                 /\ UNCHANGED <<bound, reserved, call, holds, hostRuns>>

HpNext ==
  \/ \E c \in Creators : \/ \E b \in Boxes : Create(c, b)
                         \/ PickPort(c) \/ ContainerRuns(c) \/ PortRefused(c) \/ RunFails(c)
                         \/ NameTaken(c) \/ DiscoverAfterConflict(c) \/ DestroyBox(c)
  \/ \E b \in Boxes : ContainerExits(b)
  \/ \E p \in Ports : PortIsFree(p)

HpSpec == HpInit /\ [][HpNext]_ports

----------------------------------------------------------------------------
(* Properties.                                                               *)

\* No port is lost for a process: what is reserved is in use by a call, or is the
\* port of a sandbox that somebody will destroy (the range has a hundred ports).
NoLeakedPort ==
  \A c \in Creators : \A p \in reserved[Home[c]] :
    \E d \in Creators : /\ Home[d] = Home[c]
                        /\ \/ call[d].pc = "run" /\ call[d].port = p
                           \/ holds[d].owned /\ holds[d].port = p

\* A call tries no port twice, so its attempts run out only on as many ports, taken
\* by another process or not let go by Docker ("a reactive fallback here ensures we
\* always make progress").
RetriesProgress == \A c \in Creators : Cardinality(call[c].refused) = call[c].tries

\* A port is given to one call and comes back, and a refused one is not tried again.
PortsAreSound == HpTypeOK /\ NoLeakedPort /\ RetriesProgress
=============================================================================
