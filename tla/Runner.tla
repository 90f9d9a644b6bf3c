------------------------------- MODULE Runner -------------------------------
(***************************************************************************)
(* ctf-runner: one RunnerService process in front of one Docker daemon.    *)
(*                                                                         *)
(* The service keeps one piece of memory, usedPorts, a slice of booleans   *)
(* with a slot for each host port of MIN_OPEN_PORT..MAX_OPEN_PORT.  gRPC   *)
(* runs every request in a goroutine of its own and the slice has no lock, *)
(* so each read and each write of a slot is a step of its own here, and so *)
(* is each call to Docker.  The daemon outlives the service: a restart     *)
(* clears usedPorts and keeps the containers.                              *)
(***************************************************************************)
EXTENDS Integers, FiniteSets

CONSTANTS
  Handlers,        \* goroutines that can serve a request at the same time
  Containers,      \* container ids Docker may hand out (bounds the model)
  MinPort,         \* MIN_OPEN_PORT, 0 when unset
  MaxPort,         \* MAX_OPEN_PORT, 0 when unset
  EphemeralPorts,  \* what Docker publishes when it is asked for host port 0
  Requests,        \* which state-changing RPCs the callers send
  Faults,          \* which outside failures can happen
  MaxRestarts      \* bound on restarts of the service

FaultKinds == {"pull", "create", "start", "inspect", "stop", "remove", "exit"}

ASSUME RunnerAssumption ==
  /\ MinPort \in Nat
  /\ MaxPort \in Nat
  /\ MinPort <= MaxPort
  /\ EphemeralPorts \subseteq Nat \ {0}
  /\ Requests \subseteq {"start", "stop", "destroy"}
  /\ Faults \subseteq FaultKinds
  /\ MaxRestarts \in Nat

VARIABLES
  used,      \* usedPorts
  docker,    \* the daemon's containers: status, port asked for, port published
  pc,        \* where each handler is
  slot,      \* the index a starting handler has reached, then owns
  target,    \* the container a handler works on
  seen,      \* the binding a destroying handler read, NoBinding if none
  known,     \* ids returned by a successful StartInstance
  restarts

vars == <<used, docker, pc, slot, target, seen, known, restarts>>

Slots == 0 .. (MaxPort - MinPort)
NoBinding == -1
HostPorts == (MinPort .. MaxPort) \cup EphemeralPorts
NoContainer == [status |-> "absent", want |-> 0, host |-> NoBinding]
Container == [status : {"absent", "created", "running", "exited", "removed"},
              want : {0} \cup (MinPort .. MaxPort),
              host : {NoBinding} \cup HostPorts]

StartSteps == {"pull", "scan", "mark", "create", "start", "inspect"}
StopSteps == {"stop"}
DestroySteps == {"lookup", "free", "remove"}
Steps == {"idle"} \cup StartSteps \cup StopSteps \cup DestroySteps

\* Every variable has its type: usedPorts never grows, and what a handler holds
\* is a slot of it, a container of the daemon and a port Docker can publish.
TypeOK ==
  /\ used \in [Slots -> BOOLEAN]
  /\ docker \in [Containers -> Container]
  /\ pc \in [Handlers -> Steps]
  /\ slot \in [Handlers -> Slots]
  /\ target \in [Handlers -> Containers]
  /\ seen \in [Handlers -> {NoBinding} \cup HostPorts]
  /\ known \in SUBSET Containers
  /\ restarts \in 0 .. MaxRestarts

Init ==
  /\ used = [i \in Slots |-> FALSE]
  /\ docker = [c \in Containers |-> NoContainer]
  /\ pc = [h \in Handlers |-> "idle"]
  /\ slot = [h \in Handlers |-> 0]
  /\ \E c \in Containers : target = [h \in Handlers |-> c]
  /\ seen = [h \in Handlers |-> NoBinding]
  /\ known = {}
  /\ restarts = 0

-----------------------------------------------------------------------------
(* Docker *)

Running(c) == docker[c].status = "running"
Exists(c) == docker[c].status \in {"created", "running", "exited"}

\* Ports Docker may publish for a container that asked for port w.
Publishable(w) ==
  (IF w = 0 THEN EphemeralPorts ELSE {w})
     \ {docker[d].host : d \in {e \in Containers : Running(e)}}

\* The bindings ContainerInspect reports: a container that does not run has none.
Binding(c) == IF Running(c) THEN docker[c].host ELSE NoBinding

\* Container c changes; the port it asked for is fixed when it is created.
Becomes(c, status, want, host) ==
  docker' = [docker EXCEPT ![c] = [status |-> status, want |-> want, host |-> host]]

-----------------------------------------------------------------------------
(* StartInstance *)

GoTo(h, step) == pc' = [pc EXCEPT ![h] = step]

StartRequest(h) ==
  /\ "start" \in Requests
  /\ pc[h] = "idle"
  /\ GoTo(h, "pull")
  /\ slot' = [slot EXCEPT ![h] = 0]
  /\ seen' = [seen EXCEPT ![h] = NoBinding]
  /\ UNCHANGED <<used, docker, target, known, restarts>>

PullImage(h) ==
  /\ pc[h] = "pull"
  /\ \/ GoTo(h, "scan")
     \/ "pull" \in Faults /\ GoTo(h, "idle")
  /\ UNCHANGED <<used, docker, slot, target, seen, known, restarts>>

\* Mutant: the loop of selectPort runs one index too far.
SelectPortReadPastEnd(h) ==
  /\ pc[h] = "scan"
  /\ \/ ~used[slot[h]] /\ GoTo(h, "mark") /\ UNCHANGED slot
     \/ used[slot[h]] /\ slot' = [slot EXCEPT ![h] = @ + 1] /\ UNCHANGED pc
  /\ UNCHANGED <<used, docker, target, seen, known, restarts>>

\* selectPort reads one slot: a free one is taken in the next step, after a used
\* one the loop goes on, and past the last one the request fails.
SelectPortRead(h) ==
  /\ pc[h] = "scan"
  /\ \/ /\ ~used[slot[h]]
        /\ GoTo(h, "mark")
        /\ UNCHANGED slot
     \/ /\ used[slot[h]]
        /\ slot[h] + 1 \in Slots
        /\ slot' = [slot EXCEPT ![h] = @ + 1]
        /\ UNCHANGED pc
     \/ /\ used[slot[h]]
        /\ slot[h] + 1 \notin Slots
        /\ GoTo(h, "idle")
        /\ UNCHANGED slot
  /\ UNCHANGED <<used, docker, target, seen, known, restarts>>

\* Mutant: selectPort returns the index without marking it.
SelectPortNoMark(h) ==
  /\ pc[h] = "mark"
  /\ GoTo(h, "create")
  /\ UNCHANGED <<used, docker, slot, target, seen, known, restarts>>

SelectPortMark(h) ==
  /\ pc[h] = "mark"
  /\ used' = [used EXCEPT ![slot[h]] = TRUE]
  /\ GoTo(h, "create")
  /\ UNCHANGED <<docker, slot, target, seen, known, restarts>>

\* Mutant: the id is registered before Docker has started the container.
ContainerCreateEarly(h) ==
  /\ pc[h] = "create"
  /\ \E c \in Containers :
       /\ docker[c].status = "absent"
       /\ Becomes(c, "created", slot[h] + MinPort, NoBinding)
       /\ target' = [target EXCEPT ![h] = c]
       /\ known' = known \cup {c}
  /\ GoTo(h, "start")
  /\ UNCHANGED <<used, slot, seen, restarts>>

ContainerCreate(h) ==
  /\ pc[h] = "create"
  /\ \/ \E c \in Containers :
          /\ docker[c].status = "absent"
          /\ Becomes(c, "created", slot[h] + MinPort, NoBinding)
          /\ target' = [target EXCEPT ![h] = c]
          /\ GoTo(h, "start")
     \/ /\ "create" \in Faults
        /\ GoTo(h, "idle")
        /\ UNCHANGED <<docker, target>>
  /\ UNCHANGED <<used, slot, seen, known, restarts>>

\* A failed start returns at once: neither the slot nor the container is given back.
ContainerStart(h) ==
  LET c == target[h] IN
  /\ pc[h] = "start"
  /\ \/ \E p \in Publishable(docker[c].want) :
          /\ Becomes(c, "running", docker[c].want, p)
          /\ GoTo(h, "inspect")
     \/ /\ Publishable(docker[c].want) = {} \/ "start" \in Faults
        /\ GoTo(h, "idle")
        /\ UNCHANGED docker
  /\ UNCHANGED <<used, slot, target, seen, known, restarts>>

\* The answer carries the id only when the inspection succeeds.
StartInspect(h) ==
  /\ pc[h] = "inspect"
  /\ \/ known' = known \cup {target[h]}
     \/ "inspect" \in Faults /\ UNCHANGED known
  /\ GoTo(h, "idle")
  /\ UNCHANGED <<used, docker, slot, target, seen, restarts>>

-----------------------------------------------------------------------------
(* StopInstance and DestroyInstance: a caller names a container it was given *)

StopRequest(h) ==
  \E c \in known :
    /\ "stop" \in Requests
    /\ pc[h] = "idle"
    /\ target' = [target EXCEPT ![h] = c]
    /\ GoTo(h, "stop")
    /\ UNCHANGED <<used, docker, slot, seen, known, restarts>>

\* Stopping a container that is stopped already succeeds, a removed one fails:
\* neither changes anything.
ContainerStop(h) ==
  LET c == target[h] IN
  /\ pc[h] = "stop"
  /\ \/ /\ Running(c)
        /\ Becomes(c, "exited", docker[c].want, NoBinding)
     \/ /\ ~Running(c) \/ "stop" \in Faults
        /\ UNCHANGED docker
  /\ GoTo(h, "idle")
  /\ UNCHANGED <<used, slot, target, seen, known, restarts>>

DestroyRequest(h) ==
  \E c \in known :
    /\ "destroy" \in Requests
    /\ pc[h] = "idle"
    /\ target' = [target EXCEPT ![h] = c]
    /\ GoTo(h, "lookup")
    /\ UNCHANGED <<used, docker, slot, seen, known, restarts>>

DestroyInspect(h) ==
  LET c == target[h] IN
  /\ pc[h] = "lookup"
  /\ \/ /\ Exists(c)
        /\ seen' = [seen EXCEPT ![h] = Binding(c)]
        /\ GoTo(h, IF Binding(c) = NoBinding THEN "remove" ELSE "free")
     \/ /\ ~Exists(c) \/ "inspect" \in Faults
        /\ GoTo(h, "idle")
        /\ UNCHANGED seen
  /\ UNCHANGED <<used, docker, slot, target, known, restarts>>

\* Mutant: the range test takes the last port for one outside.
FreePortNotLast(p) ==
  IF p < MinPort \/ p >= MaxPort
    THEN used' = used
    ELSE used' = [used EXCEPT ![p - MinPort] = FALSE]

\* freePort(p) with its range test.
FreePort(p) ==
  IF p < MinPort \/ p > MaxPort
    THEN used' = used
    ELSE used' = [used EXCEPT ![p - MinPort] = FALSE]

\* Mutant: DestroyInstance forgets the port.
DestroyKeepPort(h) ==
  /\ pc[h] = "free"
  /\ GoTo(h, "remove")
  /\ UNCHANGED <<used, docker, slot, target, seen, known, restarts>>

\* The slot is given back before the container is removed.
DestroyFreePort(h) ==
  /\ pc[h] = "free"
  /\ FreePort(seen[h])
  /\ GoTo(h, "remove")
  /\ UNCHANGED <<docker, slot, target, seen, known, restarts>>

ContainerRemove(h) ==
  LET c == target[h] IN
  /\ pc[h] = "remove"
  /\ \/ /\ Exists(c)
        /\ Becomes(c, "removed", docker[c].want, NoBinding)
     \/ /\ ~Exists(c) \/ "remove" \in Faults
        /\ UNCHANGED docker
  /\ GoTo(h, "idle")
  /\ UNCHANGED <<used, slot, target, seen, known, restarts>>

-----------------------------------------------------------------------------
(* The world around the service *)

\* The program inside a container ends.
ContainerExit(c) ==
  /\ "exit" \in Faults
  /\ Running(c)
  /\ Becomes(c, "exited", docker[c].want, NoBinding)
  /\ UNCHANGED <<used, pc, slot, target, seen, known, restarts>>

\* The service dies and comes back: NewRunnerService allocates a fresh slice.
Restart ==
  /\ restarts < MaxRestarts
  /\ restarts' = restarts + 1
  /\ used' = [i \in Slots |-> FALSE]
  /\ pc' = [h \in Handlers |-> "idle"]
  /\ UNCHANGED <<docker, slot, target, seen, known>>

StartInstance(h) ==
  \/ StartRequest(h) \/ PullImage(h) \/ SelectPortRead(h) \/ SelectPortMark(h)
  \/ ContainerCreate(h) \/ ContainerStart(h) \/ StartInspect(h)

StopInstance(h) == StopRequest(h) \/ ContainerStop(h)

DestroyInstance(h) ==
  \/ DestroyRequest(h) \/ DestroyInspect(h) \/ DestroyFreePort(h)
  \/ ContainerRemove(h)

Next ==
  \/ \E h \in Handlers : StartInstance(h) \/ StopInstance(h) \/ DestroyInstance(h)
  \/ \E c \in Containers : ContainerExit(c)
  \/ Restart

Spec == Init /\ [][Next]_vars

-----------------------------------------------------------------------------
(* What usedPorts means, and how it can come apart from Docker *)

SlotOf(c) == docker[c].want - MinPort

\* A start has the slot and has not finished with Docker.
Pending(h, i) == pc[h] \in {"create", "start"} /\ slot[h] = i

\* A destroy has given the slot of c back and is about to remove c.
Released(c) == \E h \in Handlers : pc[h] = "remove" /\ target[h] = c
                                   /\ seen[h] # NoBinding

Serving(c, i) == Running(c) /\ SlotOf(c) = i /\ ~Released(c)

Owned(i) == \/ \E h \in Handlers : Pending(h, i)
            \/ \E c \in Containers : Serving(c, i)

\* The slot is lost: nobody will give it back.
Leaked(i) == used[i] /\ ~Owned(i)

\* The slot can be handed to a second start.
Unreserved(i) == ~used[i] /\ Owned(i)

\* A starting handler returns with an error while it has the slot (lines 128-142).
StartGivesUp(h, i) == Pending(h, i) /\ pc'[h] = "idle"

\* A serving container stops running on its own or by StopInstance; a later
\* DestroyInstance finds no binding and frees nothing (lines 198-204).
LeavesRunning(c, i) == Serving(c, i) /\ docker'[c].status = "exited"

\* freePort is told the published port, which is not the port that was selected.
FreesOtherPort(h, i) ==
  /\ pc[h] = "free" /\ pc'[h] = "remove"
  /\ SlotOf(target[h]) = i /\ seen[h] # i + MinPort

\* freePort clears a slot that something besides the container being destroyed
\* owns: a second destroy of the same container that comes late, a start that
\* read the slot as free before another marked it, a published port that belongs
\* to another slot.
FreesOwnedSlot(h, i) ==
  /\ pc[h] = "free" /\ pc'[h] = "remove" /\ seen[h] = i + MinPort
  /\ \/ \E g \in Handlers : Pending(g, i)
     \/ \E c \in Containers \ {target[h]} : Serving(c, i)

\* The removal fails after the slot was given back: the container goes on running.
RemoveFails(h, i) ==
  /\ pc[h] = "remove" /\ pc'[h] = "idle"
  /\ Running(target[h]) /\ docker'[target[h]].status = "running"
  /\ SlotOf(target[h]) = i

\* What every handler relies on between its calls to Docker: a start works on a
\* container of its own that no caller can name yet, callers name only containers
\* that were started, and a destroy that removes without having seen a binding
\* removes a container that does not run any more.
HandlersConsistent ==
  /\ \A h \in Handlers : pc[h] = "start" =>
       /\ docker[target[h]].status = "created"
       /\ docker[target[h]].want = slot[h] + MinPort
  /\ \A g, h \in Handlers :
       pc[g] = "start" /\ pc[h] = "start" /\ target[g] = target[h] => g = h
  /\ \A c \in Containers :
       c \in known \/ (\E h \in Handlers : pc[h] = "inspect" /\ target[h] = c)
         => docker[c].status \in {"running", "exited", "removed"}
  /\ \A c \in Containers : Running(c) => docker[c].host # NoBinding
  /\ \A h \in Handlers : pc[h] \in StopSteps \cup DestroySteps => target[h] \in known
  /\ \A h \in Handlers : pc[h] = "free" => seen[h] # NoBinding
  /\ \A h \in Handlers : pc[h] = "remove" /\ seen[h] = NoBinding => ~Running(target[h])

\* A slot of usedPorts is lost for good only in these three ways.  In particular
\* the order of freePort and ContainerRemove, two handlers that select the same
\* slot and a second destroy lose none.
LeakCauses ==
  [][\A i \in Slots : ~Leaked(i) /\ Leaked(i)' =>
       \/ \E h \in Handlers : StartGivesUp(h, i) \/ FreesOtherPort(h, i)
       \/ \E c \in Containers : LeavesRunning(c, i)]_vars

\* The slot of a running container, or of a start that is under way, becomes free
\* only in these three ways.
UnreservedCauses ==
  [][\A i \in Slots : ~Unreserved(i) /\ Unreserved(i)' =>
       \/ restarts' # restarts
       \/ \E h \in Handlers : FreesOwnedSlot(h, i) \/ RemoveFails(h, i)]_vars
=============================================================================
