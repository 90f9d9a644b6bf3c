---------------------------- MODULE RunnerProofs ----------------------------
(***************************************************************************)
(* Proofs about Runner for every number of handlers, containers and ports. *)
(***************************************************************************)
EXTENDS Runner, TLAPS

\* Slots and ports are converted into one another without leaving their ranges.
LEMMA SlotPort ==
  /\ \A i \in Slots : i \in Int /\ i + MinPort \in MinPort .. MaxPort
  /\ \A p \in MinPort .. MaxPort : p - MinPort \in Slots
  /\ 0 \in Slots
BY RunnerAssumption DEF Slots

\* Docker's record of a container stays one when its status and port change.
LEMMA BecomesType ==
  ASSUME docker \in [Containers -> Container],
         NEW c \in Containers, NEW st, NEW w, NEW p,
         st \in {"created", "running", "exited", "removed"},
         w \in {0} \cup (MinPort .. MaxPort), p \in {NoBinding} \cup HostPorts,
         Becomes(c, st, w, p)
  PROVE  docker' \in [Containers -> Container]
BY DEF Becomes, Container

\* A container's fields are in range.
LEMMA ContainerFields ==
  ASSUME docker \in [Containers -> Container], NEW c \in Containers
  PROVE  /\ docker[c].want \in {0} \cup (MinPort .. MaxPort)
         /\ docker[c].host \in {NoBinding} \cup HostPorts
         /\ docker[c].status \in {"absent", "created", "running", "exited", "removed"}
BY DEF Container

LEMMA TypeInit == Init => TypeOK
BY RunnerAssumption, SlotPort
   DEF Init, TypeOK, Container, NoContainer, NoBinding, Steps

\* Each request handler step keeps the types.
LEMMA TypeStart ==
  ASSUME TypeOK, NEW h \in Handlers, StartInstance(h)
  PROVE  TypeOK'
<1> USE RunnerAssumption DEF TypeOK, GoTo, Steps, StartSteps
<1>1. CASE StartRequest(h)
  BY <1>1, SlotPort DEF StartRequest
<1>2. CASE PullImage(h)
  BY <1>2 DEF PullImage
<1>3. CASE SelectPortRead(h)
  BY <1>3 DEF SelectPortRead
<1>4. CASE SelectPortMark(h)
  BY <1>4 DEF SelectPortMark
<1>5. CASE ContainerCreate(h)
  <2>1. CASE UNCHANGED <<docker, target>>
    BY <1>5, <2>1 DEF ContainerCreate
  <2>2. CASE ~UNCHANGED <<docker, target>>
    <3>1. PICK c \in Containers :
            /\ Becomes(c, "created", slot[h] + MinPort, NoBinding)
            /\ target' = [target EXCEPT ![h] = c]
            /\ pc' = [pc EXCEPT ![h] = "start"]
      BY <1>5, <2>2 DEF ContainerCreate
    <3>2. docker' \in [Containers -> Container]
      BY <3>1, SlotPort, BecomesType
    <3>3. QED
      BY <1>5, <3>1, <3>2 DEF ContainerCreate
  <2>3. QED
    BY <2>1, <2>2
<1>6. CASE ContainerStart(h)
  <2>1. docker' \in [Containers -> Container]
    <3>1. CASE UNCHANGED docker
      BY <3>1
    <3>2. CASE ~UNCHANGED docker
      <4>1. PICK p \in Publishable(docker[target[h]].want) :
              Becomes(target[h], "running", docker[target[h]].want, p)
        BY <1>6, <3>2 DEF ContainerStart
      <4>2. p \in HostPorts
        BY <4>1, ContainerFields DEF Publishable, HostPorts
      <4>3. QED
        BY <4>1, <4>2, ContainerFields, BecomesType
    <3>3. QED
      BY <3>1, <3>2
  <2>2. QED
    BY <1>6, <2>1 DEF ContainerStart
<1>7. CASE StartInspect(h)
  <2>1. known' \in SUBSET Containers
    BY <1>7 DEF StartInspect
  <2>2. QED
    BY <1>7, <2>1 DEF StartInspect
<1>8. QED
  BY <1>1, <1>2, <1>3, <1>4, <1>5, <1>6, <1>7 DEF StartInstance

LEMMA TypeStop ==
  ASSUME TypeOK, NEW h \in Handlers, StopInstance(h)
  PROVE  TypeOK'
<1> USE RunnerAssumption DEF TypeOK, GoTo, Steps, StopSteps
<1>1. CASE StopRequest(h)
  BY <1>1 DEF StopRequest
<1>2. CASE ContainerStop(h)
  <2>0. target[h] \in Containers
    OBVIOUS
  <2>1. docker' \in [Containers -> Container]
    BY <1>2, <2>0, ContainerFields, BecomesType DEF ContainerStop
  <2>2. QED
    BY <1>2, <2>1 DEF ContainerStop
<1>3. QED
  BY <1>1, <1>2 DEF StopInstance

LEMMA TypeDestroy ==
  ASSUME TypeOK, NEW h \in Handlers, DestroyInstance(h)
  PROVE  TypeOK'
<1> USE RunnerAssumption DEF TypeOK, GoTo, Steps, DestroySteps
<1>1. CASE DestroyRequest(h)
  BY <1>1 DEF DestroyRequest
<1>2. CASE DestroyInspect(h)
  <2>1. Binding(target[h]) \in {NoBinding} \cup HostPorts
    BY DEF Binding, Container
  <2>2. QED
    BY <1>2, <2>1 DEF DestroyInspect
<1>3. CASE DestroyFreePort(h)
  <2>1. used' \in [Slots -> BOOLEAN]
    BY <1>3 DEF DestroyFreePort, FreePort
  <2>2. QED
    BY <1>3, <2>1 DEF DestroyFreePort
<1>4. CASE ContainerRemove(h)
  <2>0. target[h] \in Containers
    OBVIOUS
  <2>1. docker' \in [Containers -> Container]
    BY <1>4, <2>0, ContainerFields, BecomesType DEF ContainerRemove
  <2>2. QED
    BY <1>4, <2>1 DEF ContainerRemove
<1>5. QED
  BY <1>1, <1>2, <1>3, <1>4 DEF DestroyInstance

LEMMA TypeStep == TypeOK /\ [Next]_vars => TypeOK'
<1> SUFFICES ASSUME TypeOK, [Next]_vars PROVE TypeOK'
  OBVIOUS
<1>1. ASSUME NEW c \in Containers, ContainerExit(c) PROVE TypeOK'
  BY <1>1, ContainerFields, BecomesType DEF ContainerExit, TypeOK
<1>2. CASE Restart
  BY <1>2, RunnerAssumption DEF Restart, TypeOK, Steps
<1>3. CASE UNCHANGED vars
  BY <1>3 DEF vars, TypeOK
<1>4. QED
  BY <1>1, <1>2, <1>3, TypeStart, TypeStop, TypeDestroy DEF Next

\* The state of the service and of Docker is well formed in every behaviour.
THEOREM TypeCorrect == Spec => []TypeOK
<1>1. QED
  BY TypeInit, TypeStep, PTL DEF Spec

-----------------------------------------------------------------------------
(* HandlersConsistent is inductive relative to TypeOK.                     *)

LEMMA ConsistentInit == Init => HandlersConsistent
BY DEF Init, HandlersConsistent, NoContainer, Running, StopSteps, DestroySteps

LEMMA ConsistentStart ==
  ASSUME TypeOK, HandlersConsistent, NEW h \in Handlers, StartInstance(h)
  PROVE  HandlersConsistent'
<1> USE DEF TypeOK, HandlersConsistent, GoTo, StopSteps, DestroySteps
<1>1. CASE StartRequest(h)
  BY <1>1 DEF StartRequest, Running
<1>2. CASE PullImage(h)
  BY <1>2 DEF PullImage, Running
<1>3. CASE SelectPortRead(h)
  BY <1>3 DEF SelectPortRead, Running
<1>4. CASE SelectPortMark(h)
  BY <1>4 DEF SelectPortMark, Running
<1>5. CASE ContainerCreate(h)
  <2>1. CASE pc' = [pc EXCEPT ![h] = "idle"] /\ UNCHANGED <<docker, target>>
    BY <1>5, <2>1 DEF ContainerCreate, Running
  <2>2. ASSUME NEW c \in Containers, docker[c].status = "absent",
               Becomes(c, "created", slot[h] + MinPort, NoBinding),
               target' = [target EXCEPT ![h] = c], pc' = [pc EXCEPT ![h] = "start"]
        PROVE  HandlersConsistent'
    <3>2. /\ docker'[c].status = "created" /\ docker'[c].want = slot[h] + MinPort
          /\ \A d \in Containers : d # c => docker'[d] = docker[d]
      BY <2>2 DEF Becomes
    <3>3. c \notin known /\ \A g \in Handlers : pc[g] \in {"start", "inspect"} => target[g] # c
      BY <2>2
    <3>4. UNCHANGED <<slot, seen, known>>
      BY <1>5 DEF ContainerCreate
    <3>5. QED
      BY <2>2, <3>2, <3>3, <3>4, <1>5 DEF Running, ContainerCreate
  <2>3. QED
    BY <1>5, <2>1, <2>2 DEF ContainerCreate
<1>6. CASE ContainerStart(h)
  <2>1. CASE UNCHANGED docker
    BY <1>6, <2>1 DEF ContainerStart, Running, Becomes
  <2>2. CASE ~UNCHANGED docker
    <3> DEFINE c == target[h]
    <3>1. /\ docker'[c].status = "running" /\ docker'[c].host # NoBinding
          /\ pc' = [pc EXCEPT ![h] = "inspect"]
          /\ \A d \in Containers : d # c => docker'[d] = docker[d]
      <4>1. PICK q \in Publishable(docker[c].want) :
              Becomes(c, "running", docker[c].want, q) /\ GoTo(h, "inspect")
        BY <1>6, <2>2 DEF ContainerStart
      <4>2. q # NoBinding
        BY <4>1, ContainerFields, RunnerAssumption DEF Publishable, NoBinding
      <4>3. QED
        BY <4>1, <4>2 DEF Becomes
    <3>2. UNCHANGED <<slot, seen, known, target>>
      BY <1>6 DEF ContainerStart
    <3>3. c \notin known /\ pc[h] = "start"
      BY <1>6 DEF ContainerStart
    <3>4. QED
      BY <3>1, <3>2, <3>3 DEF Running
  <2>3. QED
    BY <2>1, <2>2
<1>7. CASE StartInspect(h)
  BY <1>7 DEF StartInspect, Running
<1>8. QED
  BY <1>1, <1>2, <1>3, <1>4, <1>5, <1>6, <1>7 DEF StartInstance

\* A container that stops running or is removed keeps the invariant: no handler
\* is about to start it.
LEMMA ConsistentBecomes ==
  ASSUME TypeOK, HandlersConsistent, NEW c \in Containers,
         NEW st \in {"exited", "removed"},
         docker[c].status \in {"running", "exited"} \/ c \in known,
         Becomes(c, st, docker[c].want, NoBinding),
         UNCHANGED <<slot, target, seen, known>>,
         \A g \in Handlers : pc'[g] \in {pc[g], "idle"}
  PROVE  HandlersConsistent'
<1>1. /\ docker'[c].status = st
      /\ \A d \in Containers : d # c => docker'[d] = docker[d]
  BY DEF Becomes, TypeOK
<1>2. \A g \in Handlers : pc[g] = "start" => target[g] # c
  BY DEF HandlersConsistent, TypeOK
<1>3. QED
  BY <1>1, <1>2 DEF HandlersConsistent, TypeOK, Running, StopSteps, DestroySteps

LEMMA ConsistentStop ==
  ASSUME TypeOK, HandlersConsistent, NEW h \in Handlers, StopInstance(h)
  PROVE  HandlersConsistent'
<1>1. CASE StopRequest(h)
  BY <1>1 DEF StopRequest, HandlersConsistent, TypeOK, GoTo, Running, StopSteps, DestroySteps
<1>2. CASE ContainerStop(h)
  <2>1. CASE UNCHANGED docker
    BY <1>2, <2>1 DEF ContainerStop, HandlersConsistent, TypeOK, GoTo, Running,
                      StopSteps, DestroySteps
  <2>2. CASE ~UNCHANGED docker
    <3>1. Running(target[h]) /\ Becomes(target[h], "exited", docker[target[h]].want, NoBinding)
      BY <1>2, <2>2 DEF ContainerStop
    <3>2. QED
      BY <1>2, <3>1, ConsistentBecomes DEF ContainerStop, TypeOK, GoTo, Running
  <2>3. QED
    BY <2>1, <2>2
<1>3. QED
  BY <1>1, <1>2 DEF StopInstance

LEMMA ConsistentDestroy ==
  ASSUME TypeOK, HandlersConsistent, NEW h \in Handlers, DestroyInstance(h)
  PROVE  HandlersConsistent'
<1> USE DEF TypeOK, GoTo, StopSteps, DestroySteps
<1>1. CASE DestroyRequest(h)
  BY <1>1 DEF DestroyRequest, HandlersConsistent, Running
<1>2. CASE DestroyInspect(h)
  <2>1. Binding(target[h]) = NoBinding => ~Running(target[h])
    BY DEF Binding, HandlersConsistent
  <2>2. QED
    BY <1>2, <2>1 DEF DestroyInspect, HandlersConsistent, Running
<1>3. CASE DestroyFreePort(h)
  BY <1>3 DEF DestroyFreePort, HandlersConsistent, Running
<1>4. CASE ContainerRemove(h)
  <2>1. CASE UNCHANGED docker
    BY <1>4, <2>1 DEF ContainerRemove, HandlersConsistent, Running
  <2>2. CASE ~UNCHANGED docker
    <3>1. Becomes(target[h], "removed", docker[target[h]].want, NoBinding)
      BY <1>4, <2>2 DEF ContainerRemove
    <3>2. target[h] \in known
      BY <1>4 DEF ContainerRemove, HandlersConsistent
    <3>3. QED
      BY <1>4, <3>1, <3>2, ConsistentBecomes DEF ContainerRemove
  <2>3. QED
    BY <2>1, <2>2
<1>5. QED
  BY <1>1, <1>2, <1>3, <1>4 DEF DestroyInstance

LEMMA ConsistentStep == TypeOK /\ HandlersConsistent /\ [Next]_vars => HandlersConsistent'
<1> SUFFICES ASSUME TypeOK, HandlersConsistent, [Next]_vars PROVE HandlersConsistent'
  OBVIOUS
<1>1. ASSUME NEW c \in Containers, ContainerExit(c) PROVE HandlersConsistent'
  BY <1>1, ConsistentBecomes DEF ContainerExit, Running
<1>2. CASE Restart
  BY <1>2 DEF Restart, HandlersConsistent, Running, StopSteps, DestroySteps
<1>3. CASE UNCHANGED vars
  BY <1>3 DEF vars, HandlersConsistent, Running
<1>4. QED
  BY <1>1, <1>2, <1>3, ConsistentStart, ConsistentStop, ConsistentDestroy DEF Next

\* Handlers keep their assumptions about the containers they work on.
THEOREM ConsistentAlways == Spec => []HandlersConsistent
<1>1. QED
  BY ConsistentInit, ConsistentStep, TypeCorrect, PTL DEF Spec

-----------------------------------------------------------------------------
(* How usedPorts comes apart from Docker                                   *)

Inv == TypeOK /\ HandlersConsistent

LeakStep == \A i \in Slots : ~Leaked(i) /\ Leaked(i)' =>
              \/ \E h \in Handlers : StartGivesUp(h, i) \/ FreesOtherPort(h, i)
              \/ \E c \in Containers : LeavesRunning(c, i)

UnreservedStep == \A i \in Slots : ~Unreserved(i) /\ Unreserved(i)' =>
                    \/ restarts' # restarts
                    \/ \E h \in Handlers : FreesOwnedSlot(h, i) \/ RemoveFails(h, i)

\* A step that leaves usedPorts, Docker and the owners' handlers alone.
LEMMA QuietStep ==
  ASSUME Inv, UNCHANGED <<used, docker, target, slot>>,
         \A h \in Handlers : (pc[h] \in {"create", "start"} <=> pc'[h] \in {"create", "start"}),
         \A h \in Handlers :
            (pc[h] = "remove" /\ seen[h] # NoBinding) <=> (pc'[h] = "remove" /\ seen'[h] # NoBinding)
  PROVE  LeakStep /\ UnreservedStep
<1>1. \A i \in Slots : Owned(i)' <=> Owned(i)
  BY DEF Owned, Pending, Serving, Released, Running, SlotOf
<1>2. QED
  BY <1>1 DEF LeakStep, UnreservedStep, Leaked, Unreserved

LEMMA DriftStart ==
  ASSUME Inv, NEW h \in Handlers, StartInstance(h)
  PROVE  LeakStep /\ UnreservedStep
<1> USE DEF Inv, TypeOK, GoTo
<1>1. CASE StartRequest(h)
  <2>1. \A i \in Slots : Owned(i)' <=> Owned(i)
    BY <1>1 DEF StartRequest, Owned, Pending, Serving, Released, Running, SlotOf
  <2>2. QED
    BY <1>1, <2>1 DEF StartRequest, LeakStep, UnreservedStep, Leaked, Unreserved
<1>2. CASE PullImage(h)
  BY <1>2, QuietStep DEF PullImage
<1>3. CASE SelectPortRead(h)
  <2>1. \A i \in Slots : Owned(i)' <=> Owned(i)
    BY <1>3 DEF SelectPortRead, Owned, Pending, Serving, Released, Running, SlotOf
  <2>2. QED
    BY <1>3, <2>1 DEF SelectPortRead, LeakStep, UnreservedStep, Leaked, Unreserved
<1>4. CASE SelectPortMark(h)
  <2>1. \A i \in Slots : Owned(i)' <=> Owned(i) \/ i = slot[h]
    BY <1>4 DEF SelectPortMark, Owned, Pending, Serving, Released, Running, SlotOf
  <2>2. used' = [used EXCEPT ![slot[h]] = TRUE]
    BY <1>4 DEF SelectPortMark
  <2>3. QED
    BY <2>1, <2>2 DEF LeakStep, UnreservedStep, Leaked, Unreserved
<1>5. CASE ContainerCreate(h)
  <2>1. CASE pc' = [pc EXCEPT ![h] = "idle"] /\ UNCHANGED <<docker, target>>
    <3>1. \A i \in Slots : Owned(i)' => Owned(i)
      BY <1>5, <2>1 DEF ContainerCreate, Owned, Pending, Serving, Released, Running, SlotOf
    <3>2. \A i \in Slots : i # slot[h] /\ Owned(i) => Owned(i)'
      BY <1>5, <2>1 DEF ContainerCreate, Owned, Pending, Serving, Released, Running, SlotOf
    <3>3. StartGivesUp(h, slot[h])
      BY <1>5, <2>1 DEF ContainerCreate, StartGivesUp, Pending
    <3>4. QED
      BY <1>5, <3>1, <3>2, <3>3 DEF ContainerCreate, LeakStep, UnreservedStep, Leaked, Unreserved
  <2>2. ASSUME NEW c \in Containers, docker[c].status = "absent",
               Becomes(c, "created", slot[h] + MinPort, NoBinding),
               target' = [target EXCEPT ![h] = c], pc' = [pc EXCEPT ![h] = "start"]
        PROVE  LeakStep /\ UnreservedStep
    <3>1. docker'[c].status = "created" /\ \A d \in Containers : d # c => docker'[d] = docker[d]
      BY <2>2 DEF Becomes
    <3>2. UNCHANGED <<used, slot, seen>> /\ pc[h] = "create"
      BY <1>5 DEF ContainerCreate
    <3>3. \A d \in Containers : Released(d)' <=> Released(d)
      BY <2>2, <3>2 DEF Released
    <3>4. \A i \in Slots : Owned(i)' <=> Owned(i)
      BY <2>2, <3>1, <3>2, <3>3 DEF Owned, Pending, Serving, Running, SlotOf
    <3>5. QED
      BY <3>2, <3>4 DEF LeakStep, UnreservedStep, Leaked, Unreserved
  <2>3. QED
    BY <1>5, <2>1, <2>2 DEF ContainerCreate
<1>6. CASE ContainerStart(h)
  <2>0. PICK c \in Containers : c = target[h]
    OBVIOUS
  <2>1. UNCHANGED <<used, slot, seen, target>> /\ pc[h] = "start"
    BY <1>6 DEF ContainerStart
  <2>2. CASE pc' = [pc EXCEPT ![h] = "idle"] /\ UNCHANGED docker
    <3>1. \A i \in Slots : Owned(i)' => Owned(i)
      BY <2>0, <2>1, <2>2 DEF Owned, Pending, Serving, Released, Running, SlotOf
    <3>2. \A i \in Slots : i # slot[h] /\ Owned(i) => Owned(i)'
      BY <2>0, <2>1, <2>2 DEF Owned, Pending, Serving, Released, Running, SlotOf
    <3>3. StartGivesUp(h, slot[h])
      BY <2>0, <2>1, <2>2 DEF StartGivesUp, Pending
    <3>4. QED
      BY <2>1, <3>1, <3>2, <3>3 DEF LeakStep, UnreservedStep, Leaked, Unreserved
  <2>3. ASSUME NEW p, Becomes(c, "running", docker[c].want, p), pc' = [pc EXCEPT ![h] = "inspect"]
        PROVE  LeakStep /\ UnreservedStep
    <3>1. /\ docker'[c].status = "running" /\ docker'[c].want = docker[c].want
          /\ \A d \in Containers : d # c => docker'[d] = docker[d]
      BY <2>3 DEF Becomes
    <3>2. docker[c].want = slot[h] + MinPort /\ c \notin known /\ docker[c].status = "created"
      BY <2>0, <2>1 DEF HandlersConsistent
    <3>3. ~Released(c)' /\ \A d \in Containers : Released(d)' <=> Released(d)
      BY <2>0, <2>1, <2>3, <3>2 DEF Released, HandlersConsistent, DestroySteps
    <3>4. Serving(c, slot[h])'
      BY <2>1, <3>1, <3>2, <3>3, SlotPort, RunnerAssumption DEF Serving, Running, SlotOf
    <3>5. \A i \in Slots : Owned(i) => Owned(i)'
      <4> SUFFICES ASSUME NEW i \in Slots, Owned(i) PROVE Owned(i)'
        OBVIOUS
      <4>1. ASSUME NEW g \in Handlers, Pending(g, i) PROVE Owned(i)'
        BY <4>1, <2>1, <2>3, <3>4 DEF Owned, Pending
      <4>2. ASSUME NEW d \in Containers, Serving(d, i) PROVE Owned(i)'
        BY <4>2, <3>1, <3>2, <3>3 DEF Owned, Serving, Running, SlotOf
      <4>3. QED
        BY <4>1, <4>2 DEF Owned
    <3>6. \A i \in Slots : Owned(i)' => Owned(i)
      <4> SUFFICES ASSUME NEW i \in Slots, Owned(i)' PROVE Owned(i)
        OBVIOUS
      <4>1. ASSUME NEW g \in Handlers, Pending(g, i)' PROVE Owned(i)
        BY <4>1, <2>1, <2>3 DEF Owned, Pending
      <4>2. ASSUME NEW d \in Containers, Serving(d, i)', d # c PROVE Owned(i)
        BY <4>2, <3>1, <3>3 DEF Owned, Serving, Running, SlotOf
      <4>3. ASSUME Serving(c, i)' PROVE Owned(i)
        <5>1. docker'[c].want - MinPort = i /\ docker'[c].want = slot[h] + MinPort
          BY <4>3, <3>1, <3>2 DEF Serving, SlotOf
        <5>2. slot[h] \in Int /\ i \in Int
          BY SlotPort
        <5>3. i = slot[h]
          BY <5>1, <5>2, RunnerAssumption
        <5>4. QED
          BY <5>3, <2>1 DEF Owned, Pending
      <4>4. (\E g \in Handlers : Pending(g, i)') \/ (\E d \in Containers : Serving(d, i)')
        BY DEF Owned
      <4>5. QED
        BY <4>1, <4>2, <4>3, <4>4
    <3>7. QED
      BY <2>1, <3>5, <3>6 DEF LeakStep, UnreservedStep, Leaked, Unreserved
  <2>4. QED
    BY <1>6, <2>0, <2>2, <2>3 DEF ContainerStart
<1>7. CASE StartInspect(h)
  BY <1>7, QuietStep DEF StartInspect
<1>8. QED
  BY <1>1, <1>2, <1>3, <1>4, <1>5, <1>6, <1>7 DEF StartInstance

\* A container c that ran or had ended is now stopped or removed: only the slot it
\* served can lose its owner.
LEMMA OwnersAfterEnd ==
  ASSUME Inv, NEW c \in Containers, NEW st \in {"exited", "removed"},
         Becomes(c, st, docker[c].want, NoBinding), UNCHANGED slot,
         \A h \in Handlers : pc[h] \in {"create", "start"} <=> pc'[h] \in {"create", "start"},
         \A d \in Containers \ {c} : Released(d)' <=> Released(d)
  PROVE  /\ \A i \in Slots : Owned(i)' => Owned(i)
         /\ \A i \in Slots : Owned(i) /\ ~Serving(c, i) => Owned(i)'
<1>1. /\ docker'[c].status = st
      /\ \A d \in Containers : d # c => docker'[d] = docker[d]
  BY DEF Becomes, Inv, TypeOK
<1>2. \A i \in Slots, d \in Containers : d # c => (Serving(d, i)' <=> Serving(d, i))
  BY <1>1 DEF Serving, Running, SlotOf
<1>3. \A i \in Slots : ~Serving(c, i)'
  BY <1>1 DEF Serving, Running
<1>4. \A i \in Slots, h \in Handlers : Pending(h, i)' <=> Pending(h, i)
  BY DEF Pending
<1>5. QED
  BY <1>2, <1>3, <1>4 DEF Owned

\* Ending a container by itself loses at most the slot it was serving.
LEMMA DriftExited ==
  ASSUME Inv, NEW c \in Containers, Running(c),
         Becomes(c, "exited", docker[c].want, NoBinding), UNCHANGED <<used, slot, target, seen>>,
         \A h \in Handlers : pc[h] \in {"create", "start"} <=> pc'[h] \in {"create", "start"},
         \A h \in Handlers : pc[h] = "remove" <=> pc'[h] = "remove"
  PROVE  LeakStep /\ UnreservedStep
<1>1. \A d \in Containers : Released(d)' <=> Released(d)
  BY DEF Released
<1>2. \A i \in Slots : /\ Owned(i)' => Owned(i)
                       /\ Owned(i) /\ ~Serving(c, i) => Owned(i)'
  BY <1>1, OwnersAfterEnd
<1>3. docker'[c].status = "exited"
  BY DEF Becomes, Inv, TypeOK
<1>4. QED
  BY <1>2, <1>3 DEF LeakStep, UnreservedStep, Leaked, Unreserved, LeavesRunning

LEMMA DriftStop ==
  ASSUME Inv, NEW h \in Handlers, StopInstance(h)
  PROVE  LeakStep /\ UnreservedStep
<1> USE DEF Inv, TypeOK, GoTo
<1>1. CASE StopRequest(h)
  <2>1. \A i \in Slots : Owned(i)' <=> Owned(i)
    BY <1>1 DEF StopRequest, Owned, Pending, Serving, Released, Running, SlotOf
  <2>2. QED
    BY <1>1, <2>1 DEF StopRequest, LeakStep, UnreservedStep, Leaked, Unreserved
<1>2. CASE ContainerStop(h)
  <2>1. CASE UNCHANGED docker
    BY <1>2, <2>1, QuietStep DEF ContainerStop
  <2>2. CASE ~UNCHANGED docker
    <3>1. PICK c \in Containers : c = target[h]
      OBVIOUS
    <3>2. Running(c) /\ Becomes(c, "exited", docker[c].want, NoBinding)
      BY <1>2, <2>2, <3>1 DEF ContainerStop
    <3>3. QED
      BY <1>2, <3>2, DriftExited DEF ContainerStop
  <2>3. QED
    BY <2>1, <2>2
<1>3. QED
  BY <1>1, <1>2 DEF StopInstance

LEMMA DriftDestroy ==
  ASSUME Inv, NEW h \in Handlers, DestroyInstance(h)
  PROVE  LeakStep /\ UnreservedStep
<1> USE DEF Inv, TypeOK, GoTo
<1>0. PICK c \in Containers : c = target[h]
  OBVIOUS
<1>1. CASE DestroyRequest(h)
  <2>1. \A i \in Slots : Owned(i)' <=> Owned(i)
    BY <1>1 DEF DestroyRequest, Owned, Pending, Serving, Released, Running, SlotOf
  <2>2. QED
    BY <1>1, <2>1 DEF DestroyRequest, LeakStep, UnreservedStep, Leaked, Unreserved
<1>2. CASE DestroyInspect(h)
  <2>1. \A d \in Containers : Released(d)' <=> Released(d)
    BY <1>2 DEF DestroyInspect, Released
  <2>2. \A i \in Slots : Owned(i)' <=> Owned(i)
    BY <1>2, <2>1 DEF DestroyInspect, Owned, Pending, Serving, Running, SlotOf
  <2>3. QED
    BY <1>2, <2>2 DEF DestroyInspect, LeakStep, UnreservedStep, Leaked, Unreserved
<1>3. CASE DestroyFreePort(h)
  <2>1. /\ pc[h] = "free" /\ pc' = [pc EXCEPT ![h] = "remove"] /\ seen[h] # NoBinding
        /\ UNCHANGED <<docker, slot, target, seen>>
    BY <1>3 DEF DestroyFreePort, HandlersConsistent
  <2>2. Released(c)' /\ \A d \in Containers : d # c => (Released(d)' <=> Released(d))
    BY <1>0, <2>1 DEF Released
  <2>3. \A i \in Slots, g \in Handlers : Pending(g, i)' <=> Pending(g, i)
    BY <2>1 DEF Pending
  <2>4. \A i \in Slots, d \in Containers : Serving(d, i)' <=> Serving(d, i) /\ d # c
    BY <2>1, <2>2 DEF Serving, Running, SlotOf
  <2>5. LeakStep
    <3> SUFFICES ASSUME NEW i \in Slots, ~Leaked(i), Leaked(i)'
                 PROVE  FreesOtherPort(h, i)
      BY DEF LeakStep
    <3>1. used[i] /\ used'[i] /\ ~Owned(i)'
      BY <1>3 DEF Leaked, DestroyFreePort, FreePort
    <3>2. Owned(i)
      BY <3>1 DEF Leaked
    <3>3. Serving(c, i)
      BY <2>3, <2>4, <3>1, <3>2 DEF Owned
    <3>4. seen[h] # i + MinPort
      <4>1. SUFFICES ASSUME seen[h] = i + MinPort PROVE FALSE
        OBVIOUS
      <4>2. seen[h] \in MinPort .. MaxPort /\ seen[h] - MinPort = i
        BY <4>1, SlotPort, RunnerAssumption
      <4>3. ~used'[i]
        BY <1>3, <4>2, RunnerAssumption DEF DestroyFreePort, FreePort
      <4>4. QED
        BY <3>1, <4>3
    <3>5. QED
      BY <1>0, <2>1, <3>3, <3>4 DEF FreesOtherPort, Serving
  <2>6. UnreservedStep
    <3> SUFFICES ASSUME NEW i \in Slots, ~Unreserved(i), Unreserved(i)'
                 PROVE  FreesOwnedSlot(h, i)
      BY DEF UnreservedStep
    <3>1. ~used'[i] /\ Owned(i)'
      BY DEF Unreserved
    <3>2. Owned(i)
      BY <3>1, <2>3, <2>4 DEF Owned
    <3>3. used[i]
      BY <3>2 DEF Unreserved
    <3>4. seen[h] \in MinPort .. MaxPort /\ seen[h] - MinPort = i
      <4>1. seen[h] \in Int
        <5>1. seen[h] \in {NoBinding} \cup HostPorts
          OBVIOUS
        <5>2. NoBinding \in Int /\ HostPorts \subseteq Int
          BY RunnerAssumption DEF HostPorts, NoBinding
        <5>3. QED
          BY <5>1, <5>2
      <4>2. ~(seen[h] < MinPort \/ seen[h] > MaxPort)
        BY <1>3, <3>1, <3>3 DEF DestroyFreePort, FreePort
      <4>3. used' = [used EXCEPT ![seen[h] - MinPort] = FALSE]
        BY <1>3, <4>2 DEF DestroyFreePort, FreePort
      <4>4. seen[h] \in MinPort .. MaxPort
        BY <4>1, <4>2, RunnerAssumption
      <4>5. QED
        BY <3>1, <3>3, <4>3, <4>4
    <3>5. seen[h] = i + MinPort
      BY <3>4, SlotPort, RunnerAssumption
    <3>6. QED
      BY <1>0, <2>1, <2>3, <2>4, <3>1, <3>5 DEF FreesOwnedSlot, Owned
  <2>7. QED
    BY <2>5, <2>6
<1>4. CASE ContainerRemove(h)
  <2>1. /\ pc[h] = "remove" /\ pc' = [pc EXCEPT ![h] = "idle"]
        /\ UNCHANGED <<used, slot, target, seen>>
    BY <1>4 DEF ContainerRemove
  <2>2. \A d \in Containers : d # c => (Released(d)' <=> Released(d))
    BY <1>0, <2>1 DEF Released
  <2>3. CASE Becomes(c, "removed", docker[c].want, NoBinding)
    <3>1. \A i \in Slots : ~Serving(c, i)
      BY <1>0, <2>1 DEF Serving, Released, HandlersConsistent
    <3>2. \A i \in Slots : Owned(i)' <=> Owned(i)
      BY <2>1, <2>2, <2>3, <3>1, OwnersAfterEnd
    <3>3. QED
      BY <2>1, <3>2 DEF LeakStep, UnreservedStep, Leaked, Unreserved
  <2>4. CASE UNCHANGED docker
    <3>1. \A d \in Containers : Released(d)' => Released(d)
      BY <2>1 DEF Released
    <3>2. \A i \in Slots : Owned(i) => Owned(i)'
      BY <2>1, <2>4, <3>1 DEF Owned, Pending, Serving, Running, SlotOf
    <3>3. \A i \in Slots : Owned(i)' => Owned(i) \/ RemoveFails(h, i)
      <4> SUFFICES ASSUME NEW i \in Slots, Owned(i)', ~Owned(i) PROVE RemoveFails(h, i)
        OBVIOUS
      <4>1. PICK d \in Containers : Serving(d, i)' /\ ~Serving(d, i)
        BY <2>1 DEF Owned, Pending
      <4>2. d = c
        BY <2>2, <2>4, <4>1 DEF Serving, Running, SlotOf
      <4>3. QED
        BY <1>0, <2>1, <2>4, <4>1, <4>2 DEF Serving, Running, SlotOf, RemoveFails
    <3>4. QED
      BY <2>1, <3>2, <3>3 DEF LeakStep, UnreservedStep, Leaked, Unreserved
  <2>5. QED
    BY <1>0, <1>4, <2>3, <2>4 DEF ContainerRemove
<1>5. QED
  BY <1>1, <1>2, <1>3, <1>4 DEF DestroyInstance

LEMMA DriftStep == Inv /\ [Next]_vars => LeakStep /\ UnreservedStep
<1> SUFFICES ASSUME Inv, [Next]_vars PROVE LeakStep /\ UnreservedStep
  OBVIOUS
<1>1. ASSUME NEW c \in Containers, ContainerExit(c) PROVE LeakStep /\ UnreservedStep
  BY <1>1, DriftExited DEF ContainerExit
<1>2. CASE Restart
  <2>1. restarts' # restarts /\ \A i \in Slots : ~used'[i]
    BY <1>2, RunnerAssumption DEF Restart, Inv, TypeOK
  <2>2. QED
    BY <2>1 DEF LeakStep, UnreservedStep, Leaked
<1>3. CASE UNCHANGED vars
  BY <1>3, QuietStep DEF vars, Inv
<1>4. QED
  BY <1>1, <1>2, <1>3, DriftStart, DriftStop, DriftDestroy DEF Next

\* Whatever fails and however requests interleave, a port is lost only by a failed
\* start, a container that stops, or a published port that differs from the
\* selected one.
THEOREM LeaksExplained == Spec => LeakCauses
<1>1. Inv /\ [Next]_vars => [LeakStep]_vars
  BY DriftStep
<1>2. QED
  BY <1>1, TypeCorrect, ConsistentAlways, PTL DEF Spec, Inv, LeakCauses, LeakStep

\* Likewise a port in use is offered again only after a restart, a failed removal,
\* or a free of a slot that has another owner.
THEOREM UnreservedExplained == Spec => UnreservedCauses
<1>1. Inv /\ [Next]_vars => [UnreservedStep]_vars
  BY DriftStep
<1>2. QED
  BY <1>1, TypeCorrect, ConsistentAlways, PTL
     DEF Spec, Inv, UnreservedCauses, UnreservedStep
=============================================================================
