------------------------------- MODULE Manager -------------------------------
(***************************************************************************)
(* ctf-manager: spreads instances over the runners and keeps a row for     *)
(* each in MySQL.                                                          *)
(*                                                                         *)
(* An instance is started, stopped, destroyed and inspected by requests    *)
(* that run in goroutines of their own; the rows are read and written      *)
(* outside any transaction and the runner does its work between two such   *)
(* steps.  Only the choice of a runner is under the mutex mu - and the     *)
(* whole of Cleanup, which SIGTERM runs before the server drains.  A       *)
(* runner is seen through its answers: module Runner has what it does.     *)
(***************************************************************************)
EXTENDS Integers, FiniteSets

CONSTANTS
  Handlers,    \* requests served at the same time
  Instances,   \* uuids (bounds the model)
  NumRunners,  \* number of entries of RUNNER_URLS that could be dialled
  Faults,      \* which outside failures can happen
  MaxBoots     \* bound on the number of times the process is started

FaultKinds == {"start", "inspect", "stop", "remove", "exit", "rpc", "db", "kill", "sigterm"}

ASSUME ManagerAssumption ==
  /\ NumRunners \in Nat \ {0}
  /\ Faults \subseteq FaultKinds
  /\ MaxBoots \in Nat \ {0}

VARIABLES
  nextRunner,  \* where the next selection starts
  mu,          \* the mutex: only a holder that blocks is visible
  phase,       \* the process: up, inside Cleanup, draining or down
  connected,   \* the gRPC connections to the runners are open
  boots,
  row,         \* the instances table: the state column, or NoRow
  at,          \* the runner chosen for an instance (column runner_url)
  box,         \* the container of the instance, on its runner
  told,        \* instances whose id was returned with "success"
  req          \* what each handler is doing

rows == <<row, at>>
process == <<mu, phase, connected, boots>>
vars == <<nextRunner, process, rows, box, told, req>>

Runners == 0 .. (NumRunners - 1)
NoRunner == -1
NoRow == "no row"
States == {"unspecified", "running", "stopped", "destroyed"}
Ops == {"start", "stop", "destroy", "status", "logs"}
Answers == {"success", "failed"} \cup States

\* A request: its operation, how far it is, its instance, the state column it read
\* (kept where it is looked at again) and the runner's answer.
NoInstance == "none"
Idle == [op |-> "none", place |-> "idle", inst |-> NoInstance,
         snap |-> "none", reply |-> "none"]
Request == [op : Ops,
            place : {"select", "find", "lookup", "rpc", "reply", "save", "update", "delete",
                     "follow"},
            inst : Instances \cup {NoInstance},
            snap : States \cup {"none"},
            reply : Answers \cup {"none"}]

\* Every variable has its type; a chosen runner is one of the list.
TypeOK ==
  /\ nextRunner \in Runners
  /\ mu \in {"free", "held"}
  /\ phase \in {"up", "cleanup", "stuck", "draining", "down"}
  /\ connected \in BOOLEAN
  /\ boots \in 1 .. MaxBoots
  /\ row \in [Instances -> States \cup {NoRow}]
  /\ at \in [Instances -> Runners \cup {NoRunner}]
  /\ box \in [Instances -> {"none", "created", "running", "exited", "removed"}]
  /\ told \subseteq Instances
  /\ req \in [Handlers -> Request \cup {Idle}]

Init ==
  /\ nextRunner = 0
  /\ mu = "free"
  /\ phase = "up"
  /\ connected = TRUE
  /\ boots = 1
  /\ row = [i \in Instances |-> NoRow]
  /\ at = [i \in Instances |-> NoRunner]
  /\ box = [i \in Instances |-> "none"]
  /\ told = {}
  /\ req = [h \in Handlers |-> Idle]

At(h, op, place) == req[h].op = op /\ req[h].place = place
GoTo(h, place) == req' = [req EXCEPT ![h].place = place]
Answered(h, place, answer) ==
  req' = [req EXCEPT ![h].place = place, ![h].reply = answer]
Finish(h) == req' = [req EXCEPT ![h] = Idle]
Begin(h, op, place, i) ==
  req[h] = Idle /\ req' = [req EXCEPT ![h] = [Idle EXCEPT !.op = op, !.place = place, !.inst = i]]

\* The server takes requests until GracefulStop is called.
Serving == phase \in {"up", "cleanup", "stuck"}

-----------------------------------------------------------------------------
(* StartInstance *)

StartRequest(h) ==
  /\ Serving
  \* bound: there is an uuid left for every start under way
  /\ Cardinality({g \in Handlers : At(g, "start", "select")})
       < Cardinality({i \in Instances : at[i] = NoRunner})
  /\ Begin(h, "start", "select", NoInstance)
  /\ UNCHANGED <<nextRunner, process, rows, box, told>>

\* Mutant: the runner is picked but the index is not advanced.
SelectRunnerStays(h) ==
  \E i \in Instances :
    /\ At(h, "start", "select")
    /\ mu = "free"
    /\ at[i] = NoRunner
    /\ at' = [at EXCEPT ![i] = nextRunner]
    /\ req' = [req EXCEPT ![h].place = "rpc", ![h].inst = i]
    /\ UNCHANGED <<nextRunner, process, row, box, told>>

\* Mutant: the index is advanced without going round.
SelectRunnerPastEnd(h) ==
  \E i \in Instances :
    /\ At(h, "start", "select")
    /\ mu = "free"
    /\ at[i] = NoRunner
    /\ at' = [at EXCEPT ![i] = nextRunner]
    /\ nextRunner' = nextRunner + 1
    /\ req' = [req EXCEPT ![h].place = "rpc", ![h].inst = i]
    /\ UNCHANGED <<process, row, box, told>>

\* Mutant: the unlock of selectRunner is lost.
SelectRunnerKeepsLock(h) ==
  \E i \in Instances :
    /\ At(h, "start", "select")
    /\ mu = "free"
    /\ mu' = "held"
    /\ at[i] = NoRunner
    /\ at' = [at EXCEPT ![i] = nextRunner]
    /\ nextRunner' = (nextRunner + 1) % NumRunners
    /\ req' = [req EXCEPT ![h].place = "rpc", ![h].inst = i]
    /\ UNCHANGED <<phase, connected, boots, row, box, told>>

\* A fresh uuid, then selectRunner under the lock.  Active is set when a runner
\* is dialled and never cleared: the first runner tried is taken.
SelectRunner(h) ==
  \E i \in Instances :
    /\ At(h, "start", "select")
    /\ mu = "free"
    /\ at[i] = NoRunner
    /\ at' = [at EXCEPT ![i] = nextRunner]
    /\ nextRunner' = (nextRunner + 1) % NumRunners
    /\ req' = [req EXCEPT ![h].place = "rpc", ![h].inst = i]
    /\ UNCHANGED <<process, row, box, told>>

\* What the runner can do with a start: it runs, it was never created, it was
\* created and did not start, or it runs and the runner answers "failed".
RunnerStarts(h) ==
  /\ At(h, "start", "rpc") /\ connected
  /\ \E outcome \in {<<"running", "success">>, <<"none", "failed">>}
                      \cup (IF "start" \in Faults THEN {<<"created", "failed">>} ELSE {})
                      \cup (IF "inspect" \in Faults THEN {<<"running", "failed">>} ELSE {}) :
       /\ box' = [box EXCEPT ![req[h].inst] = outcome[1]]
       /\ Answered(h, "reply", outcome[2])
  /\ UNCHANGED <<nextRunner, process, rows, told>>

\* Mutant: the answer's status is not looked at.
StartReplyAny(h) ==
  /\ At(h, "start", "reply") /\ connected
  /\ GoTo(h, "save")
  /\ UNCHANGED <<nextRunner, process, rows, box, told>>

StartReply(h) ==
  /\ At(h, "start", "reply")
  /\ \/ /\ connected /\ req[h].reply = "success"
        /\ GoTo(h, "save")
     \/ /\ req[h].reply = "failed" \/ ~connected \/ "rpc" \in Faults
        /\ Finish(h)
  /\ UNCHANGED <<nextRunner, process, rows, box, told>>

\* A failed insert is logged and the caller gets "success" all the same.
SaveRow(h) ==
  /\ At(h, "start", "save")
  /\ \/ row' = [row EXCEPT ![req[h].inst] = "running"]
     \/ "db" \in Faults /\ UNCHANGED row
  /\ told' = told \cup {req[h].inst}
  /\ Finish(h)
  /\ UNCHANGED <<nextRunner, process, at, box>>

-----------------------------------------------------------------------------
(* The common beginning of StopInstance, DestroyInstance, GetInstanceStatus *)
(* and StreamInstanceLogs                                                   *)

Target(h, op) ==
  \E i \in told :
    /\ Serving
    /\ Begin(h, op, "find", i)
    /\ UNCHANGED <<nextRunner, process, rows, box, told>>

\* FindByID; an absent row and an error both answer at once.
FindByID(h, op) ==
  LET i == req[h].inst IN
  /\ At(h, op, "find")
  /\ \/ /\ row[i] # NoRow
        /\ req' = [req EXCEPT ![h].place = "lookup",
                              ![h].snap = IF op = "status" THEN row[i] ELSE "none"]
     \/ /\ row[i] = NoRow \/ "db" \in Faults
        /\ Finish(h)
  /\ UNCHANGED <<nextRunner, process, rows, box, told>>

\* getRunnerByURL takes the read lock: it waits while Cleanup has the write lock.
GetRunnerByURL(h, op) ==
  /\ At(h, op, "lookup")
  /\ mu = "free"
  /\ GoTo(h, "rpc")
  /\ UNCHANGED <<nextRunner, process, rows, box, told>>

\* The call fails without reaching the runner, or its answer is lost.
CallFails(h, op) ==
  /\ \/ At(h, op, "rpc") /\ (~connected \/ "rpc" \in Faults)
     \/ At(h, op, "reply") /\ op # "start" /\ (~connected \/ "rpc" \in Faults)
  /\ Finish(h)
  /\ UNCHANGED <<nextRunner, process, rows, box, told>>

-----------------------------------------------------------------------------
(* StopInstance *)

Exists(i) == box[i] \in {"created", "running", "exited"}

RunnerStops(h) ==
  LET i == req[h].inst IN
  /\ At(h, "stop", "rpc") /\ connected
  /\ \/ /\ Exists(i)
        /\ box' = [box EXCEPT ![i] = IF @ = "running" THEN "exited" ELSE @]
        /\ Answered(h, "reply", "success")
     \/ /\ ~Exists(i) \/ "stop" \in Faults
        /\ Answered(h, "reply", "failed")
        /\ UNCHANGED box
  /\ UNCHANGED <<nextRunner, process, rows, told>>

\* Mutant: the answer's status is not looked at.
StopReplyAny(h) ==
  /\ At(h, "stop", "reply") /\ connected
  /\ GoTo(h, "update")
  /\ UNCHANGED <<nextRunner, process, rows, box, told>>

StopReply(h) ==
  /\ At(h, "stop", "reply") /\ connected
  /\ IF req[h].reply = "success" THEN GoTo(h, "update") ELSE Finish(h)
  /\ UNCHANGED <<nextRunner, process, rows, box, told>>

\* Mutant: the row is written as an upsert.
UpsertState(i, state) ==
  \/ row' = [row EXCEPT ![i] = state]
  \/ "db" \in Faults /\ UNCHANGED row

\* repo.Update: nothing is written when the row is gone; an error is only logged.
UpdateState(i, state) ==
  \/ row' = [row EXCEPT ![i] = IF @ = NoRow THEN @ ELSE state]
  \/ "db" \in Faults /\ UNCHANGED row

StopUpdate(h) ==
  /\ At(h, "stop", "update")
  /\ UpdateState(req[h].inst, "stopped")
  /\ Finish(h)
  /\ UNCHANGED <<nextRunner, process, at, box, told>>

-----------------------------------------------------------------------------
(* DestroyInstance *)

RunnerDestroys(h) ==
  LET i == req[h].inst IN
  /\ At(h, "destroy", "rpc") /\ connected
  /\ \/ /\ Exists(i)
        /\ box' = [box EXCEPT ![i] = "removed"]
        /\ Answered(h, "reply", "success")
     \/ /\ ~Exists(i) \/ "remove" \in Faults
        /\ Answered(h, "reply", "failed")
        /\ UNCHANGED box
  /\ UNCHANGED <<nextRunner, process, rows, told>>

\* Mutant: the row is deleted whatever the runner answered.
DestroyReplyAny(h) ==
  /\ At(h, "destroy", "reply") /\ connected
  /\ GoTo(h, "delete")
  /\ UNCHANGED <<nextRunner, process, rows, box, told>>

DestroyReply(h) ==
  /\ At(h, "destroy", "reply") /\ connected
  /\ IF req[h].reply = "success" THEN GoTo(h, "delete") ELSE Finish(h)
  /\ UNCHANGED <<nextRunner, process, rows, box, told>>

DestroyDelete(h) ==
  /\ At(h, "destroy", "delete")
  /\ \/ row' = [row EXCEPT ![req[h].inst] = NoRow]
     \/ "db" \in Faults /\ UNCHANGED row
  /\ Finish(h)
  /\ UNCHANGED <<nextRunner, process, at, box, told>>

-----------------------------------------------------------------------------
(* GetInstanceStatus *)

\* The runner's answer: any error of Docker's inspection reads "destroyed".
RunnerState(b) ==
  CASE b = "running" -> "running"
    [] b = "exited"  -> "stopped"
    [] b = "created" -> "unspecified"
    [] OTHER         -> "destroyed"

RunnerReports(h) ==
  /\ At(h, "status", "rpc") /\ connected
  /\ \E s \in {RunnerState(box[req[h].inst])}
                \cup (IF "inspect" \in Faults THEN {"destroyed"} ELSE {}) :
       Answered(h, "reply", s)
  /\ UNCHANGED <<nextRunner, process, rows, box, told>>

\* The row is written only if the state differs from the one read at the start.
StatusReply(h) ==
  /\ At(h, "status", "reply") /\ connected
  /\ IF req[h].reply # req[h].snap THEN GoTo(h, "update") ELSE Finish(h)
  /\ UNCHANGED <<nextRunner, process, rows, box, told>>

StatusUpdate(h) ==
  /\ At(h, "status", "update")
  /\ UpdateState(req[h].inst, req[h].reply)
  /\ Finish(h)
  /\ UNCHANGED <<nextRunner, process, at, box, told>>

-----------------------------------------------------------------------------
(* StreamInstanceLogs *)

\* The runner follows the container's log; it fails at once when there is none.
OpenLogs(h) ==
  /\ At(h, "logs", "rpc") /\ connected
  /\ \/ Exists(req[h].inst) /\ GoTo(h, "follow")
     \/ (~Exists(req[h].inst) \/ "inspect" \in Faults) /\ Finish(h)
  /\ UNCHANGED <<nextRunner, process, rows, box, told>>

\* The loop of Recv and Send has its end when the log has - its container runs no
\* more - or when Cleanup has closed the connection to the runner.
LogsEnd(h) ==
  /\ At(h, "logs", "follow")
  /\ box[req[h].inst] # "running" \/ ~connected
  /\ Finish(h)
  /\ UNCHANGED <<nextRunner, process, rows, box, told>>

\* The caller hangs up.
LogsHangUp(h) ==
  /\ At(h, "logs", "follow")
  /\ Finish(h)
  /\ UNCHANGED <<nextRunner, process, rows, box, told>>

-----------------------------------------------------------------------------
(* Shutdown and restart *)

\* SIGTERM: the signal goroutine enters Cleanup and locks mu.
CleanupLock ==
  /\ "sigterm" \in Faults
  /\ phase = "up" /\ mu = "free"
  /\ phase' = "cleanup"
  /\ mu' = "held"
  /\ UNCHANGED <<nextRunner, connected, boots, rows, box, told, req>>

\* Mutant: the early return after a failed query forgets the lock.
CleanupFindAllKeepsLock ==
  /\ phase = "cleanup"
  /\ \/ /\ \E i \in Instances : row[i] # NoRow
        /\ phase' = "stuck"
        /\ UNCHANGED <<mu, connected>>
     \/ "db" \in Faults /\ phase' = "draining" /\ UNCHANGED <<mu, connected>>
  /\ UNCHANGED <<nextRunner, boots, rows, box, told, req>>

\* FindAll.  The first row makes the loop call getRunnerByURL, which asks for the
\* read lock of the mutex Cleanup holds: no step leaves "stuck" but a kill.  With
\* no row the connections are closed; after an error they are left open.
CleanupFindAll ==
  /\ phase = "cleanup"
  /\ \/ /\ \E i \in Instances : row[i] # NoRow
        /\ phase' = "stuck"
        /\ UNCHANGED <<mu, connected>>
     \/ /\ \A i \in Instances : row[i] = NoRow
        /\ phase' = "draining"
        /\ mu' = "free"
        /\ connected' = FALSE
     \/ /\ "db" \in Faults
        /\ phase' = "draining"
        /\ mu' = "free"
        /\ UNCHANGED connected
  /\ UNCHANGED <<nextRunner, boots, rows, box, told, req>>

\* GracefulStop refuses new requests and returns when the last one has ended, a log
\* stream too.
GracefulStop ==
  /\ phase = "draining"
  /\ \A h \in Handlers : req[h] = Idle
  /\ phase' = "down"
  /\ UNCHANGED <<nextRunner, mu, connected, boots, rows, box, told, req>>

Kill ==
  /\ "kill" \in Faults
  /\ phase # "down"
  /\ phase' = "down"
  /\ mu' = "free"
  /\ req' = [h \in Handlers |-> Idle]
  /\ UNCHANGED <<nextRunner, connected, boots, rows, box, told>>

Boot ==
  /\ phase = "down"
  /\ boots < MaxBoots
  /\ boots' = boots + 1
  /\ phase' = "up"
  /\ connected' = TRUE
  /\ nextRunner' = 0
  /\ UNCHANGED <<mu, rows, box, told, req>>

ContainerExit(i) ==
  /\ "exit" \in Faults
  /\ box[i] = "running"
  /\ box' = [box EXCEPT ![i] = "exited"]
  /\ UNCHANGED <<nextRunner, process, rows, told, req>>

\* A request's own steps; to make one and to leave a log stream are the callers'.
Step(h) ==
  \/ SelectRunner(h) \/ RunnerStarts(h) \/ StartReply(h) \/ SaveRow(h)
  \/ \E op \in Ops \ {"start"} : FindByID(h, op) \/ GetRunnerByURL(h, op)
  \/ \E op \in Ops : CallFails(h, op)
  \/ RunnerStops(h) \/ StopReply(h) \/ StopUpdate(h)
  \/ RunnerDestroys(h) \/ DestroyReply(h) \/ DestroyDelete(h)
  \/ RunnerReports(h) \/ StatusReply(h) \/ StatusUpdate(h)
  \/ OpenLogs(h) \/ LogsEnd(h)

Caller(h) ==
  StartRequest(h) \/ LogsHangUp(h) \/ \E op \in Ops \ {"start"} : Target(h, op)

Next ==
  \/ \E h \in Handlers : Step(h) \/ Caller(h)
  \/ \E i \in Instances : ContainerExit(i)
  \/ CleanupLock \/ CleanupFindAll \/ GracefulStop \/ Kill \/ Boot

Spec == Init /\ [][Next]_vars

\* The Go scheduler runs every goroutine that can run, and the caller of a log stream
\* reads what it is sent; nothing forces a request, the end of a container or of a
\* caller's interest in its log, a signal, a kill or a restart.
FairSpec == /\ Spec
            /\ \A h \in Handlers : WF_vars(Step(h))
            /\ WF_vars(CleanupFindAll)
            /\ WF_vars(GracefulStop)

-----------------------------------------------------------------------------
(* Rows and containers *)

\* A row names a container that was started on the runner the row names: no row is
\* written for an instance whose runner answered anything but "success".
RowsNameContainers ==
  \A i \in Instances : row[i] # NoRow => box[i] \in {"running", "exited", "removed"}
                                         /\ at[i] \in Runners

\* A row that says "stopped" is right: no stale answer or update of another request
\* leaves it on a container that runs.
StoppedIsStopped == \A i \in Instances : row[i] = "stopped" => box[i] # "running"

\* The runners take turns: until the process is restarted, no runner was chosen two
\* times more often than another, whatever the requests' interleaving.
Picked(r) == Cardinality({i \in Instances : at[i] = r})
Balanced == boots = 1 => \A r, s \in Runners : Picked(r) <= Picked(s) + 1

InStart(i) == \E h \in Handlers :
  req[h].inst = i /\ (At(h, "start", "rpc") \/ At(h, "start", "reply") \/ At(h, "start", "save"))

\* A container no row names: no request can stop, destroy or find it again.
Orphan(i) == Exists(i) /\ row[i] = NoRow /\ ~InStart(i)

StartAnswerLost(h, i) == At(h, "start", "reply") /\ req[h].inst = i /\ req'[h] = Idle
InsertFails(h, i) == At(h, "start", "save") /\ req[h].inst = i /\ row'[i] = NoRow
Killed == phase # "down" /\ phase' = "down"

OrphanStep ==
  \A i \in Instances : ~Orphan(i) /\ Orphan(i)' =>
    Killed \/ \E h \in Handlers : StartAnswerLost(h, i) \/ InsertFails(h, i)

\* A container is orphaned only when its runner's answer says "failed" or is lost,
\* when the insert fails or when the process dies.  No destroy or stop, however
\* late or repeated, drops the row of a container that exists.
OrphanCauses == [][OrphanStep]_vars

InDestroy(i) == \E h \in Handlers :
  req[h].inst = i /\ (\/ At(h, "destroy", "reply") /\ req[h].reply = "success"
                  \/ At(h, "destroy", "delete"))

\* A row whose container is gone: DestroyInstance answers "failed" ever after.
Ghost(i) == row[i] # NoRow /\ box[i] = "removed" /\ ~InDestroy(i)

DestroyAnswerLost(h, i) == At(h, "destroy", "reply") /\ req[h].inst = i /\ req'[h] = Idle
DeleteFails(h, i) == At(h, "destroy", "delete") /\ req[h].inst = i /\ row'[i] # NoRow

GhostStep ==
  \A i \in Instances : ~Ghost(i) /\ Ghost(i)' =>
    Killed \/ \E h \in Handlers : DestroyAnswerLost(h, i) \/ DeleteFails(h, i)

\* A row outlives its container only when the answer to a destroy is lost, the
\* delete fails or the process dies.  An update of another request that comes after
\* the delete brings no row back.
GhostCauses == [][GhostStep]_vars

\* How far an instance is in the life Leases describes: a start counts when its row is
\* written or it has failed, and a row without a container is over.
LeaseOf(i) ==
  IF row[i] = NoRow /\ (box[i] = "none" \/ InStart(i)) THEN "none"
  ELSE IF row[i] = NoRow /\ Exists(i) THEN "lost"
  ELSE CASE box[i] = "running" -> "live"
         [] box[i] = "exited"  -> "ended"
         [] OTHER              -> "over"

Losing == {"start", "inspect", "rpc", "db", "kill", "sigterm"}
Life == INSTANCE Leases WITH
          Ids <- Instances,
          Lossy <- Faults \cap Losing # {},
          lease <- [i \in Instances |-> LeaseOf(i)]

\* The manager keeps the promise of Leases over every interleaving and failure: no id is
\* answered before its container was started, a container that has a row once is reached
\* by it until it has been removed, nothing comes back, and what is lost was lost at its
\* start.
KeepsLeases == Life!Spec

-----------------------------------------------------------------------------
(* Progress *)

\* A log stream that nothing on this side ends: its container runs and the connection
\* to the runner is open.
HeldOpen(h) ==
  At(h, "logs", "follow") /\ box[req[h].inst] = "running" /\ connected

\* Every request ends, unless Cleanup has locked itself out or the request follows the
\* log of a container that still runs: such a stream ends with the container.
AnsweredUnlessStuck ==
  \A h \in Handlers : req[h] # Idle ~> (req[h] = Idle \/ phase = "stuck" \/ HeldOpen(h))

\* A shutdown ends, unless Cleanup has locked itself out or someone follows the log of a
\* container that still runs - Cleanup has destroyed none and has left the connections
\* open when its query failed.  It ends once the last such stream has.
ShutdownUnlessStuck ==
  phase \in {"cleanup", "draining"} ~>
    (phase \in {"stuck", "down"} \/ \E h \in Handlers : HeldOpen(h))

\* What "// Graceful shutdown" in main.go promises: SIGTERM ends the process.
ShutdownCompletes == phase = "cleanup" ~> phase = "down"
=============================================================================
