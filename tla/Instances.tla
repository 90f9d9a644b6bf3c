------------------------------ MODULE Instances ------------------------------
(***************************************************************************)
(* ctf-server: the instances of the players (usecase/client_challenge.go). *)
(*                                                                         *)
(* The server keeps a table of its own beside the manager's.  A request    *)
(* reads the player's newest row for the challenge, calls the manager and  *)
(* writes the row, in separate steps and without a transaction; requests   *)
(* of one player run concurrently.  The manager is seen through its        *)
(* answers: module Manager has what it does with its rows and containers.  *)
(***************************************************************************)
EXTENDS Integers, FiniteSets

CONSTANTS
  Handlers,   \* requests served at the same time
  Pairs,      \* a player and a challenge: what a row is looked up by
  Ids,        \* instance ids the manager may return (bounds the model)
  Addresses,  \* host and port where an instance answers: the runner's ports, used again
  Faults      \* which outside failures can happen

\* "hosts": there are runners on several hosts, each of which names itself "localhost".
FaultKinds ==
  {"db", "start", "save", "rpc", "destroy", "inspect", "odd", "exit", "kill", "hosts"}

\* The kinds of values do not overlap.
ASSUME InstancesAssumption ==
  /\ Faults \subseteq FaultKinds
  /\ "none" \notin Pairs \cup Ids \cup Addresses
  /\ \A i \in Ids : i \notin {"running", "stopped", "unknown"}

VARIABLES
  row,      \* the instances table of ctf_server_db
  mgr,      \* what the manager and the runner have under an id
  owner,    \* for whom the id was started
  address,  \* the host and port its container was started with
  clock,    \* the time StartedAt is taken from
  req       \* what each handler is doing

manager == <<mgr, owner, address, clock>>
vars == <<row, manager, req>>

NoRow == [status |-> "none"]  \* a record, so that TLC can compare it with a row
None == "none"
Statuses == {"running", "stopped", "unknown"}
\* addr is the row's host and port, None for the port 0 of a container that ended
\* before the runner looked for its port.
Row == [pair : Pairs, status : Statuses, started : Nat, addr : Addresses \cup {None}]

\* The manager has no such id; row and running container; row and container that
\* ended; the same two without a row; row without container; neither any more.
ManagerStates == {"none", "live", "ended", "lost", "left", "ghost", "gone"}

Idle == [op |-> None, place |-> "idle", pair |-> None, id |-> None,
         copy |-> NoRow, new |-> None, at |-> 0]
Request == [op : {"start", "stop", "status"},
            place : {"find", "restart", "create", "update", "insert", "destroy",
                     "delete", "ask", "refresh"},
            pair : Pairs,
            id : Ids \cup {None},                 \* the row found
            copy : Row \cup {NoRow},              \* ... and what it said, for a status
            new : Ids \cup Statuses \cup {None},  \* what the manager answered
            at : Nat]                             \* when it did

\* Every variable has its type; no row ever has the status "destroyed".
TypeOK ==
  /\ row \in [Ids -> Row \cup {NoRow}]
  /\ mgr \in [Ids -> ManagerStates]
  /\ owner \in [Ids -> Pairs \cup {None}]
  /\ address \in [Ids -> Addresses \cup {None}]
  /\ clock \in Nat
  /\ req \in [Handlers -> Request \cup {Idle}]

Init ==
  /\ row = [i \in Ids |-> NoRow]
  /\ mgr = [i \in Ids |-> "none"]
  /\ owner = [i \in Ids |-> None]
  /\ address = [i \in Ids |-> None]
  /\ clock = 0
  /\ req = [h \in Handlers |-> Idle]

At(h, op, place) == req[h].op = op /\ req[h].place = place
Becomes(h, place, id, copy, new, at) ==
  req' = [req EXCEPT ![h] = [op |-> req[h].op, place |-> place, pair |-> req[h].pair,
                             id |-> id, copy |-> copy, new |-> new, at |-> at]]
GoTo(h, place) == Becomes(h, place, req[h].id, req[h].copy, req[h].new, req[h].at)
Takes(h, place, i, copy) == Becomes(h, place, i, copy, None, 0)
Answered(h, place, new, at) == Becomes(h, place, req[h].id, req[h].copy, new, at)
Finish(h) == req' = [req EXCEPT ![h] = Idle]

Begin(h, op) ==
  \E p \in Pairs :
    /\ req[h] = Idle
    /\ req' = [req EXCEPT ![h] = [op |-> op, place |-> "find", pair |-> p, id |-> None,
                                  copy |-> NoRow, new |-> None, at |-> 0]]
    /\ UNCHANGED <<row, manager>>

-----------------------------------------------------------------------------
(* The table *)

\* Mutant: the lookup forgets the player.
FindAnybody(p) ==
  {i \in Ids : row[i] # NoRow
                 /\ \A j \in Ids : row[j] # NoRow => row[j].started <= row[i].started}

\* FindByUserAndChallenge: ORDER BY started_at DESC LIMIT 1; of rows with the same
\* second any one comes first.
FindByUserAndChallenge(p) ==
  LET mine == {i \in Ids : row[i] # NoRow /\ row[i].pair = p} IN
  {i \in mine : \A j \in mine : row[j].started <= row[i].started}

\* Update writes the status and the host and port the request holds; a row that is
\* gone stays gone.
UpdateRow(i, status, addr) ==
  row' = [row EXCEPT ![i] =
            IF row[i] = NoRow THEN NoRow
            ELSE [pair |-> row[i].pair, status |-> status,
                  started |-> row[i].started, addr |-> addr]]

-----------------------------------------------------------------------------
(* The manager's side of a start *)

\* bound: a start is accepted while there is an id left for it
Starting == {h \in Handlers : req[h].op = "start" /\ req[h].new = None}
Fresh == {i \in Ids : mgr[i] = "none"}

Runs(i) == mgr[i] \in {"live", "lost"}
OrEnded(m, ended) == {m} \cup (IF "exit" \in Faults THEN {ended} ELSE {})

\* A container is started: Docker gives a port of its host to one running container at
\* a time, and to another when that one has ended.
Launch(i, m, p) ==
  /\ mgr' = [mgr EXCEPT ![i] = m]
  /\ owner' = [owner EXCEPT ![i] = p]
  /\ \E a \in Addresses \cup {None} :
       /\ address' = [address EXCEPT ![i] = a]
       /\ m \in {"live", "lost"} <=> a # None
       /\ "hosts" \in Faults \/ ~ \E k \in Ids : Runs(k) /\ address[k] = a

\* The manager starts an id for the request and answers, or fails.  It may have
\* lost its own row and still answer; its answer may be lost; it may have failed
\* after its runner started the container.
ManagerStarts(h, next) ==
  \/ \E i \in Fresh, t \in {clock, clock + 1},
        m \in OrEnded("live", "ended")
                \cup (IF "save" \in Faults THEN OrEnded("lost", "left") ELSE {}) :
       /\ Launch(i, m, req[h].pair)
       /\ clock' = t
       /\ Answered(h, next, i, t)
  \/ \E i \in Fresh,
        m \in (IF "rpc" \in Faults THEN OrEnded("live", "ended") ELSE {})
                \cup (IF "start" \in Faults THEN {"lost", "left"} ELSE {}) :
       /\ Launch(i, m, req[h].pair)
       /\ Finish(h)
       /\ UNCHANGED clock
  \/ Finish(h) /\ UNCHANGED manager

-----------------------------------------------------------------------------
(* StartInstance *)

StartRequest(h) ==
  /\ Cardinality(Starting) < Cardinality(Fresh)
  /\ Begin(h, "start")

\* Mutant: a running instance is not a reason to refuse.
StartFindNoRefusal(h) ==
  /\ At(h, "start", "find")
  /\ GoTo(h, "create")
  /\ UNCHANGED <<row, manager>>

\* A running row refuses the request and a stopped one is restarted.  No row, a row
\* of any other status and an error of the query all start a new instance.
StartFind(h) ==
  LET found == FindByUserAndChallenge(req[h].pair) IN
  /\ At(h, "start", "find")
  /\ \/ \E i \in found : row[i].status = "running" /\ Finish(h)
     \/ \E i \in found : row[i].status = "stopped" /\ Takes(h, "restart", i, NoRow)
     \/ /\ \/ found = {} \/ "db" \in Faults
           \/ \E i \in found : row[i].status = "unknown"
        /\ GoTo(h, "create")
  /\ UNCHANGED <<row, manager>>

\* A restart is a new start: the id the manager returns is dropped ...
Restart(h) ==
  /\ At(h, "start", "restart")
  /\ ManagerStarts(h, "update")
  /\ UNCHANGED row

\* ... and the old row gets the new instance's host and port.
RestartUpdate(h) ==
  /\ At(h, "start", "update")
  /\ \/ UpdateRow(req[h].id, "running", address[req[h].new])
     \/ "db" \in Faults /\ UNCHANGED row
  /\ Finish(h)
  /\ UNCHANGED manager

Create(h) ==
  /\ At(h, "start", "create")
  /\ ManagerStarts(h, "insert")
  /\ UNCHANGED row

\* The row is stamped with the time of the manager's answer.
CreateInsert(h) ==
  /\ At(h, "start", "insert")
  /\ \/ row' = [row EXCEPT ![req[h].new] =
                  [pair |-> req[h].pair, status |-> "running",
                   started |-> req[h].at, addr |-> address[req[h].new]]]
     \/ "db" \in Faults /\ UNCHANGED row
  /\ Finish(h)
  /\ UNCHANGED manager

-----------------------------------------------------------------------------
(* StopInstance *)

StopRequest(h) == Begin(h, "stop")

StopFind(h) ==
  LET found == FindByUserAndChallenge(req[h].pair) IN
  /\ At(h, "stop", "find")
  /\ \/ \E i \in found : row[i].status # "stopped" /\ Takes(h, "destroy", i, NoRow)
     \/ \E i \in found : row[i].status = "stopped" /\ Finish(h)
     \/ (found = {} \/ "db" \in Faults) /\ Finish(h)
  /\ UNCHANGED <<row, manager>>

\* Mutant: the row is dropped first, the manager is told afterwards.
StopDeletesFirst(h) ==
  LET i == req[h].id IN
  /\ At(h, "stop", "destroy")
  /\ row' = [row EXCEPT ![i] = NoRow]
  /\ mgr' = [mgr EXCEPT ![i] = IF @ \in {"live", "ended"} /\ "destroy" \notin Faults
                               THEN "gone" ELSE @]
  /\ Finish(h)
  /\ UNCHANGED <<owner, address, clock>>

\* The manager destroys what it has a row and a container for: it may fail, it may
\* keep its row, its answer may be lost.  The row is deleted only after "success".
StopDestroy(h) ==
  LET i == req[h].id IN
  /\ At(h, "stop", "destroy")
  /\ \/ /\ mgr[i] \in {"live", "ended"}
        /\ \E m \in {"gone", "ghost"} :
             /\ mgr' = [mgr EXCEPT ![i] = m]
             /\ \/ (m = "ghost" => "save" \in Faults) /\ GoTo(h, "delete")
                \/ "rpc" \in Faults /\ Finish(h)
     \/ /\ mgr[i] \notin {"live", "ended"} \/ "destroy" \in Faults
        /\ Finish(h)
        /\ UNCHANGED mgr
  /\ UNCHANGED <<row, owner, address, clock>>

DeleteRow(h) ==
  /\ \/ row' = [row EXCEPT ![req[h].id] = NoRow]
     \/ "db" \in Faults /\ UNCHANGED row
  /\ Finish(h)
  /\ UNCHANGED manager

StopDelete(h) == At(h, "stop", "delete") /\ DeleteRow(h)

-----------------------------------------------------------------------------
(* GetInstanceStatus *)

StatusRequest(h) == Begin(h, "status")

StatusFind(h) ==
  LET found == FindByUserAndChallenge(req[h].pair) IN
  /\ At(h, "status", "find")
  /\ \/ \E i \in found : Takes(h, "ask", i, row[i])
     \/ (found = {} \/ "db" \in Faults) /\ Finish(h)
  /\ UNCHANGED <<row, manager>>

\* What the manager says of an id: an id without a row and a container Docker
\* cannot inspect are "destroyed".
Reports(i) ==
  (CASE mgr[i] = "live"  -> {"running"} \cup (IF "odd" \in Faults THEN {"unknown"} ELSE {})
     [] mgr[i] = "ended" -> {"stopped"}
     [] OTHER            -> {"destroyed"})
  \cup (IF "inspect" \in Faults THEN {"destroyed"} ELSE {})

\* Mutant: "destroyed" is a status like any other.
StatusAskNoDestroyed(h) ==
  /\ At(h, "status", "ask")
  /\ \E s \in Reports(req[h].id) :
       Answered(h, "refresh", s, 0)
  /\ UNCHANGED <<row, manager>>

\* An error returns what the row says.
StatusAsk(h) ==
  /\ At(h, "status", "ask")
  /\ \/ \E s \in Reports(req[h].id) :
          CASE s = "destroyed" -> Takes(h, "delete", req[h].id, NoRow)
            [] s = req[h].copy.status -> Finish(h)
            [] OTHER -> Answered(h, "refresh", s, 0)
     \/ "rpc" \in Faults /\ Finish(h)
  /\ UNCHANGED <<row, manager>>

StatusDelete(h) == At(h, "status", "delete") /\ DeleteRow(h)

\* The new status is written with the host and port read at the start.
StatusUpdate(h) ==
  /\ At(h, "status", "refresh")
  /\ \/ UpdateRow(req[h].id, req[h].new, req[h].copy.addr)
     \/ "db" \in Faults /\ UNCHANGED row
  /\ Finish(h)
  /\ UNCHANGED manager

-----------------------------------------------------------------------------
(* The world around the server *)

\* The program in a container ends: its port is free, and nothing starts it again.
ContainerExit(i) ==
  /\ "exit" \in Faults
  /\ Runs(i)
  /\ mgr' = [mgr EXCEPT ![i] = IF @ = "live" THEN "ended" ELSE "left"]
  /\ UNCHANGED <<row, owner, address, clock, req>>

\* The server dies: every request is lost where it is.
Kill ==
  /\ "kill" \in Faults
  /\ \E h \in Handlers : req[h] # Idle
  /\ req' = [h \in Handlers |-> Idle]
  /\ UNCHANGED <<row, manager>>

StartInstance(h) == \/ StartRequest(h) \/ StartFind(h) \/ Restart(h) \/ RestartUpdate(h)
                    \/ Create(h) \/ CreateInsert(h)
StopInstance(h) == StopRequest(h) \/ StopFind(h) \/ StopDestroy(h) \/ StopDelete(h)
GetInstanceStatus(h) == \/ StatusRequest(h) \/ StatusFind(h) \/ StatusAsk(h)
                        \/ StatusDelete(h) \/ StatusUpdate(h)

Next ==
  \/ \E h \in Handlers : StartInstance(h) \/ StopInstance(h) \/ GetInstanceStatus(h)
  \/ \E i \in Ids : ContainerExit(i)
  \/ Kill

Spec == Init /\ [][Next]_vars

-----------------------------------------------------------------------------
(* Properties *)

\* An instance of the pair was started at the address.
StartedAt(p, a) == \E j \in Ids : owner[j] = p /\ address[j] = a

\* Somebody else's container answers at the address of a row, or of a copy of one.
Foreign(r) == \E k \in Ids : Runs(k) /\ address[k] = r.addr /\ owner[k] # r.pair

\* As long as the instance of a row runs, the row leads to it: it has the address the
\* instance was started with and, if all runners are on one host, nobody else answers
\* there.
LeadsHome(i, r) ==
  Runs(i) => /\ r.addr = address[i]
             /\ "hosts" \in Faults \/ ~Foreign(r)

\* A player acts on instances of their own only: a request never holds, and no row has,
\* an id or an address that was not started for that pair.  What a player is shown - the
\* row as the status request read it (client_challenge.go:201, 216) - is the address of
\* their own instance while that runs, whatever interleaves and fails between the
\* lookup, the manager's answer and the write.  A row that outlives its instance is
\* shown still, and the runner's port may by then be another player's.
OwnInstancesOnly ==
  /\ \A h \in Handlers :
       /\ req[h].id # None => owner[req[h].id] = req[h].pair
       /\ req[h].new \in Ids => owner[req[h].new] = req[h].pair
       /\ req[h].copy # NoRow => LeadsHome(req[h].id, req[h].copy)
  /\ \A i \in Ids : row[i] # NoRow =>
       /\ owner[i] = row[i].pair
       /\ StartedAt(row[i].pair, row[i].addr)
       /\ LeadsHome(i, row[i])

\* A container that no row leads to and no request is about to write a row for:
\* no call of any player can reach it again.
Stranded(i) ==
  /\ mgr[i] \in {"live", "ended", "lost", "left"}
  /\ row[i] = NoRow
  /\ ~ \E h \in Handlers : At(h, "start", "insert") /\ req[h].new = i

\* The ways a container is stranded are these: its start failed after the runner or
\* its answer was lost; a restart dropped its id (client_challenge.go:105); its insert
\* failed (143) or the server died before it; or a status request took a failed
\* inspection, or an id the manager has lost, for a destroyed instance (204).  In
\* particular StopInstance strands nothing.
StrandedStep ==
  \A i \in Ids : Stranded(i)' /\ ~Stranded(i) =>
    \/ mgr[i] = "none" /\ \E h \in Handlers :
         /\ req[h].place \in {"create", "restart"}
         /\ req'[h] = Idle \/ (At(h, "start", "restart") /\ req'[h].new = i)
    \/ \E h \in Handlers :
         /\ At(h, "start", "insert") /\ req[h].new = i
         /\ "db" \in Faults \/ "kill" \in Faults
    \/ /\ \E h \in Handlers : At(h, "status", "delete") /\ req[h].id = i
       /\ mgr[i] \in {"lost", "left"} \/ "inspect" \in Faults

StrandedCauses == [][StrandedStep]_vars

\* A player has one row for a challenge.  Module CalmInstances says when.
OneRowPerPair ==
  \A i, j \in Ids : row[i] # NoRow /\ row[j] # NoRow /\ row[i].pair = row[j].pair => i = j

\* "InstanceID string // same as manager InstanceID" (domain/instance.go:10): the id
\* of a row is the manager's id of the instance at the row's host and port.
SameAsManager ==
  \A i, k \in Ids : row[i] # NoRow /\ Runs(k) /\ address[k] = row[i].addr => k = i
=============================================================================
