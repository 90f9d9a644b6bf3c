--------------------------- MODULE InstancesProofs ---------------------------
(***************************************************************************)
(* Instances, for any number of requests, players, challenges and ids:     *)
(* every variable has its type, a player's requests and rows lead to       *)
(* instances of that player and to their container while it runs, a        *)
(* container is stranded in the listed ways only, and a pair whose         *)
(* requests take turns has one row.                                        *)
(***************************************************************************)
EXTENDS CalmInstances, TLAPS

\* A request is well formed, holds what its place uses, and all that it holds, the
\* copy of a row included, leads to instances of its own pair.
Good(r) ==
  /\ r \in Request \cup {Idle}
  /\ r # Idle => r.pair \in Pairs
  /\ r.place \in {"restart", "update", "destroy", "delete", "ask", "refresh"} => r.id \in Ids
  /\ r.place \in {"update", "insert"} => r.new \in Ids
  /\ r.place = "refresh" => r.new \in Statuses
  /\ r.place \in {"ask", "refresh"} => r.copy \in Row
  /\ r.id \in Ids => owner[r.id] = r.pair
  /\ r.new \in Ids => owner[r.new] = r.pair
  /\ r.copy \in Row =>
       r.id \in Ids /\ r.copy.pair = r.pair /\ StartedAt(r.pair, r.copy.addr)

GoodRow(i) ==
  row[i] \in Row => owner[i] = row[i].pair /\ StartedAt(row[i].pair, row[i].addr)

\* The inductive invariant.  An id the manager has not given out belongs to nobody:
\* nothing that is owned changes its owner or the address it was started at.
IInv ==
  /\ row \in [Ids -> Row \cup {NoRow}]
  /\ mgr \in [Ids -> ManagerStates]
  /\ owner \in [Ids -> Pairs \cup {None}]
  /\ address \in [Ids -> Addresses \cup {None}]
  /\ clock \in Nat
  /\ req = [h \in Handlers |-> req[h]]
  /\ \A h \in Handlers : Good(req[h])
  /\ \A i \in Ids : GoodRow(i)
  /\ \A i \in Ids : mgr[i] = "none" => owner[i] = None

OwnerGrows ==
  \A i \in Ids : owner[i] # None => owner'[i] = owner[i] /\ address'[i] = address[i]

LEMMA StartedStays ==
  ASSUME OwnerGrows, NEW p, NEW a, p # None, StartedAt(p, a)
  PROVE  \E j \in Ids : owner'[j] = p /\ address'[j] = a
BY DEF OwnerGrows, StartedAt

-----------------------------------------------------------------------------
(* The pieces the actions are made of *)

LEMMA RowsAreRows == \A r \in Row : r # NoRow
BY DEF Row, NoRow

LEMMA IdleGood == Good(Idle) /\ Good(Idle)'
BY InstancesAssumption, RowsAreRows DEF Good, Idle, None, Row, NoRow, Request

LEMMA InitInv == Init => IInv
BY InstancesAssumption, IdleGood, RowsAreRows DEF Init, IInv, GoodRow, ManagerStates

LEMMA InvTypes == IInv => TypeOK
BY DEF IInv, TypeOK, Good

\* One request changes: the others stay good while no owned id changes hands.
LEMMA OthersGood ==
  ASSUME IInv, OwnerGrows, NEW h \in Handlers, NEW r, Good(r)',
         req' = [req EXCEPT ![h] = r]
  PROVE  /\ req' = [g \in Handlers |-> req'[g]]
         /\ \A g \in Handlers : Good(req[g])'
<1>1. ASSUME NEW g \in Handlers, g # h
      PROVE  Good(req[g])'
  <2>1. req'[g] = req[g]
    BY <1>1 DEF IInv
  <2>2. Good(req[g])
    BY DEF IInv
  <2>3. req[g] = Idle \/ req[g].pair # None
    BY <2>2, InstancesAssumption DEF Good, None
  <2>4. CASE req[g] = Idle
    BY <2>1, <2>4, IdleGood
  <2>5. CASE req[g].pair # None
    <3>1. req[g].copy \in Row =>
            \E j \in Ids : owner'[j] = req[g].pair /\ address'[j] = req[g].copy.addr
      BY <2>2, <2>5, StartedStays DEF Good
    <3>2. /\ req[g].id \in Ids => owner'[req[g].id] = req[g].pair
          /\ req[g].new \in Ids => owner'[req[g].new] = req[g].pair
      BY <2>2, <2>5 DEF Good, OwnerGrows
    <3>3. QED
      BY <2>1, <2>2, <3>1, <3>2 DEF Good, StartedAt
  <2>6. QED
    BY <2>3, <2>4, <2>5
<1>2. Good(req[h])'
  <2>1. req'[h] = r
    BY DEF IInv
  <2>2. QED
    BY <2>1 DEF Good
<1>3. QED
  BY <1>1, <1>2 DEF IInv

\* The rows stay good while they stay what they are and no owned id changes hands.
LEMMA SameRowsGood ==
  ASSUME IInv, OwnerGrows, UNCHANGED row
  PROVE  \A i \in Ids : GoodRow(i)'
<1> TAKE i \in Ids
<1>1. CASE row[i] \in Row
  <2>1. row[i].pair # None /\ GoodRow(i)
    BY <1>1, InstancesAssumption DEF Row, None, IInv
  <2>2. \E j \in Ids : owner'[j] = row[i].pair /\ address'[j] = row[i].addr
    BY <1>1, <2>1, StartedStays DEF GoodRow
  <2>3. QED
    BY <1>1, <2>1, <2>2 DEF GoodRow, OwnerGrows, StartedAt
<1>2. CASE row[i] \notin Row
  BY <1>2 DEF GoodRow
<1>3. QED
  BY <1>1, <1>2

\* A step that touches one request only.
LEMMA RequestStep ==
  ASSUME IInv, NEW h \in Handlers, NEW r, Good(r), req' = [req EXCEPT ![h] = r],
         UNCHANGED <<row, manager>>
  PROVE  IInv'
<1>1. OwnerGrows /\ Good(r)'
  BY DEF OwnerGrows, Good, manager, StartedAt
<1>2. QED
  BY <1>1, OthersGood, SameRowsGood DEF IInv, manager

\* A request ends.
LEMMA FinishStep ==
  ASSUME IInv, NEW h \in Handlers, Finish(h), UNCHANGED <<row, manager>>
  PROVE  IInv'
BY IdleGood, RequestStep DEF Finish

\* A request at work has its place's fields.
LEMMA AtWork ==
  ASSUME IInv, NEW h \in Handlers, req[h].place # "idle"
  PROVE  /\ req[h] \in Request /\ req[h] # Idle /\ Good(req[h])
         /\ req[h].pair \in Pairs /\ req[h].pair # None
BY InstancesAssumption DEF IInv, Good, Idle, None

\* A request goes on with fields that fit its next place and are its pair's.
LEMMA BecomesGood ==
  ASSUME IInv, NEW h \in Handlers, req[h].place # "idle", OwnerGrows,
         NEW place \in {"find", "restart", "create", "update", "insert", "destroy",
                        "delete", "ask", "refresh"},
         NEW id \in Ids \cup {None}, NEW copy \in Row \cup {NoRow},
         NEW new \in Ids \cup Statuses \cup {None}, NEW at \in Nat,
         Becomes(h, place, id, copy, new, at),
         place \in {"restart", "update", "destroy", "delete", "ask", "refresh"} => id \in Ids,
         place \in {"update", "insert"} => new \in Ids,
         place = "refresh" => new \in Statuses,
         place \in {"ask", "refresh"} => copy \in Row,
         id \in Ids => owner'[id] = req[h].pair,
         new \in Ids => owner'[new] = req[h].pair,
         copy \in Row =>
           /\ id \in Ids /\ copy.pair = req[h].pair
           /\ \E j \in Ids : owner'[j] = req[h].pair /\ address'[j] = copy.addr
  PROVE  /\ req' = [g \in Handlers |-> req'[g]]
         /\ \A g \in Handlers : Good(req[g])'
<1>1. PICK r : r = [op |-> req[h].op, place |-> place, pair |-> req[h].pair,
                    id |-> id, copy |-> copy, new |-> new, at |-> at]
  OBVIOUS
<1>2. req[h] \in Request /\ req[h].pair \in Pairs
  BY AtWork
<1>3. r \in Request
  BY <1>1, <1>2 DEF Request
<1>4. Good(r)'
  BY <1>1, <1>2, <1>3 DEF Good, StartedAt
<1>5. req' = [req EXCEPT ![h] = r]
  BY <1>1 DEF Becomes
<1>6. QED
  BY <1>4, <1>5, OthersGood

\* ... and nothing else changes.
LEMMA GoStep ==
  ASSUME IInv, NEW h \in Handlers, req[h].place # "idle",
         UNCHANGED <<row, manager>>,
         req' = [g \in Handlers |-> req'[g]],
         \A g \in Handlers : Good(req[g])'
  PROVE  IInv'
<1>1. OwnerGrows
  BY DEF OwnerGrows, manager
<1>2. QED
  BY <1>1, SameRowsGood DEF IInv, manager

\* GoTo keeps the fields.
LEMMA GoToGood ==
  ASSUME IInv, NEW h \in Handlers, req[h].place # "idle", OwnerGrows,
         NEW place \in {"find", "restart", "create", "update", "insert", "destroy",
                        "delete", "ask", "refresh"},
         GoTo(h, place),
         place \in {"restart", "update", "destroy", "delete", "ask", "refresh"} =>
           req[h].id \in Ids,
         place \notin {"update", "insert", "ask", "refresh"}
  PROVE  /\ req' = [g \in Handlers |-> req'[g]]
         /\ \A g \in Handlers : Good(req[g])'
<1>1. req[h] \in Request /\ Good(req[h]) /\ req[h].pair # None
  BY AtWork
<1>2. /\ req[h].id \in Ids => owner'[req[h].id] = req[h].pair
      /\ req[h].new \in Ids => owner'[req[h].new] = req[h].pair
      /\ req[h].copy \in Row =>
           /\ req[h].id \in Ids /\ req[h].copy.pair = req[h].pair
           /\ \E j \in Ids : owner'[j] = req[h].pair /\ address'[j] = req[h].copy.addr
  BY <1>1, StartedStays DEF Good, OwnerGrows
<1>3. /\ req[h].id \in Ids \cup {None} /\ req[h].copy \in Row \cup {NoRow}
      /\ req[h].new \in Ids \cup Statuses \cup {None} /\ req[h].at \in Nat
  BY <1>1 DEF Request
<1>4. QED
  BY <1>2, <1>3, BecomesGood DEF GoTo

\* A request takes one of its pair's rows.
LEMMA TakesStep ==
  ASSUME IInv, NEW h \in Handlers, req[h].place # "idle",
         NEW place \in {"restart", "destroy", "ask"},
         NEW i \in FindByUserAndChallenge(req[h].pair), NEW copy, Takes(h, place, i, copy),
         copy = IF place = "ask" THEN row[i] ELSE NoRow, UNCHANGED <<row, manager>>
  PROVE  IInv'
<1>1. i \in Ids /\ row[i] \in Row /\ row[i].pair = req[h].pair
  BY DEF FindByUserAndChallenge, IInv
<1>2. /\ owner'[i] = req[h].pair
      /\ \E j \in Ids : owner'[j] = req[h].pair /\ address'[j] = row[i].addr
  BY <1>1 DEF IInv, GoodRow, StartedAt, manager
<1>3. OwnerGrows /\ copy \in Row \cup {NoRow} /\ (copy \in Row => copy = row[i])
  BY <1>1, RowsAreRows DEF OwnerGrows, manager
<1>4. None \notin Ids
  BY InstancesAssumption DEF None
<1>5. /\ req' = [g \in Handlers |-> req'[g]]
      /\ \A g \in Handlers : Good(req[g])'
  BY <1>1, <1>2, <1>3, <1>4, BecomesGood DEF Takes
<1>6. QED
  BY <1>5, GoStep

\* The manager gives a fresh id to the request's pair.
LEMMA OwnerStep ==
  ASSUME IInv, NEW h \in Handlers, req[h].place # "idle", NEW i \in Fresh,
         NEW m \in {"live", "ended", "lost", "left"}, Launch(i, m, req[h].pair)
  PROVE  /\ OwnerGrows /\ i \in Ids /\ owner'[i] = req[h].pair
         /\ mgr' \in [Ids -> ManagerStates]
         /\ owner' \in [Ids -> Pairs \cup {None}]
         /\ address' \in [Ids -> Addresses \cup {None}]
         /\ \A j \in Ids : mgr'[j] = "none" => owner'[j] = None
<1>1. i \in Ids /\ owner[i] = None /\ req[h].pair \in Pairs
  BY AtWork DEF Fresh, IInv
<1>2. QED
  BY <1>1 DEF IInv, OwnerGrows, ManagerStates, Launch

LEMMA LaunchStates ==
  \A m \in OrEnded("live", "ended") \cup OrEnded("lost", "left") \cup {"lost", "left"} :
    m \in {"live", "ended", "lost", "left"}
BY DEF OrEnded

LEMMA ManagerStartsStep ==
  ASSUME IInv, NEW h \in Handlers, NEW next,
         \/ next = "update" /\ At(h, "start", "restart")
         \/ next = "insert" /\ At(h, "start", "create"),
         ManagerStarts(h, next), UNCHANGED row
  PROVE  IInv'
<1>0. req[h].place # "idle"
  BY DEF At
<1>1. CASE Finish(h) /\ UNCHANGED manager
  BY <1>1, FinishStep
<1>2. ASSUME NEW i \in Fresh, NEW m \in {"live", "ended", "lost", "left"}, Finish(h),
             UNCHANGED clock, Launch(i, m, req[h].pair)
      PROVE  IInv'
  <2>1. OwnerGrows
    BY <1>0, <1>2, OwnerStep
  <2>2. /\ req' = [g \in Handlers |-> req'[g]]
        /\ \A g \in Handlers : Good(req[g])'
    BY <1>2, <2>1, IdleGood, OthersGood DEF Finish
  <2>3. QED
    BY <1>0, <1>2, <2>1, <2>2, OwnerStep, SameRowsGood DEF IInv
<1>3. ASSUME NEW i \in Fresh, NEW m \in {"live", "ended", "lost", "left"},
             NEW t \in {clock, clock + 1}, Launch(i, m, req[h].pair),
             clock' = t, Answered(h, next, i, t)
      PROVE  IInv'
  <2>0. t \in Nat
    BY <1>3 DEF IInv
  <2>1. OwnerGrows /\ i \in Ids /\ owner'[i] = req[h].pair /\ t \in Nat
    BY <1>0, <1>3, <2>0, OwnerStep
  <2>2. Good(req[h]) /\ req[h] \in Request /\ req[h].pair # None
    BY <1>0, AtWork
  <2>3. /\ req[h].id \in Ids \cup {None} /\ req[h].copy \in Row \cup {NoRow}
        /\ next = "update" => req[h].id \in Ids
        /\ req[h].id \in Ids => owner'[req[h].id] = req[h].pair
        /\ req[h].copy \in Row =>
             /\ req[h].id \in Ids /\ req[h].copy.pair = req[h].pair
             /\ \E j \in Ids : owner'[j] = req[h].pair /\ address'[j] = req[h].copy.addr
    BY <2>1, <2>2, StartedStays DEF Good, Request, OwnerGrows, At
  <2>4. /\ req' = [g \in Handlers |-> req'[g]]
        /\ \A g \in Handlers : Good(req[g])'
    <3>1. i \in Ids \cup Statuses \cup {None} /\ i \notin Statuses
      BY <2>1, InstancesAssumption DEF Statuses
    <3>2. Becomes(h, next, req[h].id, req[h].copy, i, t)
      BY <1>3 DEF Answered
    <3>3. CASE next = "update"
      BY <1>0, <2>1, <2>3, <3>1, <3>2, <3>3, BecomesGood
    <3>4. CASE next = "insert"
      BY <1>0, <2>1, <2>3, <3>1, <3>2, <3>4, BecomesGood
    <3>5. QED
      BY <3>3, <3>4
  <2>5. QED
    BY <1>0, <1>3, <2>1, <2>4, OwnerStep, SameRowsGood DEF IInv
<1>4. QED
  BY <1>1, <1>2, <1>3, LaunchStates DEF ManagerStarts

\* A row is written or deleted, and the request ends.
LEMMA RowStep ==
  ASSUME IInv, NEW h \in Handlers, NEW i \in Ids, NEW r \in Row \cup {NoRow},
         r \in Row => owner[i] = r.pair /\ StartedAt(r.pair, r.addr),
         row' = [row EXCEPT ![i] = r], Finish(h), UNCHANGED manager
  PROVE  IInv'
<1>1. OwnerGrows
  BY DEF OwnerGrows, manager
<1>2. row' \in [Ids -> Row \cup {NoRow}]
  BY DEF IInv
<1>3. /\ req' = [g \in Handlers |-> req'[g]]
      /\ \A g \in Handlers : Good(req[g])'
  BY <1>1, IdleGood, OthersGood DEF Finish
<1>4. ASSUME NEW j \in Ids PROVE GoodRow(j)'
  <2>1. CASE j = i
    BY <2>1 DEF IInv, GoodRow, StartedAt, manager
  <2>2. CASE j # i
    BY <2>2 DEF IInv, GoodRow, StartedAt, manager
  <2>3. QED
    BY <2>1, <2>2
<1>5. QED
  BY <1>2, <1>3, <1>4 DEF IInv, manager

LEMMA UpdateRowStep ==
  ASSUME IInv, NEW h \in Handlers, NEW i \in Ids, owner[i] = req[h].pair,
         NEW status \in Statuses, NEW addr \in Addresses \cup {None},
         StartedAt(req[h].pair, addr), UpdateRow(i, status, addr), Finish(h), UNCHANGED manager
  PROVE  IInv'
<1>1. CASE row[i] = NoRow
  BY <1>1, RowStep, RowsAreRows DEF UpdateRow
<1>2. CASE row[i] # NoRow
  <2>1. row[i] \in Row
    BY <1>2 DEF IInv
  <2>2. PICK r : r = [pair |-> row[i].pair, status |-> status,
                      started |-> row[i].started, addr |-> addr]
    OBVIOUS
  <2>3. r \in Row /\ r.addr = addr /\ r.pair = row[i].pair
    BY <2>1, <2>2 DEF Row
  <2>4. row[i].pair = req[h].pair
    BY <2>1 DEF IInv, GoodRow
  <2>5. row' = [row EXCEPT ![i] = r]
    BY <1>2, <2>2 DEF UpdateRow
  <2>6. QED
    BY <2>3, <2>4, <2>5, RowStep
<1>3. QED
  BY <1>1, <1>2

LEMMA DeleteRowStep ==
  ASSUME IInv, NEW h \in Handlers, req[h].place = "delete", DeleteRow(h)
  PROVE  IInv'
<1>1. req[h].id \in Ids
  BY AtWork DEF Good
<1>2. CASE UNCHANGED row
  BY <1>2, FinishStep DEF DeleteRow
<1>3. CASE row' = [row EXCEPT ![req[h].id] = NoRow]
  BY <1>1, <1>3, RowStep, RowsAreRows DEF DeleteRow
<1>4. QED
  BY <1>2, <1>3 DEF DeleteRow

\* A request comes.
LEMMA BeginStep ==
  ASSUME IInv, NEW h \in Handlers, NEW op \in {"start", "stop", "status"}, Begin(h, op)
  PROVE  IInv'
<1>1. PICK p \in Pairs :
        req' = [req EXCEPT ![h] = [op |-> op, place |-> "find", pair |-> p, id |-> None,
                                   copy |-> NoRow, new |-> None, at |-> 0]]
  BY DEF Begin
<1>2. PICK r : r = [op |-> op, place |-> "find", pair |-> p, id |-> None,
                    copy |-> NoRow, new |-> None, at |-> 0]
  OBVIOUS
<1>3. r \in Request
  BY <1>2 DEF Request
<1>4. Good(r)
  BY <1>2, <1>3, RowsAreRows, InstancesAssumption DEF Good, None
<1>5. req' = [req EXCEPT ![h] = r]
  BY <1>1, <1>2
<1>6. QED
  BY <1>4, <1>5, RequestStep DEF Begin

-----------------------------------------------------------------------------
(* The handlers *)

LEMMA StartInstanceStep ==
  ASSUME IInv, NEW h \in Handlers, StartInstance(h)
  PROVE  IInv'
<1>1. CASE StartRequest(h)
  BY <1>1, BeginStep DEF StartRequest
<1>2. CASE StartFind(h)
  <2>1. req[h].place # "idle" /\ UNCHANGED <<row, manager>>
    BY <1>2 DEF StartFind, At
  <2>2. CASE Finish(h)
    BY <2>1, <2>2, FinishStep
  <2>3. CASE \E i \in FindByUserAndChallenge(req[h].pair) : Takes(h, "restart", i, NoRow)
    BY <2>1, <2>3, TakesStep
  <2>4. CASE GoTo(h, "create")
    <3>1. OwnerGrows
      BY <2>1 DEF OwnerGrows, manager
    <3>2. QED
      BY <2>1, <2>4, <3>1, GoToGood, GoStep
  <2>5. QED
    BY <1>2, <2>2, <2>3, <2>4 DEF StartFind
<1>3. CASE Restart(h)
  BY <1>3, ManagerStartsStep DEF Restart
<1>4. CASE RestartUpdate(h)
  <2>1. /\ req[h].id \in Ids /\ req[h].new \in Ids
        /\ owner[req[h].id] = req[h].pair /\ owner[req[h].new] = req[h].pair
    BY <1>4, AtWork DEF RestartUpdate, At, Good
  <2>a. /\ address[req[h].new] \in Addresses \cup {None}
        /\ StartedAt(req[h].pair, address[req[h].new])
    BY <2>1 DEF IInv, StartedAt
  <2>2. CASE UNCHANGED row
    BY <1>4, <2>2, FinishStep DEF RestartUpdate
  <2>3. CASE UpdateRow(req[h].id, "running", address[req[h].new])
    BY <1>4, <2>1, <2>a, <2>3, UpdateRowStep DEF RestartUpdate, Statuses
  <2>4. QED
    BY <1>4, <2>2, <2>3 DEF RestartUpdate
<1>5. CASE Create(h)
  BY <1>5, ManagerStartsStep DEF Create
<1>6. CASE CreateInsert(h)
  <2>1. /\ req[h].new \in Ids /\ owner[req[h].new] = req[h].pair
        /\ req[h].pair \in Pairs /\ req[h].at \in Nat
    BY <1>6, AtWork DEF CreateInsert, At, Good, Request
  <2>2. CASE UNCHANGED row
    BY <1>6, <2>2, FinishStep DEF CreateInsert
  <2>3. CASE ~UNCHANGED row
    <3>1. PICK r : r = [pair |-> req[h].pair, status |-> "running",
                        started |-> req[h].at, addr |-> address[req[h].new]]
      OBVIOUS
    <3>2. r \in Row /\ r.pair = req[h].pair /\ StartedAt(r.pair, r.addr)
      BY <2>1, <3>1 DEF Row, Statuses, StartedAt, IInv
    <3>3. row' = [row EXCEPT ![req[h].new] = r]
      BY <1>6, <2>3, <3>1 DEF CreateInsert
    <3>4. QED
      BY <1>6, <2>1, <3>2, <3>3, RowStep DEF CreateInsert
  <2>4. QED
    BY <2>2, <2>3
<1>7. QED
  BY <1>1, <1>2, <1>3, <1>4, <1>5, <1>6 DEF StartInstance

LEMMA StopInstanceStep ==
  ASSUME IInv, NEW h \in Handlers, StopInstance(h)
  PROVE  IInv'
<1>1. CASE StopRequest(h)
  BY <1>1, BeginStep DEF StopRequest
<1>2. CASE StopFind(h)
  <2>1. req[h].place # "idle" /\ UNCHANGED <<row, manager>>
    BY <1>2 DEF StopFind, At
  <2>2. CASE Finish(h)
    BY <2>1, <2>2, FinishStep
  <2>3. CASE \E i \in FindByUserAndChallenge(req[h].pair) : Takes(h, "destroy", i, NoRow)
    BY <2>1, <2>3, TakesStep
  <2>4. QED
    BY <1>2, <2>2, <2>3 DEF StopFind
<1>3. CASE StopDestroy(h)
  <2>1. /\ req[h].place # "idle" /\ req[h].id \in Ids
        /\ UNCHANGED <<row, owner, address, clock>> /\ OwnerGrows
    BY <1>3, AtWork DEF StopDestroy, At, Good, OwnerGrows
  <2>2. /\ mgr' \in [Ids -> ManagerStates]
        /\ \A j \in Ids : mgr'[j] = "none" => owner'[j] = None
    BY <1>3, <2>1 DEF StopDestroy, IInv, ManagerStates
  <2>3. /\ req' = [g \in Handlers |-> req'[g]]
        /\ \A g \in Handlers : Good(req[g])'
    <3>1. CASE Finish(h)
      BY <2>1, <3>1, IdleGood, OthersGood DEF Finish
    <3>2. CASE GoTo(h, "delete")
      BY <2>1, <3>2, GoToGood
    <3>3. QED
      BY <1>3, <3>1, <3>2 DEF StopDestroy
  <2>4. QED
    BY <2>1, <2>2, <2>3, SameRowsGood DEF IInv
<1>4. CASE StopDelete(h)
  BY <1>4, DeleteRowStep DEF StopDelete, At
<1>5. QED
  BY <1>1, <1>2, <1>3, <1>4 DEF StopInstance

LEMMA GetInstanceStatusStep ==
  ASSUME IInv, NEW h \in Handlers, GetInstanceStatus(h)
  PROVE  IInv'
<1>1. CASE StatusRequest(h)
  BY <1>1, BeginStep DEF StatusRequest
<1>2. CASE StatusFind(h)
  <2>1. req[h].place # "idle" /\ UNCHANGED <<row, manager>>
    BY <1>2 DEF StatusFind, At
  <2>2. CASE Finish(h)
    BY <2>1, <2>2, FinishStep
  <2>3. CASE \E i \in FindByUserAndChallenge(req[h].pair) : Takes(h, "ask", i, row[i])
    BY <2>1, <2>3, TakesStep
  <2>4. QED
    BY <1>2, <2>2, <2>3 DEF StatusFind
<1>3. CASE StatusAsk(h)
  <2>1. /\ req[h].place # "idle" /\ UNCHANGED <<row, manager>>
        /\ req[h].place = "ask"
    BY <1>3 DEF StatusAsk, At
  <2>2. OwnerGrows
    BY <2>1 DEF OwnerGrows, manager
  <2>3. /\ req[h].id \in Ids /\ req[h].copy \in Row
        /\ owner'[req[h].id] = req[h].pair /\ req[h].copy.pair = req[h].pair
        /\ \E j \in Ids : owner'[j] = req[h].pair /\ address'[j] = req[h].copy.addr
    BY <2>1, AtWork DEF Good, manager, StartedAt
  <2>4. CASE Finish(h)
    BY <2>1, <2>4, FinishStep
  <2>5. CASE Takes(h, "delete", req[h].id, NoRow)
    <3>1. None \notin Ids
      BY InstancesAssumption DEF None
    <3>2. /\ req' = [g \in Handlers |-> req'[g]]
          /\ \A g \in Handlers : Good(req[g])'
      BY <2>1, <2>2, <2>3, <2>5, <3>1, RowsAreRows, BecomesGood DEF Takes
    <3>3. QED
      BY <2>1, <3>2, GoStep
  <2>6. ASSUME NEW s \in Statuses, Answered(h, "refresh", s, 0)
        PROVE  IInv'
    <3>1. s \notin Ids /\ s \in Ids \cup Statuses \cup {None}
      BY InstancesAssumption DEF Statuses
    <3>2. Becomes(h, "refresh", req[h].id, req[h].copy, s, 0)
      BY <2>6 DEF Answered
    <3>3. /\ req' = [g \in Handlers |-> req'[g]]
          /\ \A g \in Handlers : Good(req[g])'
      BY <2>1, <2>2, <2>3, <3>1, <3>2, BecomesGood
    <3>4. QED
      BY <2>1, <3>3, GoStep
  <2>7. Reports(req[h].id) \subseteq Statuses \cup {"destroyed"}
    BY DEF Reports, Statuses
  <2>8. QED
    BY <1>3, <2>4, <2>5, <2>6, <2>7 DEF StatusAsk
<1>4. CASE StatusDelete(h)
  BY <1>4, DeleteRowStep DEF StatusDelete, At
<1>5. CASE StatusUpdate(h)
  <2>1. /\ req[h].id \in Ids /\ req[h].new \in Statuses
        /\ req[h].copy.addr \in Addresses \cup {None}
        /\ owner[req[h].id] = req[h].pair /\ StartedAt(req[h].pair, req[h].copy.addr)
    BY <1>5, AtWork DEF StatusUpdate, At, Good, Row
  <2>2. CASE UNCHANGED row
    BY <1>5, <2>2, FinishStep DEF StatusUpdate
  <2>3. CASE UpdateRow(req[h].id, req[h].new, req[h].copy.addr)
    BY <1>5, <2>1, <2>3, UpdateRowStep DEF StatusUpdate
  <2>4. QED
    BY <1>5, <2>2, <2>3 DEF StatusUpdate
<1>6. QED
  BY <1>1, <1>2, <1>3, <1>4, <1>5 DEF GetInstanceStatus

-----------------------------------------------------------------------------
(* Every step *)

LEMMA NextInv == IInv /\ [Next]_vars => IInv'
<1> SUFFICES ASSUME IInv, [Next]_vars PROVE IInv'
  OBVIOUS
<1>1. CASE UNCHANGED vars
  BY <1>1 DEF vars, manager, IInv, Good, GoodRow, StartedAt
<1>2. ASSUME NEW i \in Ids, ContainerExit(i) PROVE IInv'
  <2>1. OwnerGrows
    BY <1>2 DEF ContainerExit, OwnerGrows
  <2>2. \A g \in Handlers : Good(req[g])'
    BY <1>2 DEF ContainerExit, IInv, Good, StartedAt
  <2>3. QED
    BY <1>2, <2>1, <2>2, SameRowsGood DEF ContainerExit, IInv, ManagerStates, Runs
<1>3. CASE Kill
  <2>1. OwnerGrows
    BY <1>3 DEF Kill, OwnerGrows, manager
  <2>2. \A g \in Handlers : Good(req[g])'
    BY <1>3, IdleGood DEF Kill
  <2>3. QED
    BY <1>3, <2>1, <2>2, SameRowsGood DEF Kill, IInv, manager
<1>4. QED
  BY <1>1, <1>2, <1>3, StartInstanceStep, StopInstanceStep, GetInstanceStatusStep DEF Next

THEOREM InvAlways == Spec => []IInv
BY InitInv, NextInv, PTL DEF Spec

\* Every variable has its type in every reachable state.
THEOREM InstancesTyped == Spec => []TypeOK
BY InvAlways, InvTypes, PTL

-----------------------------------------------------------------------------
(* The address of a row while its instance runs *)

\* A request's copy has the address of the instance it is of, and what the request is
\* about to write over is no longer running.
Leads(r) ==
  /\ r.copy # NoRow /\ Runs(r.id) => r.copy.addr = address[r.id]
  /\ r.place \in {"restart", "update"} => ~Runs(r.id)
  /\ r.place = "refresh" /\ r.new = "stopped" => ~Runs(r.id)

\* On one host, running containers have addresses of their own.
Apart ==
  /\ \A i \in Ids : Runs(i) => address[i] # None
  /\ "hosts" \in Faults \/ \A i, j \in Ids : Runs(i) /\ Runs(j) /\ address[i] = address[j] => i = j

RowLeads(i) ==
  row[i] # NoRow /\ Runs(i) => row[i].addr = address[i] /\ row[i].status # "stopped"

LInv ==
  /\ Apart
  /\ \A i \in Ids : RowLeads(i)
  /\ \A h \in Handlers : Leads(req[h])

\* An instance that somebody owns does not begin to run again, nor at another address.
EndsOnly ==
  \A i \in Ids : Runs(i)' /\ owner[i] # None => Runs(i) /\ address'[i] = address[i]

LEMMA Owned ==
  ASSUME IInv
  PROVE  /\ \A i \in Ids : row[i] # NoRow => owner[i] # None
         /\ \A h \in Handlers : req[h].id \in Ids => owner[req[h].id] # None
<1>1. ASSUME NEW i \in Ids, row[i] # NoRow PROVE owner[i] # None
  BY <1>1, InstancesAssumption DEF IInv, GoodRow, Row, None
<1>2. ASSUME NEW h \in Handlers, req[h].id \in Ids PROVE owner[req[h].id] # None
  <2>1. Good(req[h])
    BY DEF IInv
  <2>2. req[h] # Idle
    BY <1>2, InstancesAssumption DEF Idle, None
  <2>3. QED
    BY <1>2, <2>1, <2>2, InstancesAssumption DEF Good, None
<1>3. QED
  BY <1>1, <1>2

\* The invariants contain what the runs check.
LEMMA LeadsImplies == IInv /\ LInv => OwnInstancesOnly
<1> SUFFICES ASSUME IInv, LInv PROVE OwnInstancesOnly
  OBVIOUS
<1>1. ASSUME NEW i \in Ids, NEW r, Runs(i), r.addr = address[i], owner[i] = r.pair
      PROVE  LeadsHome(i, r)
  BY <1>1 DEF LeadsHome, Foreign, LInv, Apart
<1>2. ASSUME NEW h \in Handlers
      PROVE  /\ req[h].id # None => owner[req[h].id] = req[h].pair
             /\ req[h].new \in Ids => owner[req[h].new] = req[h].pair
             /\ req[h].copy # NoRow => LeadsHome(req[h].id, req[h].copy)
  <2>1. /\ Good(req[h]) /\ Leads(req[h])
        /\ req[h].id \in Ids \cup {None} /\ req[h].copy \in Row \cup {NoRow}
    BY DEF IInv, LInv, Good, Request, Idle
  <2>2. req[h].id # None => owner[req[h].id] = req[h].pair
    BY <2>1 DEF Good
  <2>3. CASE req[h].copy # NoRow /\ Runs(req[h].id)
    BY <1>1, <2>1, <2>3 DEF Good, Leads
  <2>4. CASE ~(req[h].copy # NoRow /\ Runs(req[h].id))
    BY <2>1, <2>2, <2>4 DEF Good, LeadsHome
  <2>5. QED
    BY <2>3, <2>4
<1>3. ASSUME NEW i \in Ids, row[i] # NoRow
      PROVE  /\ owner[i] = row[i].pair /\ StartedAt(row[i].pair, row[i].addr)
             /\ LeadsHome(i, row[i])
  <2>1. owner[i] = row[i].pair /\ StartedAt(row[i].pair, row[i].addr) /\ RowLeads(i)
    BY <1>3 DEF IInv, GoodRow, LInv
  <2>2. CASE Runs(i)
    BY <1>1, <1>3, <2>1, <2>2 DEF RowLeads
  <2>3. CASE ~Runs(i)
    BY <2>1, <2>3 DEF LeadsHome
  <2>4. QED
    BY <2>1, <2>2, <2>3
<1>4. QED
  BY <1>2, <1>3 DEF OwnInstancesOnly

\* What a request says of an owned instance stays true.
LEMMA LeadsOn ==
  ASSUME EndsOnly, NEW r, Leads(r),
         \/ r.id \in Ids /\ owner[r.id] # None
         \/ r.copy = NoRow /\ r.place \notin {"restart", "update", "refresh"}
  PROVE  Leads(r)'
BY DEF EndsOnly, Leads, Runs

LEMMA IdleLeads ==
  /\ Leads(Idle) /\ Idle.copy = NoRow
  /\ Idle.place \notin {"restart", "update", "refresh", "delete"}
BY DEF Leads, Idle

\* One request goes on as r.
LEMMA LeadsAll ==
  ASSUME IInv, LInv, EndsOnly, NEW h \in Handlers, NEW r, req' = [req EXCEPT ![h] = r],
         Leads(r),
         \/ r.id \in Ids /\ owner[r.id] # None
         \/ r.copy = NoRow /\ r.place \notin {"restart", "update", "refresh"}
  PROVE  \A g \in Handlers : Leads(req[g])'
<1> TAKE g \in Handlers
<1>1. CASE g = h
  <2>1. req'[g] = r
    BY <1>1 DEF IInv
  <2>2. Leads(r)'
    BY LeadsOn
  <2>3. QED
    BY <2>1, <2>2 DEF Leads
<1>2. CASE g # h
  <2>1. req'[g] = req[g] /\ Leads(req[g])
    BY <1>2 DEF IInv, LInv
  <2>2. \/ req[g].id \in Ids /\ owner[req[g].id] # None
        \/ req[g].copy = NoRow /\ req[g].place \notin {"restart", "update", "refresh"}
    BY Owned DEF IInv, Good, Request, Idle
  <2>3. QED
    BY <2>1, <2>2 DEF EndsOnly, Leads, Runs
<1>3. QED
  BY <1>1, <1>2

\* No container is started.
LEMMA ApartOn ==
  ASSUME Apart, UNCHANGED address, \A i \in Ids : Runs(i)' => Runs(i)
  PROVE  Apart' /\ EndsOnly
BY DEF Apart, EndsOnly

LEMMA RowsLeadOn ==
  ASSUME IInv, LInv, EndsOnly, UNCHANGED row
  PROVE  \A i \in Ids : RowLeads(i)'
BY Owned DEF RowLeads, LInv, EndsOnly

\* A request goes on beside the same rows and containers.
LEMMA LeadsGo ==
  ASSUME IInv, LInv, UNCHANGED <<row, manager>>,
         NEW h \in Handlers, NEW r, req' = [req EXCEPT ![h] = r], Leads(r),
         \/ r.id \in Ids /\ owner[r.id] # None
         \/ r.copy = NoRow /\ r.place \notin {"restart", "update", "refresh"}
  PROVE  LInv'
<1>1. UNCHANGED <<address, row>> /\ \A i : Runs(i)' <=> Runs(i)
  BY DEF manager, Runs
<1>2. Apart' /\ EndsOnly
  BY <1>1, ApartOn DEF LInv
<1>3. QED
  BY <1>1, <1>2, LeadsAll, RowsLeadOn DEF LInv

LEMMA LeadsFinish ==
  ASSUME IInv, LInv, UNCHANGED <<row, manager>>, NEW h \in Handlers, Finish(h)
  PROVE  LInv'
BY IdleLeads, LeadsGo DEF Finish

LEMMA LeadsMove ==
  ASSUME IInv, LInv, UNCHANGED <<row, manager>>, NEW h \in Handlers,
         NEW place, NEW id, NEW copy, NEW new, NEW at,
         Becomes(h, place, id, copy, new, at),
         copy # NoRow /\ Runs(id) => copy.addr = address[id],
         place \in {"restart", "update"} => ~Runs(id),
         place = "refresh" /\ new = "stopped" => ~Runs(id),
         \/ id \in Ids /\ owner[id] # None
         \/ copy = NoRow /\ place \notin {"restart", "update", "refresh"}
  PROVE  LInv'
<1>1. PICK r : r = [op |-> req[h].op, place |-> place, pair |-> req[h].pair,
                    id |-> id, copy |-> copy, new |-> new, at |-> at]
  OBVIOUS
<1>2. r.place = place /\ r.id = id /\ r.copy = copy /\ r.new = new
  BY <1>1
<1>3. req' = [req EXCEPT ![h] = r] /\ Leads(r)
  BY <1>1, <1>2 DEF Becomes, Leads
<1>4. QED
  BY <1>2, <1>3, LeadsGo

LEMMA LeadsBegin ==
  ASSUME IInv, LInv, NEW h \in Handlers, NEW op, Begin(h, op)
  PROVE  LInv'
<1>1. PICK p \in Pairs :
        req' = [req EXCEPT ![h] = [op |-> op, place |-> "find", pair |-> p, id |-> None,
                                   copy |-> NoRow, new |-> None, at |-> 0]]
  BY DEF Begin
<1>2. PICK r : r = [op |-> op, place |-> "find", pair |-> p, id |-> None,
                    copy |-> NoRow, new |-> None, at |-> 0]
  OBVIOUS
<1>3. r.copy = NoRow /\ r.place = "find" /\ req' = [req EXCEPT ![h] = r]
  BY <1>1, <1>2
<1>4. Leads(r) /\ UNCHANGED <<row, manager>>
  BY <1>3 DEF Leads, Begin
<1>5. QED
  BY <1>3, <1>4, LeadsGo

\* A request without a copy stays where it is or goes on to a place that writes over
\* nothing that runs.
LEMMA GoToLeads ==
  ASSUME IInv, LInv, UNCHANGED <<row, manager>>, NEW h \in Handlers, NEW place,
         place \notin {"restart", "update", "refresh"}, GoTo(h, place)
  PROVE  LInv'
<1>1. /\ req[h].copy # NoRow /\ Runs(req[h].id) => req[h].copy.addr = address[req[h].id]
      /\ req[h].copy # NoRow => req[h].id \in Ids /\ owner[req[h].id] # None
  BY Owned DEF LInv, Leads, IInv, Good, Request, Idle
<1>2. QED
  BY <1>1, LeadsMove DEF GoTo

\* A container is started under a fresh id.
LEMMA LaunchApart ==
  ASSUME IInv, Apart, NEW i \in Fresh, NEW m, NEW p, Launch(i, m, p)
  PROVE  Apart' /\ EndsOnly
<1>1. PICK a \in Addresses \cup {None} :
        /\ address' = [address EXCEPT ![i] = a]
        /\ m \in {"live", "lost"} <=> a # None
        /\ "hosts" \in Faults \/ ~ \E k \in Ids : Runs(k) /\ address[k] = a
  BY DEF Launch
<1>2. /\ i \in Ids /\ owner[i] = None
      /\ mgr' = [mgr EXCEPT ![i] = m]
      /\ mgr \in [Ids -> ManagerStates] /\ address \in [Ids -> Addresses \cup {None}]
  BY DEF Fresh, IInv, Launch
<1>3. /\ Runs(i)' => m \in {"live", "lost"}
      /\ address'[i] = a
      /\ \A j \in Ids : j # i => (Runs(j)' <=> Runs(j)) /\ address'[j] = address[j]
  BY <1>1, <1>2 DEF Runs
<1>4. EndsOnly
  BY <1>2, <1>3 DEF EndsOnly
<1>5. \A j \in Ids : Runs(j)' => address'[j] # None
  BY <1>1, <1>3 DEF Apart
<1>6. ASSUME "hosts" \notin Faults, NEW j \in Ids, NEW k \in Ids,
             Runs(j)', Runs(k)', address'[j] = address'[k]
      PROVE  j = k
  BY <1>1, <1>3, <1>6 DEF Apart
<1>7. Apart'
  BY <1>5, <1>6 DEF Apart
<1>8. QED
  BY <1>4, <1>7

LEMMA StartsLead ==
  ASSUME IInv, LInv, NEW h \in Handlers, NEW next \in {"update", "insert"},
         next = "update" => At(h, "start", "restart"), ManagerStarts(h, next), UNCHANGED row
  PROVE  LInv'
<1>1. CASE Finish(h) /\ UNCHANGED manager
  BY <1>1, LeadsFinish
<1>2. ASSUME NEW i \in Fresh, NEW m, NEW p, Launch(i, m, p), Finish(h) PROVE LInv'
  <2>1. Apart' /\ EndsOnly
    BY <1>2, LaunchApart DEF LInv
  <2>2. QED
    BY <1>2, <2>1, IdleLeads, LeadsAll, RowsLeadOn DEF LInv, Finish
<1>3. ASSUME NEW i \in Fresh, NEW m, NEW p, Launch(i, m, p), NEW t, Answered(h, next, i, t)
      PROVE  LInv'
  <2>1. Apart' /\ EndsOnly
    BY <1>3, LaunchApart DEF LInv
  <2>2. PICK r : r = [op |-> req[h].op, place |-> next, pair |-> req[h].pair,
                      id |-> req[h].id, copy |-> req[h].copy, new |-> i, at |-> t]
    OBVIOUS
  <2>3. /\ r.place = next /\ r.id = req[h].id /\ r.copy = req[h].copy
        /\ req' = [req EXCEPT ![h] = r]
    BY <1>3, <2>2 DEF Answered, Becomes
  <2>4. Good(req[h]) /\ Leads(req[h]) /\ req[h].copy \in Row \cup {NoRow}
    BY DEF IInv, LInv, Good, Request, Idle
  <2>5. next = "update" => req[h].id \in Ids /\ ~Runs(req[h].id)
    BY <2>4 DEF At, Good, Leads
  <2>6. /\ Leads(r)
        /\ \/ r.id \in Ids /\ owner[r.id] # None
           \/ r.copy = NoRow /\ r.place \notin {"restart", "update", "refresh"}
    BY <2>3, <2>4, <2>5, Owned DEF Leads, Good
  <2>7. \A g \in Handlers : Leads(req[g])'
    BY <2>1, <2>3, <2>6, LeadsAll
  <2>8. QED
    BY <2>1, <2>7, RowsLeadOn DEF LInv
<1>4. QED
  BY <1>1, <1>2, <1>3 DEF ManagerStarts

\* A row is written, and the request ends.
LEMMA LeadsWrite ==
  ASSUME IInv, LInv, UNCHANGED manager, NEW h \in Handlers, Finish(h),
         NEW i \in Ids, NEW r, row' = [row EXCEPT ![i] = r],
         r # NoRow /\ Runs(i) => r.addr = address[i] /\ r.status # "stopped"
  PROVE  LInv'
<1>1. UNCHANGED address /\ \A j : Runs(j)' <=> Runs(j)
  BY DEF manager, Runs
<1>2. Apart' /\ EndsOnly
  BY <1>1, ApartOn DEF LInv
<1>3. \A g \in Handlers : Leads(req[g])'
  BY <1>2, IdleLeads, LeadsAll DEF Finish
<1>4. ASSUME NEW j \in Ids PROVE RowLeads(j)'
  <2>1. CASE j = i
    BY <1>1, <2>1 DEF RowLeads, IInv
  <2>2. CASE j # i
    BY <1>1, <2>2 DEF RowLeads, IInv, LInv
  <2>3. QED
    BY <2>1, <2>2
<1>5. QED
  BY <1>2, <1>3, <1>4 DEF LInv

LEMMA LeadsUpdate ==
  ASSUME IInv, LInv, UNCHANGED manager, NEW h \in Handlers, Finish(h),
         NEW i \in Ids, NEW status, NEW addr, UpdateRow(i, status, addr),
         Runs(i) => addr = address[i] /\ status # "stopped"
  PROVE  LInv'
<1>1. PICK r : r = IF row[i] = NoRow THEN NoRow
                   ELSE [pair |-> row[i].pair, status |-> status,
                         started |-> row[i].started, addr |-> addr]
  OBVIOUS
<1>2. r # NoRow => r.addr = addr /\ r.status = status
  BY <1>1
<1>3. row' = [row EXCEPT ![i] = r]
  BY <1>1 DEF UpdateRow
<1>4. QED
  BY <1>2, <1>3, LeadsWrite

LEMMA DeleteLeads ==
  ASSUME IInv, LInv, NEW h \in Handlers, req[h].place = "delete", DeleteRow(h)
  PROVE  LInv'
<1>1. req[h].id \in Ids
  BY AtWork DEF Good
<1>2. CASE UNCHANGED row
  BY <1>2, LeadsFinish DEF DeleteRow
<1>3. CASE row' = [row EXCEPT ![req[h].id] = NoRow]
  BY <1>1, <1>3, LeadsWrite DEF DeleteRow
<1>4. QED
  BY <1>2, <1>3 DEF DeleteRow

LEMMA FoundRow ==
  ASSUME IInv, NEW p, NEW i \in FindByUserAndChallenge(p)
  PROVE  i \in Ids /\ row[i] # NoRow /\ owner[i] # None
BY Owned DEF FindByUserAndChallenge

LEMMA StartLeads ==
  ASSUME IInv, LInv, NEW h \in Handlers, StartInstance(h)
  PROVE  LInv'
<1>1. CASE StartRequest(h)
  BY <1>1, LeadsBegin DEF StartRequest
<1>2. CASE StartFind(h)
  <2>1. UNCHANGED <<row, manager>>
    BY <1>2 DEF StartFind
  <2>2. CASE Finish(h)
    BY <2>1, <2>2, LeadsFinish
  <2>3. ASSUME NEW i \in FindByUserAndChallenge(req[h].pair), row[i].status = "stopped",
               Takes(h, "restart", i, NoRow)
        PROVE  LInv'
    <3>1. ~Runs(i) /\ i \in Ids /\ owner[i] # None
      BY <2>3, FoundRow DEF LInv, RowLeads
    <3>2. QED
      BY <2>1, <2>3, <3>1, LeadsMove DEF Takes
  <2>4. CASE GoTo(h, "create")
    BY <2>1, <2>4, GoToLeads
  <2>5. QED
    BY <1>2, <2>2, <2>3, <2>4 DEF StartFind
<1>3. CASE Restart(h) \/ Create(h)
  BY <1>3, StartsLead DEF Restart, Create
<1>4. CASE RestartUpdate(h)
  <2>1. req[h].id \in Ids /\ ~Runs(req[h].id)
    BY <1>4 DEF RestartUpdate, At, IInv, Good, LInv, Leads
  <2>2. CASE UNCHANGED row
    BY <1>4, <2>2, LeadsFinish DEF RestartUpdate
  <2>3. CASE UpdateRow(req[h].id, "running", address[req[h].new])
    BY <1>4, <2>1, <2>3, LeadsUpdate DEF RestartUpdate
  <2>4. QED
    BY <1>4, <2>2, <2>3 DEF RestartUpdate
<1>5. CASE CreateInsert(h)
  <2>1. PICK r : r = [pair |-> req[h].pair, status |-> "running",
                      started |-> req[h].at, addr |-> address[req[h].new]]
    OBVIOUS
  <2>2. /\ r.status # "stopped" /\ r.addr = address[req[h].new]
        /\ req[h].new \in Ids
    BY <1>5, <2>1 DEF CreateInsert, At, IInv, Good
  <2>3. CASE UNCHANGED row
    BY <1>5, <2>3, LeadsFinish DEF CreateInsert
  <2>4. CASE row' = [row EXCEPT ![req[h].new] = r]
    BY <1>5, <2>2, <2>4, LeadsWrite DEF CreateInsert
  <2>5. QED
    BY <1>5, <2>1, <2>3, <2>4 DEF CreateInsert
<1>6. QED
  BY <1>1, <1>2, <1>3, <1>4, <1>5 DEF StartInstance

LEMMA StopLeads ==
  ASSUME IInv, LInv, NEW h \in Handlers, StopInstance(h)
  PROVE  LInv'
<1>1. CASE StopRequest(h)
  BY <1>1, LeadsBegin DEF StopRequest
<1>2. CASE StopFind(h)
  <2>1. UNCHANGED <<row, manager>>
    BY <1>2 DEF StopFind
  <2>2. CASE Finish(h)
    BY <2>1, <2>2, LeadsFinish
  <2>3. ASSUME NEW i, Takes(h, "destroy", i, NoRow)
        PROVE  LInv'
    BY <2>1, <2>3, LeadsMove DEF Takes
  <2>4. QED
    BY <1>2, <2>2, <2>3 DEF StopFind
<1>3. CASE StopDestroy(h)
  <2>1. /\ Good(req[h]) /\ Leads(req[h]) /\ req[h].place = "destroy"
        /\ req[h].id \in Ids /\ owner[req[h].id] # None /\ UNCHANGED <<row, address>>
    BY <1>3, Owned DEF StopDestroy, At, IInv, Good, LInv
  <2>2. \A i \in Ids : Runs(i)' => Runs(i)
    BY <1>3 DEF StopDestroy, Runs, IInv
  <2>3. Apart' /\ EndsOnly
    BY <2>1, <2>2, ApartOn DEF LInv
  <2>4. CASE Finish(h)
    BY <2>1, <2>3, <2>4, IdleLeads, LeadsAll, RowsLeadOn DEF LInv, Finish
  <2>5. CASE GoTo(h, "delete")
    <3>1. PICK r : r = [op |-> req[h].op, place |-> "delete", pair |-> req[h].pair,
                        id |-> req[h].id, copy |-> req[h].copy, new |-> req[h].new,
                        at |-> req[h].at]
      OBVIOUS
    <3>2. /\ req' = [req EXCEPT ![h] = r] /\ r.id = req[h].id
          /\ r.place = "delete" /\ r.copy = req[h].copy
      BY <2>5, <3>1 DEF GoTo, Becomes
    <3>3. Leads(r)
      BY <2>1, <3>2 DEF Leads
    <3>4. \A g \in Handlers : Leads(req[g])'
      BY <2>1, <2>3, <3>2, <3>3, LeadsAll
    <3>5. QED
      BY <2>1, <2>3, <3>4, RowsLeadOn DEF LInv
  <2>6. QED
    BY <1>3, <2>4, <2>5 DEF StopDestroy
<1>4. CASE StopDelete(h)
  BY <1>4, DeleteLeads DEF StopDelete, At
<1>5. QED
  BY <1>1, <1>2, <1>3, <1>4 DEF StopInstance

LEMMA StatusLeads ==
  ASSUME IInv, LInv, NEW h \in Handlers, GetInstanceStatus(h)
  PROVE  LInv'
<1>1. CASE StatusRequest(h)
  BY <1>1, LeadsBegin DEF StatusRequest
<1>2. CASE StatusFind(h)
  <2>1. UNCHANGED <<row, manager>>
    BY <1>2 DEF StatusFind
  <2>2. CASE Finish(h)
    BY <2>1, <2>2, LeadsFinish
  <2>3. ASSUME NEW i \in FindByUserAndChallenge(req[h].pair), Takes(h, "ask", i, row[i])
        PROVE  LInv'
    <3>1. /\ i \in Ids /\ owner[i] # None
          /\ Runs(i) => row[i].addr = address[i]
      BY <2>3, FoundRow DEF LInv, RowLeads
    <3>2. QED
      BY <2>1, <2>3, <3>1, LeadsMove DEF Takes
  <2>4. QED
    BY <1>2, <2>2, <2>3 DEF StatusFind
<1>3. CASE StatusAsk(h)
  <2>1. /\ UNCHANGED <<row, manager>> /\ req[h].id \in Ids /\ owner[req[h].id] # None
        /\ Runs(req[h].id) => req[h].copy.addr = address[req[h].id]
    <3>1. Good(req[h]) /\ Leads(req[h]) /\ req[h].place = "ask"
      BY <1>3 DEF StatusAsk, At, IInv, LInv
    <3>2. QED
      BY <1>3, <3>1, Owned, RowsAreRows DEF StatusAsk, Good, Leads
  <2>2. CASE Finish(h)
    BY <2>1, <2>2, LeadsFinish
  <2>3. CASE Takes(h, "delete", req[h].id, NoRow)
    BY <2>1, <2>3, LeadsMove DEF Takes
  <2>4. ASSUME NEW s \in Reports(req[h].id), Answered(h, "refresh", s, 0)
        PROVE  LInv'
    <3>1. s = "stopped" => ~Runs(req[h].id)
      BY <2>4 DEF Reports, Runs
    <3>2. QED
      BY <2>1, <2>4, <3>1, LeadsMove DEF Answered
  <2>5. QED
    BY <1>3, <2>2, <2>3, <2>4 DEF StatusAsk
<1>4. CASE StatusDelete(h)
  BY <1>4, DeleteLeads DEF StatusDelete, At
<1>5. CASE StatusUpdate(h)
  <2>1. Good(req[h]) /\ Leads(req[h]) /\ req[h].place = "refresh"
    BY <1>5 DEF StatusUpdate, At, IInv, LInv
  <2>2. /\ req[h].id \in Ids
        /\ Runs(req[h].id) => req[h].copy.addr = address[req[h].id] /\ req[h].new # "stopped"
    BY <2>1, RowsAreRows DEF Good, Leads
  <2>3. CASE UNCHANGED row
    BY <1>5, <2>3, LeadsFinish DEF StatusUpdate
  <2>4. CASE UpdateRow(req[h].id, req[h].new, req[h].copy.addr)
    BY <1>5, <2>2, <2>4, LeadsUpdate DEF StatusUpdate
  <2>5. QED
    BY <1>5, <2>3, <2>4 DEF StatusUpdate
<1>6. QED
  BY <1>1, <1>2, <1>3, <1>4, <1>5 DEF GetInstanceStatus

LEMMA LeadsNext == IInv /\ LInv /\ [Next]_vars => LInv'
<1> SUFFICES ASSUME IInv, LInv, [Next]_vars PROVE LInv'
  OBVIOUS
<1>1. CASE UNCHANGED vars
  <2>1. UNCHANGED <<row, mgr, owner, address, req>>
    BY <1>1 DEF vars, manager
  <2>2. QED
    BY <2>1 DEF LInv, Apart, RowLeads, Leads, Runs
<1>2. ASSUME NEW i \in Ids, ContainerExit(i) PROVE LInv'
  <2>1. UNCHANGED <<row, address, req>> /\ \A j \in Ids : Runs(j)' => Runs(j)
    BY <1>2 DEF ContainerExit, Runs, IInv
  <2>2. Apart' /\ EndsOnly
    BY <2>1, ApartOn DEF LInv
  <2>3. ASSUME NEW g \in Handlers PROVE Leads(req[g])'
    <3>1. \/ req[g].id \in Ids /\ owner[req[g].id] # None
          \/ req[g].copy = NoRow /\ req[g].place \notin {"restart", "update", "refresh"}
      BY Owned DEF IInv, Good, Request, Idle
    <3>2. QED
      BY <2>1, <2>2, <3>1 DEF LInv, EndsOnly, Leads, Runs
  <2>4. QED
    BY <2>1, <2>2, <2>3, RowsLeadOn DEF LInv
<1>3. CASE Kill
  <2>1. UNCHANGED <<row, address>> /\ \A i : Runs(i)' <=> Runs(i)
    BY <1>3 DEF Kill, manager, Runs
  <2>2. Apart' /\ EndsOnly
    BY <2>1, ApartOn DEF LInv
  <2>3. \A g \in Handlers : Leads(req[g])'
    BY <1>3, IdleLeads DEF Kill, Leads
  <2>4. QED
    BY <2>1, <2>2, <2>3, RowsLeadOn DEF LInv
<1>4. QED
  BY <1>1, <1>2, <1>3, StartLeads, StopLeads, StatusLeads DEF Next

\* Whatever interleaves and fails, a player's requests and rows are about instances that
\* were started for that player and challenge, and a row, or the copy of one that is
\* shown, leads to its instance as long as that runs, on one host to nobody else's.
THEOREM OwnInstancesAlways == Spec => []OwnInstancesOnly
<1>1. Init => LInv
  BY IdleLeads DEF Init, LInv, Apart, RowLeads, Leads, Runs, Idle
<1>2. QED
  BY <1>1, InvAlways, LeadsNext, LeadsImplies, PTL DEF Spec
-----------------------------------------------------------------------------
(* Stranded containers *)

\* A request that deletes a row has been told that its instance is gone.
Told(r) ==
  /\ r.op = "stop" /\ r.place = "delete" => mgr[r.id] \in {"gone", "ghost"}
  /\ r.op = "status" /\ r.place = "delete" =>
       mgr[r.id] \in {"lost", "left", "gone", "ghost"} \/ "inspect" \in Faults

SInv == IInv /\ \A h \in Handlers : Told(req[h])

\* What is gone stays gone, and the manager finds no row again.
Stays ==
  \A i \in Ids :
    /\ mgr[i] \in {"gone", "ghost"} => mgr'[i] = mgr[i]
    /\ mgr[i] \in {"lost", "left"} => mgr'[i] \in {"lost", "left"}

LEMMA ToldOn ==
  ASSUME SInv, Stays, NEW h \in Handlers, NEW r, req' = [req EXCEPT ![h] = r], Told(r)'
  PROVE  \A g \in Handlers : Told(req[g])'
<1> TAKE g \in Handlers
<1>1. CASE g = h
  <2>1. req'[g] = r
    BY <1>1 DEF SInv, IInv
  <2>2. QED
    BY <2>1 DEF Told
<1>2. CASE g # h
  <2>1. req'[g] = req[g] /\ Told(req[g])
    BY <1>2 DEF SInv, IInv
  <2>2. req[g].place = "delete" => req[g].id \in Ids
    BY DEF SInv, IInv, Good
  <2>3. QED
    BY <2>1, <2>2 DEF Told, Stays
<1>3. QED
  BY <1>1, <1>2

\* A step after which the request does not delete a row.
LEMMA ToldElse ==
  ASSUME SInv, Stays, NEW h \in Handlers, NEW r, req' = [req EXCEPT ![h] = r],
         r.place # "delete"
  PROVE  \A g \in Handlers : Told(req[g])'
<1>1. Told(r)'
  BY DEF Told
<1>2. QED
  BY <1>1, ToldOn

\* How a container can come, go or lose its row.
Comes(h, i) ==
  /\ req[h].op = "start" /\ req[h].place \in {"create", "restart"}
  /\ row' = row /\ mgr[i] = "none"
  /\ \A j \in Ids \ {i} : mgr'[j] = mgr[j]
  /\ \/ req'[h] = Idle
     \/ req[h].place = "restart" /\ req'[h].new = i
     \/ At(h, "start", "insert")' /\ req'[h].new = i

LEMMA StartsHow ==
  ASSUME SInv, NEW h \in Handlers, NEW next \in {"update", "insert"}, ManagerStarts(h, next),
         UNCHANGED row, req[h].op = "start",
         req[h].place = IF next = "update" THEN "restart" ELSE "create"
  PROVE  /\ Stays /\ \A g \in Handlers : Told(req[g])'
         /\ \/ mgr' = mgr /\ req' = [req EXCEPT ![h] = Idle]
            \/ \E i \in Ids : Comes(h, i)
<1>1. mgr \in [Ids -> ManagerStates] /\ req = [g \in Handlers |-> req[g]]
  BY DEF SInv, IInv
<1>2. Idle.place # "delete"
  BY DEF Idle
<1>3. ASSUME NEW i \in Fresh, NEW m, NEW p, Launch(i, m, p)
      PROVE  Stays /\ i \in Ids /\ mgr[i] = "none" /\ \A j \in Ids \ {i} : mgr'[j] = mgr[j]
  BY <1>1, <1>3 DEF Fresh, Stays, Launch
<1>4. CASE mgr' = mgr /\ Finish(h)
  <2>1. Stays
    BY <1>4 DEF Stays
  <2>2. QED
    BY <1>2, <1>4, <2>1, ToldElse DEF Finish
<1>5. ASSUME NEW i \in Fresh, NEW m, NEW p, Launch(i, m, p), Finish(h)
      PROVE  /\ Stays /\ \A g \in Handlers : Told(req[g])'
             /\ \E j \in Ids : Comes(h, j)
  <2>1. Stays /\ i \in Ids
    BY <1>3, <1>5
  <2>2. req'[h] = Idle
    BY <1>1, <1>5 DEF Finish
  <2>3. Comes(h, i)
    BY <1>3, <1>5, <2>2 DEF Comes
  <2>4. QED
    BY <1>2, <1>5, <2>1, <2>3, ToldElse DEF Finish
<1>6. ASSUME NEW i \in Fresh, NEW m, NEW p, Launch(i, m, p), NEW t,
             Answered(h, next, i, t)
      PROVE  /\ Stays /\ \A g \in Handlers : Told(req[g])'
             /\ \E j \in Ids : Comes(h, j)
  <2>1. PICK r : r = [op |-> req[h].op, place |-> next, pair |-> req[h].pair,
                      id |-> req[h].id, copy |-> req[h].copy, new |-> i, at |-> t]
    OBVIOUS
  <2>2. r.op = "start" /\ r.place = next /\ r.new = i /\ r.place # "delete"
    BY <2>1
  <2>3. req' = [req EXCEPT ![h] = r]
    BY <1>6, <2>1 DEF Answered, Becomes
  <2>4. req'[h] = r
    BY <1>1, <2>3
  <2>5. Stays /\ i \in Ids
    BY <1>3, <1>6
  <2>6. Comes(h, i)
    BY <1>3, <1>6, <2>2, <2>4 DEF Comes, At
  <2>7. QED
    BY <2>2, <2>3, <2>5, <2>6, ToldElse
<1>7. QED
  BY <1>4, <1>5, <1>6 DEF ManagerStarts, Finish, manager

\* What was stranded before is still stranded, if no container comes back, no row is
\* dropped and no insert is given up.
LEMMA Quiet ==
  ASSUME SInv, NEW h \in Handlers, NEW r, req' = [req EXCEPT ![h] = r],
         ~At(h, "start", "insert"),
         \A i \in Ids : /\ mgr'[i] \in {"live", "ended", "lost", "left"} =>
                             mgr[i] \in {"live", "ended", "lost", "left"}
                        /\ row'[i] = NoRow => row[i] = NoRow
  PROVE  StrandedStep
<1> SUFFICES ASSUME NEW i \in Ids, Stranded(i)' PROVE Stranded(i)
  BY DEF StrandedStep
<1>1. \A g \in Handlers : g # h => req'[g] = req[g]
  BY DEF SInv, IInv
<1>2. \A g \in Handlers : ~(At(g, "start", "insert") /\ req[g].new = i)
  BY <1>1 DEF Stranded, At
<1>3. QED
  BY <1>2 DEF Stranded

\* A request that changes nothing but what it does next.
LEMMA QuietStep ==
  ASSUME SInv, NEW h \in Handlers, NEW r, req' = [req EXCEPT ![h] = r],
         ~At(h, "start", "insert"), r.place # "delete", UNCHANGED <<row, mgr>>
  PROVE  StrandedStep /\ \A g \in Handlers : Told(req[g])'
<1>1. Stays
  BY DEF Stays
<1>2. QED
  BY <1>1, Quiet, ToldElse

LEMMA QuietFinish ==
  ASSUME SInv, NEW h \in Handlers, ~At(h, "start", "insert"), Finish(h), UNCHANGED <<row, mgr>>
  PROVE  StrandedStep /\ \A g \in Handlers : Told(req[g])'
<1>1. Idle.place # "delete"
  BY DEF Idle
<1>2. QED
  BY <1>1, QuietStep DEF Finish

LEMMA QuietMove ==
  ASSUME SInv, NEW h \in Handlers, ~At(h, "start", "insert"), UNCHANGED <<row, mgr>>,
         NEW place, NEW id, NEW copy, NEW new, NEW at,
         Becomes(h, place, id, copy, new, at), place # "delete"
  PROVE  StrandedStep /\ \A g \in Handlers : Told(req[g])'
<1>1. PICK r : r = [op |-> req[h].op, place |-> place, pair |-> req[h].pair,
                    id |-> id, copy |-> copy, new |-> new, at |-> at]
  OBVIOUS
<1>2. r.place = place
  BY <1>1
<1>3. req' = [req EXCEPT ![h] = r]
  BY <1>1 DEF Becomes
<1>4. QED
  BY <1>2, <1>3, QuietStep

LEMMA QuietBegin ==
  ASSUME SInv, NEW h \in Handlers, NEW op, Begin(h, op)
  PROVE  StrandedStep /\ \A g \in Handlers : Told(req[g])'
<1>1. PICK p \in Pairs :
        req' = [req EXCEPT ![h] = [op |-> op, place |-> "find", pair |-> p, id |-> None,
                                   copy |-> NoRow, new |-> None, at |-> 0]]
  BY DEF Begin
<1>2. PICK r : r = [op |-> op, place |-> "find", pair |-> p, id |-> None,
                    copy |-> NoRow, new |-> None, at |-> 0]
  OBVIOUS
<1>3. r.place # "delete" /\ req' = [req EXCEPT ![h] = r]
  BY <1>1, <1>2
<1>4. ~At(h, "start", "insert") /\ UNCHANGED <<row, mgr>>
  BY DEF Begin, At, Idle, manager
<1>5. QED
  BY <1>3, <1>4, QuietStep

\* An update drops no row.
LEMMA QuietUpdate ==
  ASSUME SInv, NEW h \in Handlers, ~At(h, "start", "insert"), Finish(h), UNCHANGED mgr,
         NEW i \in Ids, NEW status \in Statuses, NEW addr, UpdateRow(i, status, addr)
  PROVE  StrandedStep /\ \A g \in Handlers : Told(req[g])'
<1>1. PICK r : r = [pair |-> row[i].pair, status |-> status,
                    started |-> row[i].started, addr |-> addr]
  OBVIOUS
<1>2. r # NoRow
  <2>1. r.status # "none"
    BY <1>1 DEF Statuses
  <2>2. QED
    BY <2>1 DEF NoRow
<1>3. row' = [row EXCEPT ![i] = IF row[i] = NoRow THEN NoRow ELSE r]
  BY <1>1 DEF UpdateRow
<1>4. \A j \in Ids : row'[j] = NoRow => row[j] = NoRow
  BY <1>2, <1>3 DEF SInv, IInv
<1>5. Stays /\ Idle.place # "delete"
  BY DEF Stays, Idle
<1>6. QED
  BY <1>4, <1>5, Quiet, ToldElse DEF Finish

LEMMA StartsAlone ==
  ASSUME SInv, NEW h \in Handlers, NEW next, ManagerStarts(h, next)
  PROVE  \A g \in Handlers : g # h => req'[g] = req[g]
<1>1. req = [g \in Handlers |-> req[g]]
  BY DEF SInv, IInv
<1>2. CASE Finish(h)
  BY <1>1, <1>2 DEF Finish
<1>3. ASSUME NEW i, NEW t, Answered(h, next, i, t)
      PROVE  \A g \in Handlers : g # h => req'[g] = req[g]
  BY <1>1, <1>3 DEF Answered, Becomes
<1>4. QED
  BY <1>2, <1>3 DEF ManagerStarts

LEMMA StartsStrand ==
  ASSUME SInv, NEW h \in Handlers, NEW next \in {"update", "insert"}, ManagerStarts(h, next),
         UNCHANGED row, req[h].op = "start",
         req[h].place = IF next = "update" THEN "restart" ELSE "create"
  PROVE  StrandedStep /\ \A g \in Handlers : Told(req[g])'
<1>1. ~At(h, "start", "insert")
  BY DEF At
<1>2. CASE mgr' = mgr /\ req' = [req EXCEPT ![h] = Idle]
  BY <1>1, <1>2, QuietFinish DEF Finish
<1>3. ASSUME NEW i \in Ids, Comes(h, i) PROVE StrandedStep
  <2> SUFFICES ASSUME NEW j \in Ids, Stranded(j)', ~Stranded(j)
               PROVE  /\ mgr[j] = "none"
                      /\ \E g \in Handlers :
                           /\ req[g].place \in {"create", "restart"}
                           /\ req'[g] = Idle \/ (At(g, "start", "restart") /\ req'[g].new = j)
    BY DEF StrandedStep
  <2>1. CASE j = i
    <3>1. ~(At(h, "start", "insert")' /\ req'[h].new = i)
      BY <2>1 DEF Stranded
    <3>2. QED
      BY <1>3, <2>1, <3>1 DEF Comes, At
  <2>2. CASE j # i
    <3>1. \A g \in Handlers : ~(At(g, "start", "insert") /\ req[g].new = j)
      BY <1>1, StartsAlone DEF Stranded, At
    <3>2. mgr'[j] = mgr[j] /\ row' = row
      BY <1>3, <2>2 DEF Comes
    <3>3. QED
      BY <3>1, <3>2 DEF Stranded
  <2>3. QED
    BY <2>1, <2>2
<1>4. QED
  BY <1>2, <1>3, StartsHow

LEMMA InsertStrand ==
  ASSUME SInv, NEW h \in Handlers, CreateInsert(h)
  PROVE  StrandedStep /\ \A g \in Handlers : Told(req[g])'
<1>1. /\ At(h, "start", "insert") /\ Finish(h) /\ UNCHANGED mgr
      /\ Idle.place # "delete" /\ Stays
  BY DEF CreateInsert, Idle, Stays, manager
<1>2. \A g \in Handlers : Told(req[g])'
  BY <1>1, ToldElse DEF Finish
<1>3. \A g \in Handlers : g # h => req'[g] = req[g]
  BY <1>1 DEF Finish, SInv, IInv
<1>4. PICK r : r = [pair |-> req[h].pair, status |-> "running",
                    started |-> req[h].at, addr |-> address[req[h].new]]
  OBVIOUS
<1>5. r # NoRow
  <2>1. r.status # "none"
    BY <1>4
  <2>2. QED
    BY <2>1 DEF NoRow
<1>6. row' = [row EXCEPT ![req[h].new] = r] \/ ("db" \in Faults /\ UNCHANGED row)
  BY <1>4 DEF CreateInsert
<1>7. ASSUME NEW i \in Ids, Stranded(i)', ~Stranded(i)
      PROVE  req[h].new = i /\ "db" \in Faults
  <2>1. row[i] = NoRow
    BY <1>5, <1>6, <1>7 DEF Stranded, SInv, IInv
  <2>2. mgr[i] \in {"live", "ended", "lost", "left"}
    BY <1>1, <1>7 DEF Stranded
  <2>3. req[h].new = i
    BY <1>3, <1>7, <2>1, <2>2 DEF Stranded, At
  <2>4. row'[i] = NoRow
    BY <1>7 DEF Stranded
  <2>5. QED
    BY <1>5, <1>6, <2>3, <2>4 DEF SInv, IInv
<1>8. StrandedStep
  BY <1>1, <1>7 DEF StrandedStep
<1>9. QED
  BY <1>2, <1>8

LEMMA DeleteStrand ==
  ASSUME SInv, NEW h \in Handlers, StopDelete(h) \/ StatusDelete(h)
  PROVE  StrandedStep /\ \A g \in Handlers : Told(req[g])'
<1>1. /\ ~At(h, "start", "insert") /\ Finish(h) /\ UNCHANGED mgr
      /\ Idle.place # "delete" /\ Stays /\ req[h].id \in Ids
  BY DEF StopDelete, StatusDelete, At, DeleteRow, Idle, Stays, SInv, IInv, Good, manager
<1>2. \A g \in Handlers : Told(req[g])'
  BY <1>1, ToldElse DEF Finish
<1>3. \A g \in Handlers : g # h => req'[g] = req[g]
  BY <1>1 DEF Finish, SInv, IInv
<1>4. \A i \in Ids : i # req[h].id => row'[i] = row[i]
  BY DEF StopDelete, StatusDelete, DeleteRow, SInv, IInv
<1>5. ASSUME NEW i \in Ids, Stranded(i)', ~Stranded(i)
      PROVE  /\ At(h, "status", "delete") /\ req[h].id = i
             /\ mgr[i] \in {"lost", "left"} \/ "inspect" \in Faults
  <2>1. \A g \in Handlers : ~(At(g, "start", "insert") /\ req[g].new = i)
    BY <1>1, <1>3, <1>5 DEF Stranded, At
  <2>2. mgr[i] \in {"live", "ended", "lost", "left"}
    BY <1>1, <1>5 DEF Stranded
  <2>3. req[h].id = i
    BY <1>4, <1>5, <2>1, <2>2 DEF Stranded
  <2>4. Told(req[h])
    BY DEF SInv
  <2>5. QED
    BY <2>2, <2>3, <2>4 DEF Told, StopDelete, StatusDelete, At
<1>6. StrandedStep
  BY <1>5 DEF StrandedStep
<1>7. QED
  BY <1>2, <1>6

LEMMA DestroyStrand ==
  ASSUME SInv, NEW h \in Handlers, StopDestroy(h)
  PROVE  StrandedStep /\ \A g \in Handlers : Told(req[g])'
<1>1. /\ ~At(h, "start", "insert") /\ UNCHANGED row /\ req[h].id \in Ids
      /\ req[h].op = "stop" /\ Idle.place # "delete"
  BY DEF StopDestroy, At, Idle, SInv, IInv, Good
<1>2. CASE UNCHANGED mgr /\ Finish(h)
  BY <1>1, <1>2, QuietFinish
<1>3. ASSUME mgr[req[h].id] \in {"live", "ended"}, NEW m \in {"gone", "ghost"},
             mgr' = [mgr EXCEPT ![req[h].id] = m], GoTo(h, "delete") \/ Finish(h)
      PROVE  StrandedStep /\ \A g \in Handlers : Told(req[g])'
  <2>1. /\ Stays
        /\ \A i \in Ids : /\ mgr'[i] \in {"live", "ended", "lost", "left"} =>
                               mgr[i] \in {"live", "ended", "lost", "left"}
                          /\ row'[i] = NoRow => row[i] = NoRow
        /\ mgr'[req[h].id] = m
    BY <1>1, <1>3 DEF Stays, SInv, IInv
  <2>2. CASE Finish(h)
    BY <1>1, <2>1, <2>2, Quiet, ToldElse DEF Finish
  <2>3. CASE GoTo(h, "delete")
    <3>1. PICK r : r = [op |-> req[h].op, place |-> "delete", pair |-> req[h].pair,
                        id |-> req[h].id, copy |-> req[h].copy, new |-> req[h].new,
                        at |-> req[h].at]
      OBVIOUS
    <3>2. r.op = "stop" /\ r.id = req[h].id /\ req' = [req EXCEPT ![h] = r]
      BY <1>1, <2>3, <3>1 DEF GoTo, Becomes
    <3>3. Told(r)'
      BY <2>1, <3>2 DEF Told
    <3>4. QED
      BY <1>1, <2>1, <3>2, <3>3, Quiet, ToldOn
  <2>4. QED
    BY <1>3, <2>2, <2>3
<1>4. QED
  BY <1>2, <1>3 DEF StopDestroy

LEMMA AskStrand ==
  ASSUME SInv, NEW h \in Handlers, StatusAsk(h)
  PROVE  StrandedStep /\ \A g \in Handlers : Told(req[g])'
<1>1. /\ ~At(h, "start", "insert") /\ UNCHANGED <<row, mgr>> /\ req[h].id \in Ids
      /\ req[h].op = "status" /\ req[h].place = "ask" /\ req[h] \in Request /\ Stays
  BY AtWork DEF StatusAsk, At, Stays, SInv, IInv, Good, manager
<1>2. CASE Finish(h)
  BY <1>1, <1>2, QuietFinish
<1>3. ASSUME NEW s, Answered(h, "refresh", s, 0)
      PROVE  StrandedStep /\ \A g \in Handlers : Told(req[g])'
  BY <1>1, <1>3, QuietMove DEF Answered
<1>4. CASE Takes(h, "delete", req[h].id, NoRow) /\ "destroyed" \in Reports(req[h].id)
  <2>1. mgr[req[h].id] # "none"
    <3>1. owner[req[h].id] # None
      BY <1>1, AtWork DEF SInv, IInv, Good
    <3>2. QED
      BY <1>1, <3>1 DEF SInv, IInv
  <2>2. mgr[req[h].id] \in {"lost", "left", "gone", "ghost"} \/ "inspect" \in Faults
    BY <1>1, <1>4, <2>1 DEF Reports, SInv, IInv, ManagerStates
  <2>3. PICK r : r = [op |-> req[h].op, place |-> "delete", pair |-> req[h].pair,
                      id |-> req[h].id, copy |-> NoRow, new |-> None, at |-> 0]
    OBVIOUS
  <2>4. r.op = "status" /\ r.id = req[h].id /\ req' = [req EXCEPT ![h] = r]
    BY <1>1, <1>4, <2>3 DEF Takes, Becomes
  <2>5. Told(r)'
    BY <1>1, <2>2, <2>4 DEF Told
  <2>6. QED
    BY <1>1, <2>4, <2>5, Quiet, ToldOn
<1>5. QED
  BY <1>2, <1>3, <1>4 DEF StatusAsk

LEMMA HandlerStrand ==
  ASSUME SInv, NEW h \in Handlers, StartInstance(h) \/ StopInstance(h) \/ GetInstanceStatus(h)
  PROVE  StrandedStep /\ \A g \in Handlers : Told(req[g])'
<1>1. CASE StartRequest(h) \/ StopRequest(h) \/ StatusRequest(h)
  BY <1>1, QuietBegin DEF StartRequest, StopRequest, StatusRequest
<1>2. CASE StartFind(h) \/ StopFind(h) \/ StatusFind(h)
  <2>1. ~At(h, "start", "insert") /\ UNCHANGED <<row, mgr>>
    BY <1>2 DEF StartFind, StopFind, StatusFind, At, manager
  <2>2. \/ Finish(h) \/ GoTo(h, "create")
        \/ \E i \in Ids : \/ Takes(h, "restart", i, NoRow) \/ Takes(h, "destroy", i, NoRow)
                          \/ Takes(h, "ask", i, row[i])
    BY <1>2 DEF StartFind, StopFind, StatusFind, FindByUserAndChallenge
  <2>3. CASE Finish(h)
    BY <2>1, <2>3, QuietFinish
  <2>4. CASE GoTo(h, "create")
    BY <2>1, <2>4, QuietMove DEF GoTo
  <2>5. ASSUME NEW i \in Ids, NEW copy,
               \/ Takes(h, "restart", i, copy) \/ Takes(h, "destroy", i, copy)
               \/ Takes(h, "ask", i, copy)
        PROVE  StrandedStep /\ \A g \in Handlers : Told(req[g])'
    BY <2>1, <2>5, QuietMove DEF Takes
  <2>6. QED
    BY <2>2, <2>3, <2>4, <2>5
<1>3. CASE Restart(h) \/ Create(h)
  BY <1>3, StartsStrand DEF Restart, Create, At
<1>4. CASE RestartUpdate(h)
  <2>1. /\ ~At(h, "start", "insert") /\ Finish(h) /\ UNCHANGED mgr
        /\ req[h].id \in Ids /\ req[h].new \in Ids
    BY <1>4 DEF RestartUpdate, At, SInv, IInv, Good, manager
  <2>2. CASE UNCHANGED row
    BY <2>1, <2>2, QuietFinish
  <2>3. CASE UpdateRow(req[h].id, "running", address[req[h].new])
    BY <2>1, <2>3, QuietUpdate DEF Statuses
  <2>4. QED
    BY <1>4, <2>2, <2>3 DEF RestartUpdate
<1>5. CASE StatusUpdate(h)
  <2>1. /\ ~At(h, "start", "insert") /\ Finish(h) /\ UNCHANGED mgr
        /\ req[h].id \in Ids /\ req[h].new \in Statuses
    BY <1>5 DEF StatusUpdate, At, SInv, IInv, Good, manager
  <2>2. CASE UNCHANGED row
    BY <2>1, <2>2, QuietFinish
  <2>3. CASE UpdateRow(req[h].id, req[h].new, req[h].copy.addr)
    BY <2>1, <2>3, QuietUpdate
  <2>4. QED
    BY <1>5, <2>2, <2>3 DEF StatusUpdate
<1>6. QED
  BY <1>1, <1>2, <1>3, <1>4, <1>5, InsertStrand, DeleteStrand, DestroyStrand, AskStrand
     DEF StartInstance, StopInstance, GetInstanceStatus

LEMMA StrandedHow ==
  ASSUME SInv, [Next]_vars
  PROVE  StrandedStep /\ \A g \in Handlers : Told(req[g])'
<1>1. CASE UNCHANGED vars
  BY <1>1 DEF vars, manager, StrandedStep, Stranded, At, SInv, Told
<1>2. ASSUME NEW i \in Ids, ContainerExit(i)
      PROVE  StrandedStep /\ \A g \in Handlers : Told(req[g])'
  <2>1. /\ req' = req /\ row' = row /\ mgr[i] \in {"live", "lost"}
        /\ mgr' = [mgr EXCEPT ![i] = IF mgr[i] = "live" THEN "ended" ELSE "left"]
    BY <1>2 DEF ContainerExit, Runs
  <2>2. Stays
    BY <2>1 DEF Stays, SInv, IInv
  <2>3. ASSUME NEW g \in Handlers PROVE Told(req[g])'
    <3>1. req[g].place = "delete" => req[g].id \in Ids
      BY DEF SInv, IInv, Good
    <3>2. QED
      BY <2>1, <2>2, <3>1 DEF Told, Stays, SInv
  <2>4. StrandedStep
    BY <2>1 DEF StrandedStep, Stranded, At, SInv, IInv
  <2>5. QED
    BY <2>3, <2>4
<1>3. CASE Kill
  <2>1. \A g \in Handlers : Told(req[g])'
    BY <1>3 DEF Kill, Told, Idle
  <2>2. StrandedStep
    BY <1>3 DEF Kill, StrandedStep, Stranded, manager
  <2>3. QED
    BY <2>1, <2>2
<1>4. QED
  BY <1>1, <1>2, <1>3, HandlerStrand DEF Next

LEMMA SInvAlways == Spec => []SInv
<1>1. Init => SInv
  BY InitInv DEF Init, SInv, Told, Idle
<1>2. SInv /\ [Next]_vars => SInv'
  <2>1. SInv /\ [Next]_vars => IInv'
    BY NextInv DEF SInv
  <2>2. SInv /\ [Next]_vars => (\A g \in Handlers : Told(req[g])')
    BY StrandedHow
  <2>3. QED
    BY <2>1, <2>2 DEF SInv
<1>3. QED
  BY <1>1, <1>2, PTL DEF Spec

\* A container gets out of every player's reach in the listed ways only, however many
\* requests run at once: StopInstance never drops the row of a container that is left.
THEOREM StrandedExplained == Spec => StrandedCauses
<1>1. SInv /\ [Next]_vars => StrandedStep
  BY StrandedHow
<1>2. QED
  BY <1>1, SInvAlways, PTL DEF Spec, StrandedCauses

-----------------------------------------------------------------------------
(* One row for a pair *)

NoRowOf(p) == \A i \in Ids : row[i] # NoRow => row[i].pair # p

\* A request that will insert a row has found none, and none says "unknown", which a
\* start would take for none.
OInv ==
  /\ OneRowPerPair
  /\ \A i \in Ids : row[i] # NoRow => row[i].status # "unknown"
  /\ \A h \in Handlers : req[h].place = "refresh" => req[h].new # "unknown"
  /\ \A h \in Handlers : At(h, "start", "create") \/ At(h, "start", "insert") =>
       NoRowOf(req[h].pair)

\* What the actions are made of is the same in calm behaviours.
LEMMA CalmSame ==
  ASSUME NEW h
  PROVE  /\ Calm!Idle = Idle /\ Calm!NoRow = NoRow
         /\ Calm!Finish(h) <=> Finish(h)
         /\ \A place : Calm!GoTo(h, place) <=> GoTo(h, place)
         /\ \A place, i, copy : Calm!Takes(h, place, i, copy) <=> Takes(h, place, i, copy)
         /\ \A place, new, at : Calm!Answered(h, place, new, at) <=> Answered(h, place, new, at)
         /\ \A op : Calm!Begin(h, op) <=> Begin(h, op)
         /\ \A op, place : Calm!At(h, op, place) <=> At(h, op, place)
         /\ \A i, status, addr :
              Calm!UpdateRow(i, status, addr) <=> UpdateRow(i, status, addr)
         /\ Calm!manager = manager /\ Calm!manager' = manager'
         /\ \A p : Calm!FindByUserAndChallenge(p) = FindByUserAndChallenge(p)
<1>1. Calm!Idle = Idle /\ Calm!NoRow = NoRow
  BY DEF Calm!Idle, Calm!NoRow, Calm!None, Idle, NoRow, None
<1>2. Calm!Finish(h) <=> Finish(h)
  BY <1>1 DEF Calm!Finish, Finish
<1>3. ASSUME NEW place, NEW id, NEW copy, NEW new, NEW at
      PROVE  Calm!Becomes(h, place, id, copy, new, at) <=> Becomes(h, place, id, copy, new, at)
  BY DEF Calm!Becomes, Becomes
<1>4. \A place : Calm!GoTo(h, place) <=> GoTo(h, place)
  BY <1>3 DEF Calm!GoTo, GoTo
<1>5. \A place, i, copy : Calm!Takes(h, place, i, copy) <=> Takes(h, place, i, copy)
  BY <1>3 DEF Calm!Takes, Takes, Calm!None, None
<1>6. \A place, new, at : Calm!Answered(h, place, new, at) <=> Answered(h, place, new, at)
  BY <1>3 DEF Calm!Answered, Answered
<1>7. \A op : Calm!Begin(h, op) <=> Begin(h, op)
  BY <1>1 DEF Calm!Begin, Begin, Calm!None, None, Calm!manager, manager
<1>8. \A op, place : Calm!At(h, op, place) <=> At(h, op, place)
  BY DEF Calm!At, At
<1>9. \A i, status, addr : Calm!UpdateRow(i, status, addr) <=> UpdateRow(i, status, addr)
  BY <1>1 DEF Calm!UpdateRow, UpdateRow
<1>10. \A p : Calm!FindByUserAndChallenge(p) = FindByUserAndChallenge(p)
  BY <1>1 DEF Calm!FindByUserAndChallenge, FindByUserAndChallenge
<1>11. Calm!manager = manager /\ Calm!manager' = manager'
  BY DEF Calm!manager, manager
<1>12. QED
  BY <1>1, <1>2, <1>4, <1>5, <1>6, <1>7, <1>8, <1>9, <1>10, <1>11

\* A calm start asks the manager as any start does.
LEMMA CalmManagerStarts ==
  ASSUME NEW h, NEW next, Calm!ManagerStarts(h, next)
  PROVE  ManagerStarts(h, next)
<1>1. Calm!Fresh = Fresh
  BY DEF Calm!Fresh, Fresh
<1>2. /\ Calm!Finish(h) <=> Finish(h)
      /\ \A new, at : Calm!Answered(h, next, new, at) <=> Answered(h, next, new, at)
  BY CalmSame
<1>3. \A i, m, p : Calm!Launch(i, m, p) <=> Launch(i, m, p)
  BY DEF Calm!Launch, Launch, Calm!Runs, Runs, Calm!None, None
<1>4. \A m, ended : Calm!OrEnded(m, ended) = OrEnded(m, ended)
  BY DEF Calm!OrEnded, OrEnded
<1>5. Calm!manager = manager /\ Calm!manager' = manager'
  BY DEF Calm!manager, manager
<1>6. QED
  BY <1>1, <1>2, <1>3, <1>4, <1>5 DEF Calm!ManagerStarts, ManagerStarts

\* A calm start: the lookup and the writes do not fail.
LEMMA CalmStart ==
  ASSUME NEW h, Calm!StartInstance(h)
  PROVE  \/ StartRequest(h)
         \/ /\ StartFind(h)
            /\ \/ Finish(h)
               \/ \E i \in FindByUserAndChallenge(req[h].pair) : Takes(h, "restart", i, NoRow)
               \/ /\ \/ FindByUserAndChallenge(req[h].pair) = {}
                     \/ \E i \in FindByUserAndChallenge(req[h].pair) : row[i].status = "unknown"
                  /\ GoTo(h, "create")
         \/ Restart(h) \/ Create(h)
         \/ RestartUpdate(h) /\ UpdateRow(req[h].id, "running", address[req[h].new])
         \/ /\ CreateInsert(h)
            /\ row' = [row EXCEPT ![req[h].new] =
                         [pair |-> req[h].pair, status |-> "running",
                          started |-> req[h].at, addr |-> address[req[h].new]]]
<1>1. CASE Calm!StartRequest(h)
  <2>1. Calm!Starting = Starting /\ Calm!Fresh = Fresh
    BY DEF Calm!Starting, Starting, Calm!Fresh, Fresh, Calm!None, None
  <2>2. Calm!Begin(h, "start") <=> Begin(h, "start")
    BY CalmSame
  <2>3. \A S : Calm!Cardinality(S) = Cardinality(S)
    BY DEF Calm!Cardinality, Cardinality
  <2>4. StartRequest(h)
    BY <1>1, <2>1, <2>2, <2>3 DEF Calm!StartRequest, StartRequest
  <2>5. QED
    BY <2>4
<1>2. CASE Calm!StartFind(h)
  BY <1>2, CalmSame DEF Calm!StartFind, StartFind
<1>3. CASE Calm!Restart(h)
  BY <1>3, CalmSame, CalmManagerStarts DEF Calm!Restart, Restart
<1>4. CASE Calm!Create(h)
  BY <1>4, CalmSame, CalmManagerStarts DEF Calm!Create, Create
<1>5. CASE Calm!RestartUpdate(h)
  BY <1>5, CalmSame DEF Calm!RestartUpdate, RestartUpdate
<1>6. CASE Calm!CreateInsert(h)
  BY <1>6, CalmSame DEF Calm!CreateInsert, CreateInsert
<1>7. QED
  BY <1>1, <1>2, <1>3, <1>4, <1>5, <1>6 DEF Calm!StartInstance

\* A calm stop or status request: the update does not fail and no state is unknown.
LEMMA CalmStopOrStatus ==
  ASSUME NEW h, Calm!StopInstance(h) \/ Calm!GetInstanceStatus(h)
  PROVE  \/ StopRequest(h) \/ StopFind(h) \/ StopDestroy(h) \/ StopDelete(h)
         \/ StatusRequest(h) \/ StatusFind(h) \/ StatusDelete(h)
         \/ /\ StatusAsk(h)
            /\ \/ Takes(h, "delete", req[h].id, NoRow) \/ Finish(h)
               \/ \E s \in {"running", "stopped"} : Answered(h, "refresh", s, 0)
         \/ StatusUpdate(h) /\ UpdateRow(req[h].id, req[h].new, req[h].copy.addr)
<1>1. CASE Calm!StopInstance(h)
  <2>1. CASE Calm!StopRequest(h)
    BY <2>1, CalmSame DEF Calm!StopRequest, StopRequest
  <2>2. CASE Calm!StopFind(h)
    BY <2>2, CalmSame DEF Calm!StopFind, StopFind
  <2>3. CASE Calm!StopDestroy(h)
    BY <2>3, CalmSame DEF Calm!StopDestroy, StopDestroy
  <2>4. CASE Calm!StopDelete(h)
    BY <2>4, CalmSame DEF Calm!StopDelete, StopDelete, Calm!DeleteRow, DeleteRow
  <2>5. QED
    BY <1>1, <2>1, <2>2, <2>3, <2>4 DEF Calm!StopInstance
<1>2. CASE Calm!GetInstanceStatus(h)
  <2>1. CASE Calm!StatusRequest(h)
    BY <2>1, CalmSame DEF Calm!StatusRequest, StatusRequest
  <2>2. CASE Calm!StatusFind(h)
    BY <2>2, CalmSame DEF Calm!StatusFind, StatusFind
  <2>3. CASE Calm!StatusAsk(h)
    <3>1. Calm!Reports(req[h].id) \subseteq Reports(req[h].id) \ {"unknown"}
      BY DEF Calm!Reports, Reports
    <3>2. Calm!Reports(req[h].id) \subseteq {"running", "stopped", "destroyed"}
      BY DEF Calm!Reports
    <3>3. QED
      BY <2>3, <3>1, <3>2, CalmSame DEF Calm!StatusAsk, StatusAsk
  <2>4. CASE Calm!StatusDelete(h)
    BY <2>4, CalmSame DEF Calm!StatusDelete, StatusDelete, Calm!DeleteRow, DeleteRow
  <2>5. CASE Calm!StatusUpdate(h)
    BY <2>5, CalmSame DEF Calm!StatusUpdate, StatusUpdate
  <2>6. QED
    BY <1>2, <2>1, <2>2, <2>3, <2>4, <2>5 DEF Calm!GetInstanceStatus
<1>3. QED
  BY <1>1, <1>2

\* A calm step is a step.
LEMMA CalmIsNext == Calm!Next => Next
<1> SUFFICES ASSUME Calm!Next PROVE Next
  OBVIOUS
<1>1. ASSUME NEW h \in Handlers, Calm!StartInstance(h) PROVE Next
  BY <1>1, CalmStart DEF StartInstance, Next
<1>2. ASSUME NEW h \in Handlers, Calm!StopInstance(h) \/ Calm!GetInstanceStatus(h) PROVE Next
  BY <1>2, CalmStopOrStatus DEF StopInstance, GetInstanceStatus, Next
<1>3. ASSUME NEW i \in Ids, Calm!ContainerExit(i) PROVE Next
  BY <1>3 DEF Calm!ContainerExit, ContainerExit, Calm!Runs, Runs, Next
<1>4. CASE Calm!Kill
  <2>1. Kill
    BY <1>4, CalmSame DEF Calm!Kill, Kill, Calm!Idle, Idle, Calm!None, None, Calm!NoRow, NoRow,
         Calm!manager, manager
  <2>2. QED
    BY <2>1 DEF Next
<1>5. QED
  BY <1>1, <1>2, <1>3, <1>4 DEF Calm!Next

LEMMA CalmInv == CalmSpec => []IInv
<1>1. CalmInit => IInv
  BY InitInv DEF CalmInit
<1>2. IInv /\ [CalmNext]_<<vars, calm>> => IInv'
  <2>1. [CalmNext]_<<vars, calm>> => [Next]_vars
    BY CalmIsNext DEF CalmNext, vars
  <2>2. QED
    BY <2>1, NextInv
<1>3. QED
  BY <1>1, <1>2, PTL DEF CalmSpec

\* Nothing is inserted, and one request goes on as r.
LEMMA OneRowKept ==
  ASSUME IInv, OInv, NEW h \in Handlers, NEW r, req' = [req EXCEPT ![h] = r],
         \A i \in Ids : row'[i] # NoRow =>
           row[i] # NoRow /\ row'[i].pair = row[i].pair /\ row'[i].status # "unknown",
         r.place = "refresh" => r.new # "unknown",
         r.op = "start" /\ r.place \in {"create", "insert"} => NoRowOf(r.pair)
  PROVE  OInv'
<1>1. req'[h] = r /\ \A g \in Handlers : g = h \/ req'[g] = req[g]
  BY DEF IInv
<1>2. OneRowPerPair'
  BY DEF OInv, OneRowPerPair
<1>3. \A p : NoRowOf(p) => NoRowOf(p)'
  BY DEF NoRowOf
<1>4. ASSUME NEW g \in Handlers, (At(g, "start", "create") \/ At(g, "start", "insert"))'
      PROVE  NoRowOf(req[g].pair)'
  <2>1. NoRowOf(req'[g].pair)
    BY <1>1, <1>4 DEF OInv, At
  <2>2. QED
    BY <1>3, <2>1 DEF NoRowOf
<1>5. \A g \in Handlers : req'[g].place = "refresh" => req'[g].new # "unknown"
  BY <1>1 DEF OInv
<1>6. \A i \in Ids : row'[i] # NoRow => row'[i].status # "unknown"
  OBVIOUS
<1>7. QED
  BY <1>2, <1>4, <1>5, <1>6 DEF OInv

LEMMA OneFinish ==
  ASSUME IInv, OInv, NEW h \in Handlers, Finish(h),
         \A i \in Ids : row'[i] # NoRow =>
           row[i] # NoRow /\ row'[i].pair = row[i].pair /\ row'[i].status # "unknown"
  PROVE  OInv'
<1>1. Idle.place \notin {"refresh", "create", "insert"}
  BY DEF Idle
<1>2. QED
  BY <1>1, OneRowKept DEF Finish

LEMMA OneMove ==
  ASSUME IInv, OInv, NEW h \in Handlers, UNCHANGED row,
         NEW place, NEW id, NEW copy, NEW new, NEW at,
         Becomes(h, place, id, copy, new, at),
         place = "refresh" => new # "unknown",
         req[h].op = "start" /\ place \in {"create", "insert"} => NoRowOf(req[h].pair)
  PROVE  OInv'
<1>1. PICK r : r = [op |-> req[h].op, place |-> place, pair |-> req[h].pair,
                    id |-> id, copy |-> copy, new |-> new, at |-> at]
  OBVIOUS
<1>2. r.place = place /\ r.new = new /\ r.op = req[h].op /\ r.pair = req[h].pair
  BY <1>1
<1>3. req' = [req EXCEPT ![h] = r]
  BY <1>1 DEF Becomes
<1>4. \A i \in Ids : row[i] # NoRow => row[i].status # "unknown"
  BY DEF OInv
<1>5. QED
  BY <1>2, <1>3, <1>4, OneRowKept

LEMMA OneUpdate ==
  ASSUME IInv, OInv, NEW h \in Handlers, Finish(h), NEW i \in Ids,
         NEW status \in {"running", "stopped"}, NEW addr, UpdateRow(i, status, addr)
  PROVE  OInv'
<1>1. PICK r : r = [pair |-> row[i].pair, status |-> status,
                    started |-> row[i].started, addr |-> addr]
  OBVIOUS
<1>2. r.pair = row[i].pair /\ r.status # "unknown"
  BY <1>1
<1>3. row' = [row EXCEPT ![i] = IF row[i] = NoRow THEN NoRow ELSE r]
  BY <1>1 DEF UpdateRow
<1>4. \A j \in Ids : row'[j] # NoRow =>
        row[j] # NoRow /\ row'[j].pair = row[j].pair /\ row'[j].status # "unknown"
  BY <1>2, <1>3 DEF IInv, OInv
<1>5. QED
  BY <1>4, OneFinish

LEMMA OneBegin ==
  ASSUME IInv, OInv, NEW h \in Handlers, NEW op, Begin(h, op)
  PROVE  OInv'
<1>1. PICK p \in Pairs :
        req' = [req EXCEPT ![h] = [op |-> op, place |-> "find", pair |-> p, id |-> None,
                                   copy |-> NoRow, new |-> None, at |-> 0]]
  BY DEF Begin
<1>2. PICK r : r = [op |-> op, place |-> "find", pair |-> p, id |-> None,
                    copy |-> NoRow, new |-> None, at |-> 0]
  OBVIOUS
<1>3. r.place = "find" /\ req' = [req EXCEPT ![h] = r] /\ row' = row
  BY <1>1, <1>2 DEF Begin
<1>4. \A i \in Ids : row[i] # NoRow => row[i].status # "unknown"
  BY DEF OInv
<1>5. QED
  BY <1>3, <1>4, OneRowKept

\* With one row for a pair the lookup finds it if there is one.
LEMMA FindsTheRow ==
  ASSUME IInv, OneRowPerPair, NEW p
  PROVE  FindByUserAndChallenge(p) = {i \in Ids : row[i] # NoRow /\ row[i].pair = p}
<1>1. \A i \in Ids : row[i] # NoRow => row[i].started <= row[i].started
  <2>1. \A i \in Ids : row[i] # NoRow => row[i].started \in Nat
    BY DEF IInv, Row
  <2>2. QED
    BY <2>1
<1>2. QED
  BY <1>1 DEF OneRowPerPair, FindByUserAndChallenge

LEMMA OneStart ==
  ASSUME IInv, OInv, InTurn, NEW h \in Handlers, Calm!StartInstance(h)
  PROVE  OInv'
<1>1. \A i \in Ids : row[i] # NoRow => row[i].status # "unknown"
  BY DEF OInv
<1>2. CASE StartRequest(h)
  BY <1>2, OneBegin DEF StartRequest
<1>3. CASE /\ StartFind(h)
           /\ \/ Finish(h)
              \/ \E i \in FindByUserAndChallenge(req[h].pair) : Takes(h, "restart", i, NoRow)
              \/ /\ \/ FindByUserAndChallenge(req[h].pair) = {}
                    \/ \E i \in FindByUserAndChallenge(req[h].pair) : row[i].status = "unknown"
                 /\ GoTo(h, "create")
  <2>1. UNCHANGED row
    BY <1>3 DEF StartFind
  <2>2. CASE Finish(h)
    BY <1>1, <2>1, <2>2, OneFinish
  <2>3. ASSUME NEW i, Takes(h, "restart", i, NoRow) PROVE OInv'
    BY <2>1, <2>3, OneMove DEF Takes
  <2>4. CASE FindByUserAndChallenge(req[h].pair) = {} /\ GoTo(h, "create")
    <3>1. NoRowOf(req[h].pair)
      BY <2>4, FindsTheRow DEF OInv, NoRowOf
    <3>2. QED
      BY <2>1, <2>4, <3>1, OneMove DEF GoTo
  <2>5. \A i \in FindByUserAndChallenge(req[h].pair) : row[i].status # "unknown"
    BY <1>1 DEF FindByUserAndChallenge
  <2>6. QED
    BY <1>3, <2>2, <2>3, <2>4, <2>5
<1>4. CASE Restart(h) \/ Create(h)
  <2>1. PICK next \in {"update", "insert"} :
          /\ ManagerStarts(h, next) /\ row' = row
          /\ next = "insert" => At(h, "start", "create")
    BY <1>4 DEF Restart, Create
  <2>2. CASE Finish(h)
    BY <1>1, <2>1, <2>2, OneFinish
  <2>3. ASSUME NEW i, NEW t, Answered(h, next, i, t) PROVE OInv'
    <3>1. next = "insert" => NoRowOf(req[h].pair)
      BY <1>1, <2>1 DEF OInv
    <3>2. QED
      BY <2>1, <2>3, <3>1, OneMove DEF Answered
  <2>4. QED
    BY <2>1, <2>2, <2>3 DEF ManagerStarts
<1>5. CASE RestartUpdate(h) /\ UpdateRow(req[h].id, "running", address[req[h].new])
  <2>1. req[h].id \in Ids
    BY <1>1, <1>5 DEF RestartUpdate, At, IInv, Good
  <2>2. QED
    BY <1>5, <2>1, OneUpdate DEF RestartUpdate
<1>6. CASE /\ CreateInsert(h)
           /\ row' = [row EXCEPT ![req[h].new] =
                        [pair |-> req[h].pair, status |-> "running",
                         started |-> req[h].at, addr |-> address[req[h].new]]]
  <2>1. PICK r : r = [pair |-> req[h].pair, status |-> "running",
                      started |-> req[h].at, addr |-> address[req[h].new]]
    OBVIOUS
  <2>2. r.pair = req[h].pair /\ r.status # "unknown"
    BY <2>1
  <2>3. row' = [row EXCEPT ![req[h].new] = r] /\ req' = [req EXCEPT ![h] = Idle]
    BY <1>6, <2>1 DEF CreateInsert, Finish
  <2>4. NoRowOf(req[h].pair)
    BY <1>1, <1>6 DEF OInv, CreateInsert
  <2>5. \A i \in Ids : row'[i] # NoRow =>
          \/ i = req[h].new /\ row'[i] = r
          \/ i # req[h].new /\ row'[i] = row[i]
    BY <2>3 DEF IInv
  <2>6. OneRowPerPair'
    BY <2>2, <2>4, <2>5 DEF OneRowPerPair, NoRowOf, OInv
  <2>7. /\ req'[h] = Idle /\ \A g \in Handlers : g = h \/ req'[g] = req[g]
        /\ Idle.place \notin {"refresh", "create", "insert"}
    BY <2>3 DEF IInv, Idle
  <2>8. ASSUME NEW g \in Handlers, (At(g, "start", "create") \/ At(g, "start", "insert"))'
        PROVE  NoRowOf(req[g].pair)'
    <3>1. g # h /\ req'[g] = req[g]
      BY <2>7, <2>8 DEF At
    <3>2. At(g, "start", "create") \/ At(g, "start", "insert")
      BY <2>8, <3>1 DEF At
    <3>3. At(h, "start", "insert")
      BY <1>6 DEF CreateInsert
    <3>4. NoRowOf(req[g].pair)
      BY <3>2 DEF OInv
    <3>5. req[g] # Idle /\ req[h] # Idle
      BY <2>7, <3>2, <3>3 DEF At
    <3>6. req[g].pair # req[h].pair
      BY <3>1, <3>5 DEF InTurn
    <3>7. \A i \in Ids : row'[i] # NoRow => row'[i].pair # req[g].pair
      BY <2>2, <2>5, <3>4, <3>6 DEF NoRowOf
    <3>8. QED
      BY <3>1, <3>7 DEF NoRowOf
  <2>9. \A g \in Handlers : req'[g].place = "refresh" => req'[g].new # "unknown"
    BY <2>7 DEF OInv
  <2>10. \A i \in Ids : row'[i] # NoRow => row'[i].status # "unknown"
    BY <1>1, <2>2, <2>5
  <2>11. QED
    BY <2>6, <2>8, <2>9, <2>10 DEF OInv
<1>7. QED
  BY <1>2, <1>3, <1>4, <1>5, <1>6, CalmStart

LEMMA OneDelete ==
  ASSUME IInv, OInv, NEW h \in Handlers, DeleteRow(h)
  PROVE  OInv'
<1>1. \A i \in Ids : row'[i] # NoRow =>
        row[i] # NoRow /\ row'[i].pair = row[i].pair /\ row'[i].status # "unknown"
  BY DEF DeleteRow, IInv, OInv
<1>2. QED
  BY <1>1, OneFinish DEF DeleteRow

LEMMA OneStopOrStatus ==
  ASSUME IInv, OInv, NEW h \in Handlers, Calm!StopInstance(h) \/ Calm!GetInstanceStatus(h)
  PROVE  OInv'
<1>1. \A i \in Ids : row[i] # NoRow => row[i].status # "unknown"
  BY DEF OInv
<1>2. CASE StopRequest(h) \/ StatusRequest(h)
  BY <1>2, OneBegin DEF StopRequest, StatusRequest
<1>3. CASE StopFind(h) \/ StatusFind(h)
  <2>1. UNCHANGED row
    BY <1>3 DEF StopFind, StatusFind
  <2>2. CASE Finish(h)
    BY <1>1, <2>1, <2>2, OneFinish
  <2>3. ASSUME NEW i, NEW copy, Takes(h, "destroy", i, copy) \/ Takes(h, "ask", i, copy)
        PROVE  OInv'
    BY <2>1, <2>3, OneMove DEF Takes
  <2>4. QED
    BY <1>3, <2>2, <2>3 DEF StopFind, StatusFind
<1>4. CASE \/ StopDestroy(h)
           \/ /\ StatusAsk(h)
              /\ \/ Takes(h, "delete", req[h].id, NoRow) \/ Finish(h)
                 \/ \E s \in {"running", "stopped"} : Answered(h, "refresh", s, 0)
  <2>1. UNCHANGED row
    BY <1>4 DEF StopDestroy, StatusAsk
  <2>2. CASE Finish(h)
    BY <1>1, <2>1, <2>2, OneFinish
  <2>3. CASE GoTo(h, "delete") \/ Takes(h, "delete", req[h].id, NoRow)
    BY <2>1, <2>3, OneMove DEF GoTo, Takes
  <2>4. ASSUME NEW s \in {"running", "stopped"}, Answered(h, "refresh", s, 0) PROVE OInv'
    BY <2>1, <2>4, OneMove DEF Answered
  <2>5. QED
    BY <1>4, <2>2, <2>3, <2>4 DEF StopDestroy
<1>5. CASE StopDelete(h) \/ StatusDelete(h)
  BY <1>5, OneDelete DEF StopDelete, StatusDelete
<1>6. CASE StatusUpdate(h) /\ UpdateRow(req[h].id, req[h].new, req[h].copy.addr)
  <2>1. req[h].id \in Ids /\ req[h].new \in {"running", "stopped"}
    BY <1>6 DEF StatusUpdate, At, IInv, Good, OInv, Statuses
  <2>2. QED
    BY <1>6, <2>1, OneUpdate DEF StatusUpdate
<1>7. QED
  BY <1>2, <1>3, <1>4, <1>5, <1>6, CalmStopOrStatus

\* While a player's requests for a challenge come one at a time, the database answers and
\* Docker's states are known, the player has one row for the challenge, whatever else
\* happens: others' requests interleave, the server dies, the manager fails, loses its
\* rows or its answers (client_challenge.go:93-160).
THEOREM OneRowAlways == CalmSpec => []OneRowWhenCalm
<1> DEFINE CInv == calm => OInv /\ InTurn
<1>1. CalmInit => CInv
  BY DEF CalmInit, Init, OInv, OneRowPerPair, NoRow, Idle, At, InTurn
<1>2. IInv /\ CInv /\ [CalmNext]_<<vars, calm>> => CInv'
  <2> SUFFICES ASSUME IInv, OInv, InTurn, calm, [CalmNext]_<<vars, calm>> PROVE OInv' /\ InTurn'
    BY DEF CalmNext
  <2>1. CASE UNCHANGED <<vars, calm>>
    BY <2>1 DEF vars, manager, OInv, OneRowPerPair, At, NoRowOf, InTurn
  <2>2. CASE Calm!Next /\ InTurn'
    <3>1. ASSUME NEW i \in Ids, Calm!ContainerExit(i) PROVE OInv'
      BY <3>1 DEF Calm!ContainerExit, OInv, OneRowPerPair, At, NoRowOf
    <3>2. CASE Calm!Kill
      <4>1. row' = row /\ req' = [h \in Handlers |-> Calm!Idle]
        BY <3>2 DEF Calm!Kill
      <4>2. \A g \in Handlers : req'[g].place \notin {"refresh", "create", "insert"}
        BY <4>1 DEF Calm!Idle
      <4>3. QED
        BY <2>2, <4>1, <4>2 DEF OInv, OneRowPerPair, At
    <3>3. QED
      BY <2>2, <3>1, <3>2, OneStart, OneStopOrStatus DEF Calm!Next
  <2>3. QED
    BY <2>1, <2>2 DEF CalmNext
<1>3. CInv => OneRowWhenCalm
  BY DEF OInv, OneRowWhenCalm
<1>4. QED
  BY <1>1, <1>2, <1>3, CalmInv, PTL DEF CalmSpec
=============================================================================
