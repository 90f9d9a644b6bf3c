---------------------------- MODULE ManagerProofs ----------------------------
(***************************************************************************)
(* Manager, for any number of requests, instances and runners and for      *)
(* every choice of failures: its rows name containers, and the causes for  *)
(* which a row and its container part are the listed ones.                 *)
(***************************************************************************)
EXTENDS Manager, FiniteSetTheorems, TLAPS

Starting(q) == q.op = "start" /\ q.place \in {"rpc", "reply", "save"}
Later == {"stop", "destroy", "status", "logs"}

\* Where the requests of an operation can be.
Proper(op, place) ==
  /\ op = "none" <=> place = "idle"
  /\ op = "start" => place \in {"select", "rpc", "reply", "save"}
  /\ op \in Later => place \in {"find", "lookup", "rpc", "reply", "update", "delete",
                                "follow"}
  /\ place = "follow" => op = "logs"
  /\ place = "delete" => op = "destroy"
  /\ place = "update" => op \in {"stop", "status"}

\* What a start knows: nobody has been told of its instance, and the runner's answer is
\* about a container that was started.
StartKnows(q) ==
  /\ q.inst \in Instances /\ at[q.inst] \in Runners
  /\ q.inst \notin told /\ row[q.inst] = NoRow
  /\ q.place = "rpc" => box[q.inst] = "none"
  /\ q.place = "reply" /\ q.reply = "success" => box[q.inst] \in {"running", "exited"}
  /\ q.place = "save" => box[q.inst] \in {"running", "exited"}

\* What the other operations know: their instance is one a caller was told of, and what the
\* runner answered is still so.
LaterKnows(q) ==
  /\ q.inst \in told
  /\ q.op = "stop" /\ (q.place = "update" \/ (q.place = "reply" /\ q.reply = "success")) =>
       box[q.inst] # "running"
  /\ q.op = "status" /\ q.place \in {"reply", "update"} =>
       q.reply \in States /\ (q.reply = "stopped" => box[q.inst] # "running")
  /\ q.op = "destroy" /\ (q.place = "delete" \/ (q.place = "reply" /\ q.reply = "success")) =>
       box[q.inst] = "removed"

Good(q) ==
  /\ Proper(q.op, q.place)
  /\ Starting(q) => StartKnows(q)
  /\ q.op \in Later => LaterKnows(q)

\* What is so of an instance whoever works on it.
Known(i) ==
  /\ row[i] # NoRow => i \in told
  /\ i \in told => box[i] \in {"running", "exited", "removed"} /\ at[i] \in Runners
  /\ row[i] = "stopped" => box[i] # "running"
  /\ box[i] # "none" => at[i] \in Runners

\* No two starts have an instance between them.
Alone ==
  \A g, h \in Handlers :
    g # h /\ Starting(req[g]) /\ Starting(req[h]) => req[g].inst # req[h].inst

MInv ==
  /\ TypeOK
  /\ \A i \in Instances : Known(i)
  /\ \A h \in Handlers : Good(req[h])
  /\ Alone

Tables ==
  /\ nextRunner \in Runners
  /\ mu \in {"free", "held"}
  /\ phase \in {"up", "cleanup", "stuck", "draining", "down"}
  /\ connected \in BOOLEAN
  /\ boots \in 1 .. MaxBoots
  /\ row \in [Instances -> States \cup {NoRow}]
  /\ at \in [Instances -> Runners \cup {NoRunner}]
  /\ box \in [Instances -> {"none", "created", "running", "exited", "removed"}]
  /\ told \subseteq Instances
  /\ \A i \in Instances : Known(i)

USE ManagerAssumption

-----------------------------------------------------------------------------
(* Requests *)

LEMMA IdleRequest ==
  /\ Idle.op = "none" /\ Idle.place = "idle" /\ Idle.reply = "none" /\ Idle.inst = NoInstance
  /\ Idle \notin Request /\ "none" \notin Ops
<1>1. "none" \notin Ops
  BY DEF Ops
<1>2. QED
  BY <1>1 DEF Idle, Request

LEMMA IdleGood == Good(Idle) /\ Good(Idle)' /\ ~Starting(Idle)
BY IdleRequest DEF Good, Proper, Starting, Later

\* How an instance may change under a request that is not its start's.
Moves(i) ==
  /\ at[i] \in Runners => at'[i] = at[i]
  /\ i \in told' <=> i \in told
  /\ i \notin told => row'[i] = row[i]
  /\ \/ box'[i] = box[i]
     \/ box[i] = "running" /\ box'[i] = "exited"
     \/ i \in told /\ box'[i] = "removed"

Harmless(h) == \A i \in Instances : Moves(i) \/ (Starting(req[h]) /\ i = req[h].inst)

LEMMA GoodStays ==
  ASSUME MInv, NEW g \in Handlers, req[g].inst \in Instances => Moves(req[g].inst)
  PROVE  Good(req[g]) /\ \A q : q = req[g] => Good(q)'
<1>1. Good(req[g]) /\ req[g] \in Request \cup {Idle}
  BY DEF MInv, TypeOK
<1>2. PICK q : q = req[g]
  OBVIOUS
<1>3. Proper(q.op, q.place)
  BY <1>1, <1>2 DEF Good
<1>4. ASSUME Starting(q) PROVE StartKnows(q)'
  <2>1. StartKnows(q)
    BY <1>1, <1>2, <1>4 DEF Good
  <2>2. Moves(q.inst)
    BY <1>2, <2>1 DEF StartKnows
  <2>3. QED
    BY <2>1, <2>2 DEF StartKnows, Moves
<1>5. ASSUME q.op \in Later PROVE LaterKnows(q)'
  <2>1. LaterKnows(q)
    BY <1>1, <1>2, <1>5 DEF Good
  <2>2. Moves(q.inst)
    BY <1>2, <2>1 DEF LaterKnows, MInv, TypeOK
  <2>3. QED
    BY <2>1, <2>2 DEF LaterKnows, Moves
<1>6. Good(q)'
  BY <1>3, <1>4, <1>5 DEF Good
<1>7. QED
  BY <1>1, <1>2, <1>6

LEMMA OthersGood ==
  ASSUME MInv, NEW h \in Handlers, NEW g \in Handlers \ {h}, Harmless(h)
  PROVE  Good(req[g]) /\ \A q : q = req[g] => Good(q)'
<1>1. ASSUME req[g].inst \in Instances, Starting(req[h]), req[g].inst = req[h].inst
      PROVE  Good(req[g]) /\ ~Starting(req[g]) /\ req[g].op \notin Later
  <2>1. Good(req[g]) /\ Good(req[h])
    BY DEF MInv
  <2>2. ~Starting(req[g])
    BY <1>1 DEF MInv, Alone
  <2>3. req[g].op \notin Later
    BY <1>1, <2>1 DEF Good, StartKnows, LaterKnows
  <2>4. QED
    BY <2>1, <2>2, <2>3
<1>2. CASE Starting(req[g]) \/ req[g].op \in Later
  BY <1>1, <1>2, GoodStays DEF Harmless
<1>3. CASE ~Starting(req[g]) /\ req[g].op \notin Later
  BY <1>3 DEF MInv, Good, Proper, Starting
<1>4. QED
  BY <1>2, <1>3

\* The invariant after a step that serves one request.
LEMMA Served ==
  ASSUME MInv, NEW h \in Handlers, NEW q \in Request \cup {Idle},
         req' = [req EXCEPT ![h] = q], Tables', Good(q)', Harmless(h),
         Starting(q) => \/ Starting(req[h]) /\ q.inst = req[h].inst
                        \/ at[q.inst] = NoRunner
  PROVE  MInv'
<1>1. /\ req' \in [Handlers -> Request \cup {Idle}] /\ req'[h] = q
      /\ \A g \in Handlers \ {h} : req'[g] = req[g]
  BY DEF MInv, TypeOK
<1>2. TypeOK' /\ \A i \in Instances : Known(i)'
  BY <1>1 DEF Tables, TypeOK
<1>3. ASSUME NEW g \in Handlers PROVE Good(req[g])'
  <2>1. CASE g = h
    BY <1>1, <2>1 DEF Good, Proper, StartKnows, LaterKnows, Starting
  <2>2. CASE g # h
    <3>1. PICK r : r = req[g]
      OBVIOUS
    <3>2. Good(r)' /\ req'[g] = r
      BY <1>1, <2>2, <3>1, OthersGood
    <3>3. QED
      BY <3>2 DEF Good, Proper, StartKnows, LaterKnows, Starting
  <2>3. QED
    BY <2>1, <2>2
<1>4. ASSUME NEW g \in Handlers \ {h}, Starting(q), Starting(req[g])
      PROVE  q.inst # req[g].inst
  <2>1. at[req[g].inst] \in Runners
    BY <1>4 DEF MInv, Good, StartKnows
  <2>2. NoRunner \notin Runners
    BY DEF NoRunner, Runners
  <2>3. QED
    BY <1>4, <2>1, <2>2 DEF MInv, Alone
<1>5. Alone'
  <2> SUFFICES ASSUME NEW f \in Handlers, NEW g \in Handlers, f # g,
                      Starting(req'[f]), Starting(req'[g])
               PROVE  req'[f].inst # req'[g].inst
    BY DEF Alone, Starting
  <2>1. CASE f = h
    BY <1>1, <1>4, <2>1
  <2>2. CASE g = h
    BY <1>1, <1>4, <2>2
  <2>3. CASE f # h /\ g # h
    BY <1>1, <2>3 DEF MInv, Alone
  <2>4. QED
    BY <2>1, <2>2, <2>3
<1>6. QED
  BY <1>2, <1>3, <1>5 DEF MInv

\* A step that leaves rows and containers alone ...
Still == UNCHANGED <<nextRunner, process, rows, box, told>>

LEMMA StillTables ==
  ASSUME MInv, NEW h \in Handlers, Still
  PROVE  Tables' /\ Harmless(h)
<1>1. Tables'
  BY DEF MInv, TypeOK, Tables, Known, Still, process, rows, Runners
<1>2. Harmless(h)
  BY DEF Harmless, Moves, Still, rows
<1>3. QED
  BY <1>1, <1>2

\* ... and one after which the request is over.
LEMMA Finished ==
  ASSUME MInv, NEW h \in Handlers, Finish(h), Tables', Harmless(h)
  PROVE  MInv'
BY IdleGood, Served DEF Finish

-----------------------------------------------------------------------------
(* StartInstance *)

LEMMA Around ==
  ASSUME NEW n \in Runners
  PROVE  /\ (n + 1) % NumRunners \in Runners
         /\ n + 1 < NumRunners => (n + 1) % NumRunners = n + 1
         /\ n + 1 = NumRunners => (n + 1) % NumRunners = 0
<1>1. n \in Int /\ 0 <= n /\ n < NumRunners /\ NumRunners \in Nat \ {0}
  BY DEF Runners
<1>2. (n + 1) % NumRunners \in Runners
  BY <1>1 DEF Runners
<1>3. n + 1 < NumRunners => (n + 1) % NumRunners = n + 1
  BY <1>1
<1>4. n + 1 = NumRunners => (n + 1) % NumRunners = 0
  BY <1>1
<1>5. QED
  BY <1>2, <1>3, <1>4

LEMMA StartRequestStep ==
  ASSUME MInv, NEW h \in Handlers, StartRequest(h)
  PROVE  MInv'
<1>1. Tables' /\ Harmless(h)
  BY StillTables DEF StartRequest, Still
<1>2. PICK q : q = [Idle EXCEPT !.op = "start", !.place = "select", !.inst = NoInstance]
  OBVIOUS
<1>3. /\ q \in Request /\ req' = [req EXCEPT ![h] = q]
      /\ q.op = "start" /\ q.place = "select"
  BY <1>2 DEF StartRequest, Begin, Idle, Request, Ops
<1>4. Good(q)' /\ ~Starting(q)
  BY <1>3 DEF Good, Proper, Starting, Later
<1>5. QED
  BY <1>1, <1>3, <1>4, Served

LEMMA SelectRunnerStep ==
  ASSUME MInv, NEW h \in Handlers, SelectRunner(h)
  PROVE  MInv'
<1>1. PICK i \in Instances :
        /\ At(h, "start", "select") /\ at[i] = NoRunner
        /\ at' = [at EXCEPT ![i] = nextRunner]
        /\ nextRunner' = (nextRunner + 1) % NumRunners
        /\ req' = [req EXCEPT ![h].place = "rpc", ![h].inst = i]
        /\ UNCHANGED <<process, row, box, told>>
  BY DEF SelectRunner
<1>2. NoRunner \notin Runners /\ nextRunner \in Runners /\ nextRunner' \in Runners
  BY <1>1, Around DEF NoRunner, Runners, MInv, TypeOK
<1>3. /\ at' \in [Instances -> Runners \cup {NoRunner}] /\ at'[i] = nextRunner
      /\ \A j \in Instances \ {i} : at'[j] = at[j]
  BY <1>1, <1>2 DEF MInv, TypeOK
<1>4. Tables'
  <2>1. \A j \in Instances : Known(j)'
    BY <1>1, <1>2, <1>3 DEF MInv, Known
  <2>2. QED
    BY <1>1, <1>2, <1>3, <2>1 DEF MInv, TypeOK, Tables, process, Runners
<1>5. Harmless(h)
  BY <1>1, <1>2, <1>3 DEF Harmless, Moves
<1>6. i \notin told /\ row[i] = NoRow /\ box[i] = "none"
  BY <1>1, <1>2 DEF MInv, Known
<1>7. PICK q : q = [req[h] EXCEPT !.place = "rpc", !.inst = i]
  OBVIOUS
<1>8. req[h] \in Request
  BY <1>1, IdleRequest DEF MInv, TypeOK, At
<1>9. /\ q \in Request /\ q.op = "start" /\ q.place = "rpc" /\ q.inst = i
      /\ req' = [req EXCEPT ![h] = q]
  BY <1>1, <1>7, <1>8 DEF At, Request
<1>10. StartKnows(q)'
  BY <1>1, <1>2, <1>3, <1>6, <1>9 DEF StartKnows
<1>11. Good(q)'
  BY <1>9, <1>10 DEF Good, Proper, Later
<1>12. QED
  BY <1>1, <1>4, <1>5, <1>9, <1>11, Served

\* What a request of an operation is and knows.
LEMMA Working ==
  ASSUME MInv, NEW h \in Handlers, NEW op \in Ops, req[h].op = op
  PROVE  /\ req[h] \in Request /\ Proper(op, req[h].place)
         /\ Starting(req[h]) => StartKnows(req[h])
         /\ op \in Later => LaterKnows(req[h]) /\ req[h].inst \in Instances
<1>1. req[h] \in Request /\ Good(req[h])
  BY IdleRequest DEF MInv, TypeOK
<1>2. QED
  BY <1>1 DEF Good, LaterKnows, MInv, TypeOK

\* A container changes; rows and the rest do not.
LEMMA BoxTables ==
  ASSUME MInv, NEW i \in Instances, NEW b \in {"none", "created", "running", "exited", "removed"},
         box' = [box EXCEPT ![i] = b],
         UNCHANGED <<nextRunner, process, rows, told>>,
         i \in told => b \in {"running", "exited", "removed"},
         row[i] = "stopped" => b # "running",
         b # "none" => at[i] \in Runners
  PROVE  /\ Tables' /\ box'[i] = b
         /\ \A j \in Instances \ {i} : Moves(j)
<1>1. /\ box' \in [Instances -> {"none", "created", "running", "exited", "removed"}]
      /\ box'[i] = b /\ \A j \in Instances \ {i} : box'[j] = box[j]
  BY DEF MInv, TypeOK
<1>2. \A j \in Instances : Known(j)'
  BY <1>1 DEF MInv, Known, rows
<1>3. Tables'
  BY <1>1, <1>2 DEF MInv, TypeOK, Tables, process, rows, Runners
<1>4. \A j \in Instances \ {i} : Moves(j)
  BY <1>1 DEF Moves, rows
<1>5. QED
  BY <1>1, <1>3, <1>4

LEMMA RunnerStartsStep ==
  ASSUME MInv, NEW h \in Handlers, RunnerStarts(h)
  PROVE  MInv'
<1>1. req[h].op = "start" /\ req[h].place = "rpc" /\ "start" \in Ops
  BY DEF RunnerStarts, At, Ops
<1>2. req[h] \in Request /\ Starting(req[h]) /\ StartKnows(req[h])
  BY <1>1, Working DEF Starting
<1>3. PICK i : i = req[h].inst
  OBVIOUS
<1>4. i \in Instances /\ at[i] \in Runners /\ i \notin told /\ row[i] = NoRow
  BY <1>2, <1>3 DEF StartKnows
<1>5. PICK b \in {"none", "created", "running"}, a \in {"success", "failed"} :
        /\ a = "success" => b = "running"
        /\ box' = [box EXCEPT ![i] = b]
        /\ req' = [req EXCEPT ![h].place = "reply", ![h].reply = a]
  <2>1. PICK outcome \in {<<"running", "success">>, <<"none", "failed">>,
                          <<"created", "failed">>, <<"running", "failed">>} :
          /\ box' = [box EXCEPT ![i] = outcome[1]]
          /\ req' = [req EXCEPT ![h].place = "reply", ![h].reply = outcome[2]]
    BY <1>3 DEF RunnerStarts, Answered
  <2>2. PICK b, a : b = outcome[1] /\ a = outcome[2]
    OBVIOUS
  <2>3. /\ b \in {"none", "created", "running"} /\ a \in {"success", "failed"}
        /\ a = "success" => b = "running"
    BY <2>2
  <2>4. QED
    BY <2>1, <2>2, <2>3
<1>6. NoRow # "stopped" /\ UNCHANGED <<nextRunner, process, rows, told>>
  BY DEF NoRow, RunnerStarts
<1>7. /\ Tables' /\ box'[i] = b /\ \A j \in Instances \ {i} : Moves(j)
  BY <1>4, <1>5, <1>6, BoxTables
<1>8. Harmless(h)
  BY <1>2, <1>3, <1>7 DEF Harmless
<1>9. PICK q : q = [req[h] EXCEPT !.place = "reply", !.reply = a]
  OBVIOUS
<1>10. /\ q \in Request /\ q.op = "start" /\ q.place = "reply" /\ q.inst = i /\ q.reply = a
       /\ req' = [req EXCEPT ![h] = q]
  BY <1>1, <1>2, <1>3, <1>5, <1>9 DEF Request, Answers
<1>11. StartKnows(q)'
  BY <1>4, <1>5, <1>6, <1>7, <1>10 DEF StartKnows, rows, Runners
<1>12. Good(q)'
  BY <1>10, <1>11 DEF Good, Proper, Later
<1>13. QED
  BY <1>2, <1>3, <1>7, <1>8, <1>10, <1>12, Served

LEMMA StartReplyStep ==
  ASSUME MInv, NEW h \in Handlers, StartReply(h)
  PROVE  MInv'
<1>1. req[h].op = "start" /\ req[h].place = "reply" /\ "start" \in Ops
  BY DEF StartReply, At, Ops
<1>2. req[h] \in Request /\ Starting(req[h]) /\ StartKnows(req[h])
  BY <1>1, Working DEF Starting
<1>3. Still /\ Tables' /\ Harmless(h)
  BY StillTables DEF StartReply, Still
<1>4. CASE Finish(h)
  BY <1>3, <1>4, Finished
<1>5. CASE req[h].reply = "success" /\ GoTo(h, "save")
  <2>1. PICK q : q = [req[h] EXCEPT !.place = "save"]
    OBVIOUS
  <2>2. /\ q \in Request /\ q.op = "start" /\ q.place = "save" /\ q.inst = req[h].inst
        /\ req' = [req EXCEPT ![h] = q]
    BY <1>1, <1>2, <1>5, <2>1 DEF Request, GoTo
  <2>3. StartKnows(q)'
    BY <1>1, <1>2, <1>3, <1>5, <2>2 DEF StartKnows, Still, rows, Runners
  <2>4. Good(q)'
    BY <2>2, <2>3 DEF Good, Proper, Later
  <2>5. QED
    BY <1>2, <1>3, <2>2, <2>4, Served
<1>6. QED
  BY <1>4, <1>5 DEF StartReply

\* A row changes; containers do not.
LEMMA RowTables ==
  ASSUME MInv, NEW i \in Instances, NEW s \in States \cup {NoRow},
         row' = [row EXCEPT ![i] = s],
         UNCHANGED <<nextRunner, process, at, box>>,
         told' = told \/ told' = told \cup {i},
         s # NoRow => i \in told',
         i \in told' => box[i] \in {"running", "exited", "removed"} /\ at[i] \in Runners,
         s = "stopped" => box[i] # "running"
  PROVE  /\ Tables' /\ row'[i] = s
         /\ \A j \in Instances \ {i} : Moves(j)
         /\ i \in told => Moves(i)
<1>1. /\ row' \in [Instances -> States \cup {NoRow}]
      /\ row'[i] = s /\ \A j \in Instances \ {i} : row'[j] = row[j]
  BY DEF MInv, TypeOK
<1>2. \A j \in Instances : Known(j)'
  BY <1>1 DEF MInv, Known
<1>3. Tables'
  BY <1>1, <1>2 DEF MInv, TypeOK, Tables, process, Runners
<1>4. \A j \in Instances \ {i} : Moves(j)
  BY <1>1 DEF Moves
<1>5. QED
  BY <1>1, <1>3, <1>4 DEF Moves

LEMMA SaveRowStep ==
  ASSUME MInv, NEW h \in Handlers, SaveRow(h)
  PROVE  MInv'
<1>1. req[h].op = "start" /\ req[h].place = "save" /\ "start" \in Ops
  BY DEF SaveRow, At, Ops
<1>2. Starting(req[h]) /\ StartKnows(req[h])
  BY <1>1, Working DEF Starting
<1>3. PICK i : i = req[h].inst
  OBVIOUS
<1>4. /\ i \in Instances /\ at[i] \in Runners /\ box[i] \in {"running", "exited"}
      /\ row[i] = NoRow
  BY <1>1, <1>2, <1>3 DEF StartKnows
<1>5. PICK s \in {"running", NoRow} : row' = [row EXCEPT ![i] = s]
  <2>1. row' = [row EXCEPT ![i] = "running"] \/ row' = row
    BY <1>3 DEF SaveRow
  <2>2. row = [row EXCEPT ![i] = NoRow]
    BY <1>4 DEF MInv, TypeOK
  <2>3. QED
    BY <2>1, <2>2
<1>6. told' = told \cup {i} /\ Finish(h) /\ UNCHANGED <<nextRunner, process, at, box>>
  BY <1>3 DEF SaveRow
<1>7. s \in States \cup {NoRow} /\ s # "stopped"
  BY <1>5 DEF States, NoRow
<1>8. Tables' /\ \A j \in Instances \ {i} : Moves(j)
  BY <1>4, <1>5, <1>6, <1>7, RowTables
<1>9. Harmless(h)
  BY <1>2, <1>3, <1>8 DEF Harmless
<1>10. QED
  BY <1>6, <1>8, <1>9, Finished

-----------------------------------------------------------------------------
(* StopInstance, DestroyInstance, GetInstanceStatus *)

LEMMA TargetStep ==
  ASSUME MInv, NEW h \in Handlers, NEW op \in Later, Target(h, op)
  PROVE  MInv'
<1>1. Tables' /\ Harmless(h) /\ told' = told
  BY StillTables DEF Target, Still
<1>2. PICK i \in told : Begin(h, op, "find", i)
  BY DEF Target
<1>3. PICK q : q = [Idle EXCEPT !.op = op, !.place = "find", !.inst = i]
  OBVIOUS
<1>4. /\ q \in Request /\ req' = [req EXCEPT ![h] = q]
      /\ q.op = op /\ q.place = "find" /\ q.inst = i
  BY <1>2, <1>3 DEF Begin, Idle, Request, Ops, Later, MInv, TypeOK
<1>5. ~Starting(q) /\ LaterKnows(q)' /\ Proper(q.op, q.place)
  BY <1>1, <1>4 DEF Starting, LaterKnows, Proper, Later
<1>6. Good(q)'
  BY <1>5 DEF Good
<1>7. QED
  BY <1>1, <1>4, <1>5, <1>6, Served

LEMMA FindByIDStep ==
  ASSUME MInv, NEW h \in Handlers, NEW op \in Later, FindByID(h, op)
  PROVE  MInv'
<1>1. Still /\ Tables' /\ Harmless(h)
  BY StillTables DEF FindByID, Still
<1>2. /\ req[h].op = op /\ req[h].place = "find" /\ op \in Ops
      /\ req[h] \in Request /\ LaterKnows(req[h]) /\ req[h].inst \in Instances
  BY Working DEF FindByID, At, Ops, Later
<1>3. CASE Finish(h)
  BY <1>1, <1>3, Finished
<1>4. CASE /\ row[req[h].inst] # NoRow
           /\ \E s \in {row[req[h].inst], "none"} :
                req' = [req EXCEPT ![h].place = "lookup", ![h].snap = s]
  <2>0. PICK s \in {row[req[h].inst], "none"} :
          req' = [req EXCEPT ![h].place = "lookup", ![h].snap = s]
    BY <1>4
  <2>1. PICK q : q = [req[h] EXCEPT !.place = "lookup", !.snap = s]
    OBVIOUS
  <2>2. s \in States \cup {"none"}
    BY <1>2, <1>4, <2>0 DEF MInv, TypeOK
  <2>3. /\ q \in Request /\ req' = [req EXCEPT ![h] = q]
        /\ q.op = op /\ q.place = "lookup" /\ q.inst = req[h].inst
    BY <1>2, <2>0, <2>1, <2>2 DEF Request
  <2>4. ~Starting(q) /\ LaterKnows(q)' /\ Proper(q.op, q.place)
    BY <1>1, <1>2, <2>3 DEF Starting, LaterKnows, Proper, Later, Still
  <2>5. QED
    BY <1>1, <2>3, <2>4, Served DEF Good
<1>5. QED
  BY <1>3, <1>4 DEF FindByID

LEMMA GetRunnerByURLStep ==
  ASSUME MInv, NEW h \in Handlers, NEW op \in Later, GetRunnerByURL(h, op)
  PROVE  MInv'
<1>1. Still /\ Tables' /\ Harmless(h)
  BY StillTables DEF GetRunnerByURL, Still
<1>2. /\ req[h].op = op /\ req[h].place = "lookup" /\ op \in Ops
      /\ req[h] \in Request /\ LaterKnows(req[h])
  BY Working DEF GetRunnerByURL, At, Ops, Later
<1>3. PICK q : q = [req[h] EXCEPT !.place = "rpc"]
  OBVIOUS
<1>4. /\ q \in Request /\ req' = [req EXCEPT ![h] = q]
      /\ q.op = op /\ q.place = "rpc" /\ q.inst = req[h].inst
  BY <1>2, <1>3 DEF Request, GetRunnerByURL, GoTo
<1>5. ~Starting(q) /\ LaterKnows(q)' /\ Proper(q.op, q.place)
  BY <1>1, <1>2, <1>4 DEF Starting, LaterKnows, Proper, Later, Still
<1>6. QED
  BY <1>1, <1>4, <1>5, Served DEF Good

\* A log is opened, has its end or is left.
LogSteps(h) == OpenLogs(h) \/ LogsEnd(h) \/ LogsHangUp(h)

LEMMA LogStep ==
  ASSUME MInv, NEW h \in Handlers, LogSteps(h)
  PROVE  MInv'
<1>1. Still /\ Tables' /\ Harmless(h)
  BY StillTables DEF LogSteps, OpenLogs, LogsEnd, LogsHangUp, Still
<1>2. CASE Finish(h)
  BY <1>1, <1>2, Finished
<1>3. CASE At(h, "logs", "rpc") /\ GoTo(h, "follow")
  <2>1. /\ req[h].op = "logs" /\ "logs" \in Ops /\ "logs" \in Later
        /\ req[h] \in Request /\ LaterKnows(req[h])
    BY <1>3, Working DEF At, Ops, Later
  <2>2. PICK q : q = [req[h] EXCEPT !.place = "follow"]
    OBVIOUS
  <2>3. /\ q \in Request /\ req' = [req EXCEPT ![h] = q]
        /\ q.op = "logs" /\ q.place = "follow" /\ q.inst = req[h].inst
    BY <1>3, <2>1, <2>2 DEF Request, GoTo
  <2>4. ~Starting(q) /\ LaterKnows(q)' /\ Proper(q.op, q.place)
    BY <1>1, <2>1, <2>3 DEF Starting, LaterKnows, Proper, Later, Still
  <2>5. QED
    BY <1>1, <2>3, <2>4, Served DEF Good
<1>4. QED
  BY <1>2, <1>3 DEF LogSteps, OpenLogs, LogsEnd, LogsHangUp

LEMMA CallFailsStep ==
  ASSUME MInv, NEW h \in Handlers, NEW op \in Ops, CallFails(h, op)
  PROVE  MInv'
<1>1. Still /\ Tables' /\ Harmless(h)
  BY StillTables DEF CallFails, Still
<1>2. QED
  BY <1>1, Finished DEF CallFails

\* The runner's answer to a stop, a destroy or a question is noted.
LEMMA NotedStep ==
  ASSUME MInv, NEW h \in Handlers, req[h].op \in Later, req[h].place = "rpc",
         NEW a \in Answers, Answered(h, "reply", a), Tables', Harmless(h), told' = told,
         req[h].op = "stop" /\ a = "success" => box'[req[h].inst] # "running",
         req[h].op = "destroy" /\ a = "success" => box'[req[h].inst] = "removed",
         req[h].op = "status" =>
           a \in States /\ (a = "stopped" => box'[req[h].inst] # "running")
  PROVE  MInv'
<1>1. req[h] \in Request /\ LaterKnows(req[h])
  BY Working DEF Ops, Later
<1>2. PICK q : q = [req[h] EXCEPT !.place = "reply", !.reply = a]
  OBVIOUS
<1>3. /\ q \in Request /\ req' = [req EXCEPT ![h] = q]
      /\ q.op = req[h].op /\ q.place = "reply" /\ q.inst = req[h].inst /\ q.reply = a
  BY <1>1, <1>2 DEF Request, Answered
<1>4. ~Starting(q) /\ LaterKnows(q)' /\ Proper(q.op, q.place)
  BY <1>1, <1>3 DEF Starting, LaterKnows, Proper, Later
<1>5. QED
  BY <1>3, <1>4, Served DEF Good

LEMMA RunnerStopsStep ==
  ASSUME MInv, NEW h \in Handlers, RunnerStops(h)
  PROVE  MInv'
<1>1. /\ req[h].op = "stop" /\ req[h].place = "rpc" /\ "stop" \in Ops
      /\ LaterKnows(req[h]) /\ req[h].inst \in Instances
  BY Working DEF RunnerStops, At, Ops, Later
<1>2. PICK i : i = req[h].inst
  OBVIOUS
<1>3. i \in Instances /\ i \in told /\ box[i] \in {"running", "exited", "removed"}
      /\ at[i] \in Runners
  BY <1>1, <1>2 DEF LaterKnows, MInv, Known
<1>4. UNCHANGED <<nextRunner, process, rows, told>> /\ {"success", "failed"} \subseteq Answers
      /\ "stop" \in Later
  BY DEF RunnerStops, Answers, Later
<1>5. CASE UNCHANGED box /\ Answered(h, "reply", "failed")
  <2>1. Tables' /\ Harmless(h)
    BY <1>4, <1>5, StillTables DEF Still
  <2>2. QED
    BY <1>1, <1>4, <1>5, <2>1, NotedStep
<1>6. CASE /\ Exists(i) /\ Answered(h, "reply", "success")
           /\ box' = [box EXCEPT ![i] = IF @ = "running" THEN "exited" ELSE @]
  <2>1. PICK b : b = IF box[i] = "running" THEN "exited" ELSE box[i]
    OBVIOUS
  <2>2. b \in {"exited", "removed"} /\ box' = [box EXCEPT ![i] = b]
        /\ (b = box[i] \/ (box[i] = "running" /\ b = "exited"))
    BY <1>3, <1>6, <2>1
  <2>3. Tables' /\ box'[i] = b /\ \A j \in Instances \ {i} : Moves(j)
    BY <1>3, <1>4, <2>2, BoxTables
  <2>4. Moves(i)
    BY <1>4, <2>2, <2>3 DEF Moves, rows
  <2>5. Harmless(h)
    BY <2>3, <2>4 DEF Harmless
  <2>6. box'[req[h].inst] # "running"
    BY <1>2, <2>2, <2>3
  <2>7. QED
    BY <1>1, <1>4, <1>6, <2>3, <2>5, <2>6, NotedStep
<1>7. QED
  BY <1>2, <1>5, <1>6 DEF RunnerStops

LEMMA RunnerDestroysStep ==
  ASSUME MInv, NEW h \in Handlers, RunnerDestroys(h)
  PROVE  MInv'
<1>1. /\ req[h].op = "destroy" /\ req[h].place = "rpc" /\ "destroy" \in Ops
      /\ LaterKnows(req[h]) /\ req[h].inst \in Instances
  BY Working DEF RunnerDestroys, At, Ops, Later
<1>2. PICK i : i = req[h].inst
  OBVIOUS
<1>3. i \in Instances /\ i \in told /\ at[i] \in Runners
  BY <1>1, <1>2 DEF LaterKnows, MInv, Known
<1>4. UNCHANGED <<nextRunner, process, rows, told>> /\ {"success", "failed"} \subseteq Answers
      /\ "destroy" \in Later
  BY DEF RunnerDestroys, Answers, Later
<1>5. CASE UNCHANGED box /\ Answered(h, "reply", "failed")
  <2>1. Tables' /\ Harmless(h)
    BY <1>4, <1>5, StillTables DEF Still
  <2>2. QED
    BY <1>1, <1>4, <1>5, <2>1, NotedStep
<1>6. CASE box' = [box EXCEPT ![i] = "removed"] /\ Answered(h, "reply", "success")
  <2>1. Tables' /\ box'[i] = "removed" /\ \A j \in Instances \ {i} : Moves(j)
    BY <1>3, <1>4, <1>6, BoxTables
  <2>2. Moves(i)
    BY <1>3, <1>4, <2>1 DEF Moves, rows
  <2>3. Harmless(h)
    BY <2>1, <2>2 DEF Harmless
  <2>4. box'[req[h].inst] = "removed"
    BY <1>2, <2>1
  <2>5. QED
    BY <1>1, <1>4, <1>6, <2>1, <2>3, <2>4, NotedStep
<1>7. QED
  BY <1>2, <1>5, <1>6 DEF RunnerDestroys

LEMMA RunnerReportsStep ==
  ASSUME MInv, NEW h \in Handlers, RunnerReports(h)
  PROVE  MInv'
<1>1. /\ req[h].op = "status" /\ req[h].place = "rpc" /\ "status" \in Later
      /\ Still /\ Tables' /\ Harmless(h)
  BY StillTables DEF RunnerReports, At, Still, Later
<1>2. PICK s \in {RunnerState(box[req[h].inst]), "destroyed"} : Answered(h, "reply", s)
  BY DEF RunnerReports
<1>3. s \in States /\ (s = "stopped" => box[req[h].inst] # "running")
  BY <1>2 DEF RunnerState, States
<1>4. QED
  BY <1>1, <1>2, <1>3, NotedStep DEF Answers, Still

\* What is answered leads on to the table.
LEMMA ReplyStep ==
  ASSUME MInv, NEW h \in Handlers, StopReply(h) \/ DestroyReply(h) \/ StatusReply(h)
  PROVE  MInv'
<1>1. Still /\ Tables' /\ Harmless(h)
  BY StillTables DEF StopReply, DestroyReply, StatusReply, Still
<1>2. /\ req[h].op \in Later /\ req[h].place = "reply"
      /\ req[h] \in Request /\ LaterKnows(req[h])
  BY Working DEF StopReply, DestroyReply, StatusReply, At, Ops, Later
<1>3. CASE Finish(h)
  BY <1>1, <1>3, Finished
<1>4. ASSUME NEW p \in {"update", "delete"}, GoTo(h, p),
             p = "delete" <=> req[h].op = "destroy", req[h].op # "logs",
             req[h].op \in {"stop", "destroy"} => req[h].reply = "success"
      PROVE  MInv'
  <2>1. PICK q : q = [req[h] EXCEPT !.place = p]
    OBVIOUS
  <2>2. /\ q \in Request /\ req' = [req EXCEPT ![h] = q]
        /\ q.op = req[h].op /\ q.place = p /\ q.inst = req[h].inst /\ q.reply = req[h].reply
    BY <1>2, <1>4, <2>1 DEF Request, GoTo
  <2>3. ~Starting(q) /\ LaterKnows(q)' /\ Proper(q.op, q.place)
    BY <1>1, <1>2, <1>4, <2>2 DEF Starting, LaterKnows, Proper, Later, Still
  <2>4. QED
    BY <1>1, <2>2, <2>3, Served DEF Good
<1>5. QED
  BY <1>3, <1>4 DEF StopReply, DestroyReply, StatusReply, At

LEMMA UpdateStep ==
  ASSUME MInv, NEW h \in Handlers, StopUpdate(h) \/ StatusUpdate(h)
  PROVE  MInv'
<1>1. /\ req[h].op \in Later /\ req[h].place = "update"
      /\ LaterKnows(req[h]) /\ req[h].inst \in Instances
  BY Working DEF StopUpdate, StatusUpdate, At, Ops, Later
<1>2. PICK i : i = req[h].inst
  OBVIOUS
<1>3. PICK s \in States : UpdateState(i, s) /\ (s = "stopped" => box[i] # "running")
  <2>1. CASE StopUpdate(h)
    <3>1. UpdateState(i, "stopped") /\ box[i] # "running" /\ "stopped" \in States
      BY <1>1, <1>2, <2>1 DEF StopUpdate, At, LaterKnows, States
    <3>2. QED
      BY <3>1
  <2>2. CASE StatusUpdate(h)
    <3>1. /\ UpdateState(i, req[h].reply) /\ req[h].reply \in States
          /\ req[h].reply = "stopped" => box[i] # "running"
      BY <1>1, <1>2, <2>2 DEF StatusUpdate, At, LaterKnows
    <3>2. QED
      BY <3>1
  <2>3. QED
    BY <2>1, <2>2
<1>4. Finish(h) /\ UNCHANGED <<nextRunner, process, at, box, told>>
  BY DEF StopUpdate, StatusUpdate
<1>5. i \in Instances /\ i \in told /\ Known(i)
  BY <1>1, <1>2 DEF LaterKnows, MInv
<1>6. CASE UNCHANGED row
  BY <1>4, <1>6, StillTables, Finished DEF Still, rows
<1>7. CASE row' = [row EXCEPT ![i] = IF @ = NoRow THEN @ ELSE s]
  <2>1. PICK t : t = IF row[i] = NoRow THEN NoRow ELSE s
    OBVIOUS
  <2>2. row' = [row EXCEPT ![i] = t]
    BY <1>7, <2>1
  <2>3. t \in States \cup {NoRow} /\ (t = "stopped" => box[i] # "running")
    BY <1>3, <2>1 DEF NoRow
  <2>4. Tables' /\ Moves(i) /\ \A j \in Instances \ {i} : Moves(j)
    BY <1>4, <1>5, <2>2, <2>3, RowTables DEF Known
  <2>5. QED
    BY <1>4, <2>4, Finished DEF Harmless
<1>8. QED
  BY <1>3, <1>6, <1>7 DEF UpdateState

LEMMA DestroyDeleteStep ==
  ASSUME MInv, NEW h \in Handlers, DestroyDelete(h)
  PROVE  MInv'
<1>1. /\ req[h].op = "destroy" /\ "destroy" \in Later
      /\ LaterKnows(req[h]) /\ req[h].inst \in Instances
  BY Working DEF DestroyDelete, At, Ops, Later
<1>2. PICK i : i = req[h].inst
  OBVIOUS
<1>3. i \in Instances /\ i \in told /\ Known(i)
  BY <1>1, <1>2 DEF LaterKnows, MInv
<1>4. Finish(h) /\ UNCHANGED <<nextRunner, process, at, box, told>>
  BY DEF DestroyDelete
<1>5. CASE UNCHANGED row
  BY <1>4, <1>5, StillTables, Finished DEF Still, rows
<1>6. CASE row' = [row EXCEPT ![i] = NoRow]
  <2>1. Tables' /\ Moves(i) /\ \A j \in Instances \ {i} : Moves(j)
    BY <1>3, <1>4, <1>6, RowTables DEF Known, NoRow
  <2>2. QED
    BY <1>4, <2>1, Finished DEF Harmless
<1>7. QED
  BY <1>2, <1>5, <1>6 DEF DestroyDelete

-----------------------------------------------------------------------------
(* Steps that serve no request *)

LEMMA Unserved ==
  ASSUME MInv, req' = req, Tables', \A i \in Instances : Moves(i)
  PROVE  MInv'
<1>1. TypeOK' /\ \A i \in Instances : Known(i)'
  BY DEF Tables, TypeOK, MInv
<1>2. ASSUME NEW g \in Handlers PROVE Good(req[g])'
  <2>1. PICK r : r = req[g]
    OBVIOUS
  <2>2. Good(r)' /\ req'[g] = r
    BY <2>1, GoodStays
  <2>3. QED
    BY <2>2 DEF Good, Proper, StartKnows, LaterKnows, Starting
<1>3. Alone'
  BY DEF MInv, Alone
<1>4. QED
  BY <1>1, <1>2, <1>3 DEF MInv

LEMMA ProcessStep ==
  ASSUME MInv, CleanupLock \/ CleanupFindAll \/ GracefulStop \/ Boot \/ UNCHANGED vars
  PROVE  MInv'
<1>1. req' = req /\ UNCHANGED <<rows, box, told>>
  BY DEF CleanupLock, CleanupFindAll, GracefulStop, Boot, vars
<1>2. \A i \in Instances : Known(i)' /\ Moves(i)
  BY <1>1 DEF MInv, Known, Moves, rows, Runners
<1>3. /\ nextRunner' \in Runners
      /\ mu' \in {"free", "held"}
      /\ phase' \in {"up", "cleanup", "stuck", "draining", "down"}
      /\ connected' \in BOOLEAN
      /\ boots' \in 1 .. MaxBoots
  <2>1. TypeOK /\ 0 \in Runners /\ Runners' = Runners
    BY DEF MInv, Runners
  <2>2. CASE CleanupLock \/ GracefulStop \/ UNCHANGED vars
    BY <2>1, <2>2 DEF TypeOK, CleanupLock, GracefulStop, vars, process
  <2>3. CASE CleanupFindAll
    BY <2>1, <2>3 DEF TypeOK, CleanupFindAll
  <2>4. CASE Boot
    BY <2>1, <2>4 DEF TypeOK, Boot
  <2>5. QED
    BY <2>2, <2>3, <2>4
<1>4. Tables'
  BY <1>1, <1>2, <1>3 DEF Tables, MInv, TypeOK, rows, Runners
<1>5. QED
  BY <1>1, <1>2, <1>4, Unserved

LEMMA KillStep ==
  ASSUME MInv, Kill
  PROVE  MInv'
<1>1. UNCHANGED <<nextRunner, connected, boots, rows, box, told>> /\ mu' = "free"
      /\ phase' = "down" /\ \A h \in Handlers : req'[h] = Idle
  BY DEF Kill
<1>2. TypeOK' /\ \A i \in Instances : Known(i)'
  BY <1>1 DEF Kill, MInv, TypeOK, Known, rows, Runners
<1>3. \A h \in Handlers : Good(req[h])'
  BY <1>1, IdleRequest DEF Good, Proper, Starting, Later
<1>4. Alone'
  BY <1>1, IdleRequest DEF Alone, Starting
<1>5. QED
  BY <1>2, <1>3, <1>4 DEF MInv

LEMMA ContainerExitStep ==
  ASSUME MInv, NEW i \in Instances, ContainerExit(i)
  PROVE  MInv'
<1>1. /\ req' = req /\ box[i] = "running" /\ box' = [box EXCEPT ![i] = "exited"]
      /\ UNCHANGED <<nextRunner, process, rows, told>>
  BY DEF ContainerExit
<1>2. at[i] \in Runners
  BY <1>1 DEF MInv, Known
<1>3. Tables' /\ box'[i] = "exited" /\ \A j \in Instances \ {i} : Moves(j)
  BY <1>1, <1>2, BoxTables
<1>4. Moves(i)
  BY <1>1, <1>3 DEF Moves, rows
<1>5. QED
  BY <1>1, <1>3, <1>4, Unserved

LEMMA ManagerInit == Init => MInv
<1> SUFFICES ASSUME Init PROVE MInv
  OBVIOUS
<1>1. TypeOK
  <2>1. 0 \in Runners /\ 1 \in 1 .. MaxBoots
    BY DEF Runners
  <2>2. req \in [Handlers -> Request \cup {Idle}]
    BY DEF Init
  <2>3. QED
    BY <2>1, <2>2 DEF Init, TypeOK
<1>2. \A i \in Instances : Known(i)
  BY DEF Init, Known, NoRow
<1>3. \A h \in Handlers : Good(req[h]) /\ ~Starting(req[h])
  BY IdleGood DEF Init
<1>4. QED
  BY <1>1, <1>2, <1>3 DEF MInv, Alone

LEMMA OwnStep ==
  ASSUME MInv, NEW h \in Handlers, Step(h) \/ Caller(h)
  PROVE  MInv'
<1>1. Ops \ {"start"} = Later /\ Later \subseteq Ops
  BY DEF Ops, Later
<1>2. CASE Caller(h)
  BY <1>1, <1>2, StartRequestStep, TargetStep, LogStep DEF Caller, LogSteps
<1>3. CASE SelectRunner(h) \/ RunnerStarts(h) \/ StartReply(h) \/ SaveRow(h)
  BY <1>3, SelectRunnerStep, RunnerStartsStep, StartReplyStep, SaveRowStep
<1>4. CASE \E op \in Ops \ {"start"} : FindByID(h, op) \/ GetRunnerByURL(h, op)
  BY <1>1, <1>4, FindByIDStep, GetRunnerByURLStep
<1>5. CASE \E op \in Ops : CallFails(h, op)
  BY <1>5, CallFailsStep
<1>6. CASE RunnerStops(h) \/ RunnerDestroys(h) \/ RunnerReports(h) \/ LogSteps(h)
  BY <1>6, RunnerStopsStep, RunnerDestroysStep, RunnerReportsStep, LogStep
<1>7. CASE StopReply(h) \/ DestroyReply(h) \/ StatusReply(h)
  BY <1>7, ReplyStep
<1>8. CASE StopUpdate(h) \/ StatusUpdate(h) \/ DestroyDelete(h)
  BY <1>8, UpdateStep, DestroyDeleteStep
<1>9. QED
  BY <1>2, <1>3, <1>4, <1>5, <1>6, <1>7, <1>8 DEF Step, LogSteps

LEMMA ManagerStep == MInv /\ [Next]_vars => MInv'
BY OwnStep, ProcessStep, KillStep, ContainerExitStep DEF Next

\* What requests know of rows and containers is so in every state.
THEOREM MInvAlways == Spec => []MInv
BY ManagerInit, ManagerStep, PTL DEF Spec

\* Rows, requests and runners keep their types, for any number of runners: the runner
\* that was chosen is one of the list (manager.go:64).
THEOREM TypeCorrect == Spec => []TypeOK
<1>1. MInv => TypeOK
  BY DEF MInv
<1>2. QED
  BY <1>1, MInvAlways, PTL

\* A row is written only for a container that was started on the runner the row names.
THEOREM RowsNamed == Spec => []RowsNameContainers
<1>1. MInv => RowsNameContainers
  BY DEF MInv, Known, RowsNameContainers
<1>2. QED
  BY <1>1, MInvAlways, PTL

\* "stopped" is never said of a container that runs.
THEOREM StoppedRight == Spec => []StoppedIsStopped
<1>1. MInv => StoppedIsStopped
  BY DEF MInv, Known, StoppedIsStopped
<1>2. QED
  BY <1>1, MInvAlways, PTL

-----------------------------------------------------------------------------
(* Rows and containers part *)

\* A step serves one request.
LEMMA ServesOne ==
  ASSUME MInv, NEW h \in Handlers, Step(h) \/ Caller(h), NEW g \in Handlers \ {h}
  PROVE  req'[g] = req[g]
<1>1. \E q : req' = [req EXCEPT ![h] = q]
  <2>1. CASE Caller(h)
    BY <2>1 DEF Caller, LogsHangUp, Finish, StartRequest, Target, Begin
  <2>2. CASE SelectRunner(h)
    BY <2>2 DEF SelectRunner
  <2>3. CASE RunnerStarts(h) \/ StartReply(h) \/ SaveRow(h)
    BY <2>3 DEF RunnerStarts, StartReply, SaveRow, Answered, GoTo, Finish
  <2>4. CASE \E op \in Ops \ {"start"} : FindByID(h, op) \/ GetRunnerByURL(h, op)
    BY <2>4 DEF FindByID, GetRunnerByURL, GoTo, Finish
  <2>5. CASE \E op \in Ops : CallFails(h, op)
    BY <2>5 DEF CallFails, Finish
  <2>6. CASE RunnerStops(h) \/ RunnerDestroys(h) \/ RunnerReports(h) \/ LogSteps(h)
    BY <2>6 DEF RunnerStops, RunnerDestroys, RunnerReports, Answered, GoTo, Finish,
                LogSteps, OpenLogs, LogsEnd, LogsHangUp
  <2>7. CASE StopReply(h) \/ DestroyReply(h) \/ StatusReply(h)
    BY <2>7 DEF StopReply, DestroyReply, StatusReply, GoTo, Finish
  <2>8. CASE StopUpdate(h) \/ StatusUpdate(h) \/ DestroyDelete(h)
    BY <2>8 DEF StopUpdate, StatusUpdate, DestroyDelete, Finish
  <2>9. QED
    BY <2>1, <2>2, <2>3, <2>4, <2>5, <2>6, <2>7, <2>8 DEF Step, LogSteps
<1>2. QED
  BY <1>1 DEF MInv, TypeOK

\* What a row and a container can come to, and whose step it is.
Changes(i) ==
  \/ row'[i] = row[i] /\ box'[i] = box[i]
  \/ /\ row'[i] = row[i] /\ box'[i] \in {"none", "created", "running"}
     /\ \E h \in Handlers : req[h].inst = i /\ At(h, "start", "rpc")
  \/ row'[i] = row[i] /\ box[i] = "running" /\ box'[i] = "exited"
  \/ /\ row'[i] = row[i] /\ box'[i] = "removed" /\ InDestroy(i)'
     /\ \E h \in Handlers : req[h].inst = i /\ At(h, "destroy", "rpc")
  \/ /\ row'[i] # NoRow /\ box'[i] = box[i] /\ box[i] \in {"running", "exited"}
     /\ \E h \in Handlers : req[h].inst = i /\ At(h, "start", "save")
  \/ row[i] # NoRow /\ row'[i] # NoRow /\ box'[i] = box[i]
  \/ row'[i] = NoRow /\ box'[i] = box[i] /\ box[i] = "removed"

LEMMA HowChanged ==
  ASSUME MInv, [Next]_vars, NEW i \in Instances
  PROVE  Changes(i)
<1>a. /\ row \in [Instances -> States \cup {NoRow}]
      /\ box \in [Instances -> {"none", "created", "running", "exited", "removed"}]
      /\ req \in [Handlers -> Request \cup {Idle}]
  BY DEF MInv, TypeOK
<1>b. CASE row' = row /\ box' = box
  BY <1>b DEF Changes
<1>1. CASE UNCHANGED vars \/ CleanupLock \/ CleanupFindAll \/ GracefulStop \/ Kill \/ Boot
  <2>1. row' = row /\ box' = box
    BY <1>1 DEF vars, rows, CleanupLock, CleanupFindAll, GracefulStop, Kill, Boot
  <2>2. QED
    BY <1>b, <2>1
<1>2. ASSUME NEW j \in Instances, ContainerExit(j) PROVE Changes(i)
  <2>1. /\ row' = row /\ box[j] = "running" /\ box'[j] = "exited"
        /\ j # i => box'[i] = box[i]
    BY <1>2, <1>a DEF ContainerExit, rows
  <2>2. QED
    BY <2>1 DEF Changes
<1>3. ASSUME NEW h \in Handlers, RunnerStarts(h) PROVE Changes(i)
  <2>1. /\ row' = row /\ At(h, "start", "rpc")
        /\ req[h].inst # i => box'[i] = box[i]
        /\ req[h].inst = i => box'[i] \in {"none", "created", "running"}
    BY <1>3, <1>a DEF RunnerStarts, rows
  <2>2. QED
    BY <2>1 DEF Changes
<1>4. ASSUME NEW h \in Handlers, RunnerStops(h) PROVE Changes(i)
  <2>1. PICK j : j = req[h].inst
    OBVIOUS
  <2>2. /\ row' = row
        /\ \/ box' = box
           \/ Exists(j) /\ box' = [box EXCEPT ![j] = IF @ = "running" THEN "exited" ELSE @]
    BY <1>4, <2>1 DEF RunnerStops, rows
  <2>3. CASE Exists(j) /\ box' = [box EXCEPT ![j] = IF @ = "running" THEN "exited" ELSE @]
    <3>1. j = i => box'[i] = box[i] \/ (box[i] = "running" /\ box'[i] = "exited")
      BY <1>a, <2>3
    <3>2. j # i => box'[i] = box[i]
      BY <1>a, <2>3
    <3>3. QED
      BY <2>2, <3>1, <3>2 DEF Changes
  <2>4. QED
    BY <1>b, <2>2, <2>3
<1>5. ASSUME NEW h \in Handlers, RunnerDestroys(h) PROVE Changes(i)
  <2>1. PICK j : j = req[h].inst
    OBVIOUS
  <2>2. /\ row' = row /\ req[h].op = "destroy" /\ req[h].place = "rpc"
        /\ \/ box' = box
           \/ box' = [box EXCEPT ![j] = "removed"] /\ Answered(h, "reply", "success")
    BY <1>5, <2>1 DEF RunnerDestroys, rows, At
  <2>3. CASE box' = [box EXCEPT ![j] = "removed"] /\ Answered(h, "reply", "success")
    <3>1. req[h] \in Request
      BY <1>a, <2>2, IdleRequest
    <3>2. PICK q : q = [req[h] EXCEPT !.place = "reply", !.reply = "success"]
      OBVIOUS
    <3>3. /\ q.op = "destroy" /\ q.place = "reply" /\ q.reply = "success" /\ q.inst = j
          /\ req'[h] = q
      BY <1>a, <2>1, <2>2, <2>3, <3>1, <3>2 DEF Answered, Request
    <3>4. j = i => InDestroy(i)'
      BY <3>3 DEF InDestroy, At
    <3>5. /\ j # i => box'[i] = box[i]
          /\ j = i => box'[i] = "removed"
      BY <1>a, <2>3
    <3>6. QED
      BY <2>1, <2>2, <3>4, <3>5 DEF Changes, At
  <2>4. QED
    BY <1>b, <2>2, <2>3
<1>6. ASSUME NEW h \in Handlers, SaveRow(h) PROVE Changes(i)
  <2>1. req[h].op = "start" /\ req[h].place = "save" /\ "start" \in Ops
    BY <1>6 DEF SaveRow, At, Ops
  <2>2. box[req[h].inst] \in {"running", "exited"}
    BY <2>1, Working DEF Starting, StartKnows
  <2>3. CASE row' = [row EXCEPT ![req[h].inst] = "running"] /\ box' = box
    <3>1. req[h].inst = i => row'[i] = "running" /\ "running" # NoRow
      BY <1>a, <2>3 DEF NoRow
    <3>2. req[h].inst # i => row'[i] = row[i]
      BY <1>a, <2>3
    <3>3. QED
      BY <2>1, <2>2, <2>3, <3>1, <3>2 DEF Changes, At
  <2>4. QED
    BY <1>6, <1>b, <2>3 DEF SaveRow
<1>7. ASSUME NEW h \in Handlers, StopUpdate(h) \/ StatusUpdate(h) PROVE Changes(i)
  <2>1. PICK j, s : /\ UpdateState(j, s) /\ box' = box /\ j \in Instances
                    /\ s \in States /\ s # NoRow
    <3>1. CASE StopUpdate(h)
      <4>1. req[h].inst \in Instances /\ "stopped" \in States /\ "stopped" # NoRow
        BY <3>1, Working DEF StopUpdate, At, Ops, Later, States, NoRow
      <4>2. UpdateState(req[h].inst, "stopped") /\ box' = box
        BY <3>1 DEF StopUpdate
      <4>3. QED
        BY <4>1, <4>2
    <3>2. CASE StatusUpdate(h)
      <4>1. req[h].inst \in Instances /\ req[h].reply \in States /\ req[h].reply # NoRow
        BY <3>2, Working DEF StatusUpdate, At, Ops, Later, LaterKnows, States, NoRow
      <4>2. UpdateState(req[h].inst, req[h].reply) /\ box' = box
        BY <3>2 DEF StatusUpdate
      <4>3. QED
        BY <4>1, <4>2
    <3>3. QED
      BY <1>7, <3>1, <3>2
  <2>2. row' = row \/ row' = [row EXCEPT ![j] = IF @ = NoRow THEN @ ELSE s]
    BY <2>1 DEF UpdateState
  <2>3. CASE row' = [row EXCEPT ![j] = IF @ = NoRow THEN @ ELSE s]
    <3>1. j = i => (row[i] = NoRow /\ row'[i] = row[i]) \/ (row[i] # NoRow /\ row'[i] # NoRow)
      BY <1>a, <2>1, <2>3
    <3>2. j # i => row'[i] = row[i]
      BY <1>a, <2>3
    <3>3. QED
      BY <2>1, <3>1, <3>2 DEF Changes
  <2>4. QED
    BY <1>b, <2>1, <2>2, <2>3
<1>8. ASSUME NEW h \in Handlers, DestroyDelete(h) PROVE Changes(i)
  <2>1. box[req[h].inst] = "removed"
    BY <1>8, Working DEF DestroyDelete, At, Ops, Later, LaterKnows
  <2>2. CASE row' = [row EXCEPT ![req[h].inst] = NoRow] /\ box' = box
    <3>1. req[h].inst = i => row'[i] = NoRow
      BY <1>a, <2>2
    <3>2. req[h].inst # i => row'[i] = row[i]
      BY <1>a, <2>2
    <3>3. QED
      BY <2>1, <2>2, <3>1, <3>2 DEF Changes
  <2>3. QED
    BY <1>8, <1>b, <2>2 DEF DestroyDelete
<1>9. ASSUME NEW h \in Handlers, Step(h) \/ Caller(h) PROVE Changes(i)
  <2>1. CASE Caller(h) \/ SelectRunner(h) \/ StartReply(h)
    BY <1>b, <2>1 DEF Caller, LogsHangUp, StartRequest, Target, SelectRunner, StartReply, rows
  <2>2. CASE \E op \in Ops : FindByID(h, op) \/ GetRunnerByURL(h, op) \/ CallFails(h, op)
    BY <1>b, <2>2 DEF FindByID, GetRunnerByURL, CallFails, rows
  <2>3. CASE \/ RunnerReports(h) \/ LogSteps(h)
            \/ StopReply(h) \/ DestroyReply(h) \/ StatusReply(h)
    BY <1>b, <2>3 DEF RunnerReports, LogSteps, OpenLogs, LogsEnd, LogsHangUp,
                      StopReply, DestroyReply, StatusReply, rows
  <2>4. QED
    BY <1>3, <1>4, <1>5, <1>6, <1>7, <1>8, <1>9, <2>1, <2>2, <2>3 DEF Step, LogSteps
<1>10. QED
  BY <1>1, <1>2, <1>9 DEF Next

LEMMA OrphanHow ==
  ASSUME MInv, [Next]_vars, NEW i \in Instances, ~Orphan(i), Orphan(i)', ~Killed
  PROVE  \E h \in Handlers : StartAnswerLost(h, i) \/ InsertFails(h, i)
<1>1. /\ box'[i] \in {"created", "running", "exited"} /\ row'[i] = NoRow
      /\ ~InStart(i)'
  BY DEF Orphan, Exists
<1>2. PICK h \in Handlers :
        /\ req[h].inst = i /\ req[h].op = "start" /\ req[h].place \in {"rpc", "reply", "save"}
  <2>1. CASE InStart(i)
    BY <2>1 DEF InStart, At
  <2>2. CASE ~InStart(i)
    <3>1. ~(Exists(i) /\ row[i] = NoRow)
      BY <2>2 DEF Orphan
    <3>2. \E h \in Handlers : req[h].inst = i /\ At(h, "start", "rpc")
      BY <1>1, <3>1, HowChanged DEF Changes, Exists
    <3>3. QED
      BY <2>2, <3>2 DEF InStart
  <2>3. QED
    BY <2>1, <2>2
<1>3. req[h] \in Request /\ StartKnows(req[h])
  BY <1>2, Working DEF Starting, Ops
<1>4. req'[h] # req[h]
  BY <1>1, <1>2 DEF InStart, At
<1>5. Step(h) \/ Caller(h)
  <2>1. ~(UNCHANGED vars \/ CleanupLock \/ CleanupFindAll \/ GracefulStop \/ Boot)
    BY <1>4 DEF vars, CleanupLock, CleanupFindAll, GracefulStop, Boot
  <2>2. ~Kill
    BY DEF Kill, Killed
  <2>3. ~\E j \in Instances : ContainerExit(j)
    BY <1>4 DEF ContainerExit
  <2>4. PICK g \in Handlers : Step(g) \/ Caller(g)
    BY <2>1, <2>2, <2>3 DEF Next
  <2>5. QED
    BY <1>4, <2>4, ServesOne
<1>6. ~(Caller(h) \/ SelectRunner(h))
  BY <1>2, IdleRequest DEF Caller, LogsHangUp, StartRequest, Target, Begin, SelectRunner, At
<1>7. ~(\E op \in Ops \ {"start"} : FindByID(h, op) \/ GetRunnerByURL(h, op))
  BY <1>2 DEF FindByID, GetRunnerByURL, At
<1>8. ~(RunnerStops(h) \/ StopReply(h) \/ StopUpdate(h) \/ RunnerDestroys(h) \/ DestroyReply(h)
        \/ DestroyDelete(h) \/ RunnerReports(h) \/ StatusReply(h) \/ StatusUpdate(h)
        \/ LogSteps(h))
  BY <1>2 DEF RunnerStops, StopReply, StopUpdate, RunnerDestroys, DestroyReply, DestroyDelete,
              RunnerReports, StatusReply, StatusUpdate, LogSteps, OpenLogs, LogsEnd,
              LogsHangUp, At
<1>9. ASSUME NEW p \in {"reply", "save"}, NEW q, q.place = p, q.op = "start", q.inst = i
      PROVE  req'[h] # q
  BY <1>1, <1>9 DEF InStart, At
<1>10. ~RunnerStarts(h)
  <2>1. ASSUME NEW a, Answered(h, "reply", a) PROVE FALSE
    <3>1. PICK q : q = [req[h] EXCEPT !.place = "reply", !.reply = a]
      OBVIOUS
    <3>2. q.place = "reply" /\ q.op = "start" /\ q.inst = i
      BY <1>2, <1>3, <3>1 DEF Request
    <3>3. req'[h] = q
      BY <2>1, <3>1 DEF Answered, MInv, TypeOK
    <3>4. QED
      BY <1>9, <3>2, <3>3
  <2>2. QED
    BY <2>1 DEF RunnerStarts
<1>11. CASE StartReply(h)
  <2>1. ~GoTo(h, "save")
    <3>1. ASSUME GoTo(h, "save") PROVE FALSE
      <4>1. PICK q : q = [req[h] EXCEPT !.place = "save"]
        OBVIOUS
      <4>2. q.place = "save" /\ q.op = "start" /\ q.inst = i
        BY <1>2, <1>3, <4>1 DEF Request
      <4>3. req'[h] = q
        BY <3>1, <4>1 DEF GoTo, MInv, TypeOK
      <4>4. QED
        BY <1>9, <4>2, <4>3
    <3>2. QED
      BY <3>1
  <2>2. Finish(h) /\ At(h, "start", "reply")
    BY <1>11, <2>1 DEF StartReply
  <2>3. req'[h] = Idle
    BY <2>2 DEF Finish, MInv, TypeOK
  <2>4. QED
    BY <1>2, <2>2, <2>3 DEF StartAnswerLost
<1>12. CASE SaveRow(h)
  BY <1>1, <1>2, <1>12 DEF SaveRow, InsertFails
<1>13. ~\E op \in Ops : CallFails(h, op)
  <2>1. ASSUME NEW op \in Ops, CallFails(h, op) PROVE FALSE
    <3>1. req[h].place = "rpc" /\ box' = box
      BY <1>2, <2>1 DEF CallFails, At
    <3>2. box[i] = "none"
      BY <1>2, <1>3, <3>1 DEF StartKnows
    <3>3. QED
      BY <1>1, <3>1, <3>2
  <2>2. QED
    BY <2>1
<1>14. QED
  BY <1>5, <1>6, <1>7, <1>8, <1>10, <1>11, <1>12, <1>13 DEF Step, LogSteps

LEMMA GhostHow ==
  ASSUME MInv, [Next]_vars, NEW i \in Instances, ~Ghost(i), Ghost(i)', ~Killed
  PROVE  \E h \in Handlers : DestroyAnswerLost(h, i) \/ DeleteFails(h, i)
<1>1. box'[i] = "removed" /\ row'[i] # NoRow /\ ~InDestroy(i)'
  BY DEF Ghost
<1>2. box[i] = "removed" /\ row[i] # NoRow
  BY <1>1, HowChanged DEF Changes
<1>3. PICK h \in Handlers :
        /\ req[h].inst = i /\ req[h].op = "destroy"
        /\ \/ req[h].place = "reply" /\ req[h].reply = "success"
           \/ req[h].place = "delete"
  BY <1>2 DEF Ghost, InDestroy, At
<1>4. req[h] \in Request
  BY <1>3, Working DEF Ops
<1>5. req'[h] # req[h]
  BY <1>1, <1>3 DEF InDestroy, At
<1>6. Step(h) \/ Caller(h)
  <2>1. ~(UNCHANGED vars \/ CleanupLock \/ CleanupFindAll \/ GracefulStop \/ Boot)
    BY <1>5 DEF vars, CleanupLock, CleanupFindAll, GracefulStop, Boot
  <2>2. ~Kill
    BY DEF Kill, Killed
  <2>3. ~\E j \in Instances : ContainerExit(j)
    BY <1>5 DEF ContainerExit
  <2>4. PICK g \in Handlers : Step(g) \/ Caller(g)
    BY <2>1, <2>2, <2>3 DEF Next
  <2>5. QED
    BY <1>5, <2>4, ServesOne
<1>7. ~Caller(h)
  BY <1>3, IdleRequest DEF Caller, LogsHangUp, StartRequest, Target, Begin, At
<1>8. ~(SelectRunner(h) \/ RunnerStarts(h) \/ StartReply(h) \/ SaveRow(h)
        \/ RunnerStops(h) \/ StopReply(h) \/ StopUpdate(h) \/ RunnerDestroys(h)
        \/ RunnerReports(h) \/ StatusReply(h) \/ StatusUpdate(h) \/ LogSteps(h))
  BY <1>3 DEF SelectRunner, RunnerStarts, StartReply, SaveRow, RunnerStops, StopReply,
              StopUpdate, RunnerDestroys, RunnerReports, StatusReply, StatusUpdate,
              LogSteps, OpenLogs, LogsEnd, LogsHangUp, At
<1>9. ~(\E op \in Ops \ {"start"} : FindByID(h, op) \/ GetRunnerByURL(h, op))
  BY <1>3 DEF FindByID, GetRunnerByURL, At
<1>10. ~DestroyReply(h)
  <2>1. ASSUME DestroyReply(h) PROVE FALSE
    <3>1. GoTo(h, "delete")
      BY <1>3, <2>1 DEF DestroyReply, At
    <3>2. PICK q : q = [req[h] EXCEPT !.place = "delete"]
      OBVIOUS
    <3>3. q.place = "delete" /\ q.op = "destroy" /\ q.inst = i
      BY <1>3, <1>4, <3>2 DEF Request
    <3>4. req'[h] = q
      BY <3>1, <3>2 DEF GoTo, MInv, TypeOK
    <3>5. QED
      BY <1>1, <3>3, <3>4 DEF InDestroy, At
  <2>2. QED
    BY <2>1
<1>11. CASE DestroyDelete(h)
  BY <1>1, <1>3, <1>11 DEF DestroyDelete, DeleteFails
<1>12. CASE \E op \in Ops : CallFails(h, op)
  <2>1. PICK op \in Ops : CallFails(h, op)
    BY <1>12
  <2>2. req[h].place = "reply" /\ req'[h] = Idle
    BY <1>3, <2>1 DEF CallFails, At, Finish, MInv, TypeOK
  <2>3. QED
    BY <1>3, <2>2 DEF DestroyAnswerLost, At
<1>13. QED
  BY <1>6, <1>7, <1>8, <1>9, <1>10, <1>11, <1>12 DEF Step, LogSteps

\* A container loses its row only to a start whose answer is "failed" or lost, a failed
\* insert or the death of the process, for any number of requests and runners.
THEOREM OrphansExplained == Spec => OrphanCauses
<1>1. MInv /\ [Next]_vars => [OrphanStep]_vars
  BY OrphanHow DEF OrphanStep
<1>2. QED
  BY <1>1, MInvAlways, PTL DEF Spec, OrphanCauses

\* A row outlives its container only when the answer to a destroy is lost, the delete fails
\* or the process dies, for any number of requests and runners.
THEOREM GhostsExplained == Spec => GhostCauses
<1>1. MInv /\ [Next]_vars => [GhostStep]_vars
  BY GhostHow DEF GhostStep
<1>2. QED
  BY <1>1, MInvAlways, PTL DEF Spec, GhostCauses

-----------------------------------------------------------------------------
(* The life of an instance *)

\* What a request knows besides: its start has failed after the container was created only
\* if that can happen, and the row it found has not gone before the container.
Sound(q) ==
  /\ q.op = "start" /\ q.place = "reply" /\ q.reply # "success" /\ Exists(q.inst) =>
       Faults \cap Losing # {}
  /\ q.op \in Later /\ q.place # "find" => row[q.inst] # NoRow \/ box[q.inst] = "removed"

LInv ==
  /\ MInv
  /\ connected \/ "sigterm" \in Faults
  /\ phase = "cleanup" => "sigterm" \in Faults
  /\ \A i \in Instances : box[i] = "removed" => i \in told
  /\ \A h \in Handlers : Sound(req[h])

LEMMA Moved ==
  ASSUME MInv, NEW h \in Handlers, NEW place
  PROVE  /\ GoTo(h, place) /\ req[h] \in Request =>
              /\ req'[h].op = req[h].op /\ req'[h].inst = req[h].inst /\ req'[h].place = place
              /\ req'[h].reply = req[h].reply
         /\ \A answer : Answered(h, place, answer) /\ req[h] \in Request =>
              /\ req'[h].op = req[h].op /\ req'[h].inst = req[h].inst /\ req'[h].place = place
              /\ req'[h].reply = answer
         /\ Finish(h) => req'[h] = Idle
<1>0. req \in [Handlers -> Request \cup {Idle}]
  BY DEF MInv, TypeOK
<1>1. ASSUME GoTo(h, place), req[h] \in Request
      PROVE  /\ req'[h].op = req[h].op /\ req'[h].inst = req[h].inst /\ req'[h].place = place
             /\ req'[h].reply = req[h].reply
  <2>1. PICK q : q = [req[h] EXCEPT !.place = place]
    OBVIOUS
  <2>2. q.op = req[h].op /\ q.inst = req[h].inst /\ q.place = place /\ q.reply = req[h].reply
    BY <1>1, <2>1 DEF Request
  <2>3. req'[h] = q
    BY <1>0, <1>1, <2>1 DEF GoTo
  <2>4. QED
    BY <2>2, <2>3
<1>2. ASSUME NEW answer, Answered(h, place, answer), req[h] \in Request
      PROVE  /\ req'[h].op = req[h].op /\ req'[h].inst = req[h].inst /\ req'[h].place = place
             /\ req'[h].reply = answer
  <2>1. PICK q : q = [req[h] EXCEPT !.place = place, !.reply = answer]
    OBVIOUS
  <2>2. q.op = req[h].op /\ q.inst = req[h].inst /\ q.place = place /\ q.reply = answer
    BY <1>2, <2>1 DEF Request
  <2>3. req'[h] = q
    BY <1>0, <1>2, <2>1 DEF Answered
  <2>4. QED
    BY <2>2, <2>3
<1>3. Finish(h) => req'[h] = Idle
  BY <1>0 DEF Finish
<1>4. QED
  BY <1>1, <1>2, <1>3

LEMMA ToldGrows ==
  ASSUME [Next]_vars
  PROVE  told \subseteq told'
<1>1. CASE UNCHANGED vars \/ CleanupLock \/ CleanupFindAll \/ GracefulStop \/ Kill \/ Boot
  BY <1>1 DEF vars, CleanupLock, CleanupFindAll, GracefulStop, Kill, Boot
<1>2. CASE \E i \in Instances : ContainerExit(i)
  BY <1>2 DEF ContainerExit
<1>3. ASSUME NEW h \in Handlers, Caller(h) PROVE told \subseteq told'
  BY <1>3 DEF Caller, LogsHangUp, StartRequest, Target
<1>4. ASSUME NEW h \in Handlers, Step(h) PROVE told \subseteq told'
  <2>1. CASE SelectRunner(h) \/ RunnerStarts(h) \/ StartReply(h) \/ SaveRow(h)
    BY <2>1 DEF SelectRunner, RunnerStarts, StartReply, SaveRow
  <2>2. CASE \E op \in Ops : FindByID(h, op) \/ GetRunnerByURL(h, op) \/ CallFails(h, op)
    BY <2>2 DEF FindByID, GetRunnerByURL, CallFails
  <2>3. CASE RunnerStops(h) \/ RunnerDestroys(h) \/ RunnerReports(h) \/ LogSteps(h)
    BY <2>3 DEF RunnerStops, RunnerDestroys, RunnerReports,
      LogSteps, OpenLogs, LogsEnd, LogsHangUp
  <2>4. CASE StopReply(h) \/ DestroyReply(h) \/ StatusReply(h)
    BY <2>4 DEF StopReply, DestroyReply, StatusReply
  <2>5. CASE StopUpdate(h) \/ StatusUpdate(h) \/ DestroyDelete(h)
    BY <2>5 DEF StopUpdate, StatusUpdate, DestroyDelete
  <2>6. QED
    BY <1>4, <2>1, <2>2, <2>3, <2>4, <2>5 DEF Step, LogSteps
<1>5. QED
  BY <1>1, <1>2, <1>3, <1>4 DEF Next

\* What a row was found for stays found, and no container appears but its start's.
LEMMA Gentle ==
  ASSUME MInv, [Next]_vars, NEW i \in Instances
  PROVE  /\ row[i] # NoRow \/ box[i] = "removed" => row'[i] # NoRow \/ box'[i] = "removed"
         /\ Exists(i)' => Exists(i) \/ \E h \in Handlers : req[h].inst = i /\ At(h, "start", "rpc")
<1>1. Changes(i)
  BY HowChanged
<1>2. ASSUME NEW h \in Handlers, req[h].inst = i, At(h, "start", "rpc")
      PROVE  row[i] = NoRow /\ box[i] = "none"
  BY <1>2, Working DEF At, Ops, Starting, StartKnows
<1>3. QED
  BY <1>1, <1>2 DEF Changes, Exists

LEMMA OthersSound ==
  ASSUME LInv, [Next]_vars, NEW g \in Handlers, req'[g] = req[g]
  PROVE  Sound(req[g])'
<1>1. PICK q : q = req[g]
  OBVIOUS
<1>2. Sound(q) /\ Good(q) /\ MInv
  BY <1>1 DEF LInv, MInv
<1>3. ASSUME q.op = "start", q.place = "reply", q.reply # "success", Exists(q.inst)'
      PROVE  Faults \cap Losing # {}
  <2>1. Starting(q) /\ q.inst \in Instances
    BY <1>2, <1>3 DEF Good, Starting, StartKnows
  <2>2. Exists(q.inst)
    <3>1. ASSUME NEW h \in Handlers, req[h].inst = q.inst, At(h, "start", "rpc") PROVE FALSE
      <4>1. Starting(req[h]) /\ h # g
        BY <1>1, <1>3, <3>1 DEF Starting, At
      <4>2. QED
        BY <1>1, <1>2, <2>1, <3>1, <4>1 DEF MInv, Alone
    <3>2. QED
      BY <1>2, <1>3, <2>1, <3>1, Gentle
  <2>3. QED
    BY <1>2, <1>3, <2>2 DEF Sound
<1>4. ASSUME q.op \in Later, q.place # "find"
      PROVE  row'[q.inst] # NoRow \/ box'[q.inst] = "removed"
  <2>1. q.inst \in Instances
    BY <1>2, <1>4 DEF Good, LaterKnows, MInv, TypeOK
  <2>2. QED
    BY <1>2, <1>4, <2>1, Gentle DEF Sound
<1>5. Sound(q)'
  BY <1>3, <1>4 DEF Sound
<1>6. QED
  BY <1>1, <1>5 DEF Sound

LEMMA IdleSound == \A q : q = Idle => Sound(q)'
BY IdleRequest DEF Sound, Later

\* A request that goes on after it has found its row.
LEMMA GoesOnSound ==
  ASSUME LInv, [Next]_vars, NEW h \in Handlers, req[h].op \in Later, req[h].place # "find",
         req'[h].op = req[h].op, req'[h].inst = req[h].inst
  PROVE  Sound(req[h])'
<1>1. Sound(req[h]) /\ req[h].inst \in Instances
  BY Working DEF LInv, Later, Ops
<1>2. row'[req[h].inst] # NoRow \/ box'[req[h].inst] = "removed"
  BY <1>1, Gentle DEF Sound, LInv
<1>3. req'[h].op # "start"
  BY DEF Later
<1>4. QED
  BY <1>2, <1>3 DEF Sound

LEMMA StartSound ==
  ASSUME LInv, NEW h \in Handlers,
         StartRequest(h) \/ SelectRunner(h) \/ RunnerStarts(h) \/ StartReply(h) \/ SaveRow(h)
  PROVE  Sound(req[h])'
<1>0. req \in [Handlers -> Request \cup {Idle}] /\ MInv
  BY DEF LInv, MInv, TypeOK
<1>1. CASE StartRequest(h)
  <2>1. PICK q : q = [Idle EXCEPT !.op = "start", !.place = "select", !.inst = NoInstance]
    OBVIOUS
  <2>2. q.op = "start" /\ q.place = "select" /\ req'[h] = q
    BY <1>0, <1>1, <2>1 DEF StartRequest, Begin, Idle
  <2>3. QED
    BY <2>2 DEF Sound, Later
<1>2. CASE SelectRunner(h)
  <2>1. PICK i \in Instances : /\ At(h, "start", "select")
                               /\ req' = [req EXCEPT ![h].place = "rpc", ![h].inst = i]
    BY <1>2 DEF SelectRunner
  <2>2. PICK q : q = [req[h] EXCEPT !.place = "rpc", !.inst = i]
    OBVIOUS
  <2>3. req[h] \in Request
    BY <1>0, <2>1, Working DEF At, Ops
  <2>4. q.op = "start" /\ q.place = "rpc"
    BY <2>1, <2>2, <2>3 DEF At, Request
  <2>5. req'[h] = q
    BY <1>0, <2>1, <2>2
  <2>6. QED
    BY <2>4, <2>5 DEF Sound, Later
<1>3. CASE RunnerStarts(h)
  <2>1. /\ req[h].op = "start" /\ req[h].place = "rpc" /\ req[h] \in Request
        /\ req[h].inst \in Instances
    BY <1>0, <1>3, Working DEF RunnerStarts, At, Ops, Starting, StartKnows
  <2>2. PICK b, a : /\ box' = [box EXCEPT ![req[h].inst] = b] /\ Answered(h, "reply", a)
                    /\ a # "success" /\ b # "none" => Faults \cap Losing # {}
    <3>1. PICK outcome \in {<<"running", "success">>, <<"none", "failed">>}
                      \cup (IF "start" \in Faults THEN {<<"created", "failed">>} ELSE {})
                      \cup (IF "inspect" \in Faults THEN {<<"running", "failed">>} ELSE {}) :
             box' = [box EXCEPT ![req[h].inst] = outcome[1]] /\ Answered(h, "reply", outcome[2])
      BY <1>3 DEF RunnerStarts
    <3>2. outcome[2] # "success" /\ outcome[1] # "none" => "start" \in Faults \/ "inspect" \in Faults
      OBVIOUS
    <3>3. QED
      BY <3>1, <3>2 DEF Losing
  <2>3. /\ req'[h].op = "start" /\ req'[h].inst = req[h].inst /\ req'[h].place = "reply"
        /\ req'[h].reply = a
    BY <1>0, <2>1, <2>2, Moved
  <2>4. box'[req[h].inst] = b
    BY <1>0, <2>1, <2>2 DEF MInv, TypeOK
  <2>5. QED
    BY <2>2, <2>3, <2>4 DEF Sound, Later, Exists
<1>4. CASE StartReply(h)
  <2>1. req[h].op = "start" /\ req[h] \in Request
    BY <1>0, <1>4, Working DEF StartReply, At, Ops
  <2>2. CASE GoTo(h, "save")
    <3>1. req'[h].op = "start" /\ req'[h].place = "save"
      BY <1>0, <2>1, <2>2, Moved
    <3>2. QED
      BY <3>1 DEF Sound, Later
  <2>3. CASE Finish(h)
    BY <1>0, <2>3, Moved, IdleSound DEF Sound
  <2>4. QED
    BY <1>4, <2>2, <2>3 DEF StartReply
<1>5. CASE SaveRow(h)
  BY <1>0, <1>5, Moved, IdleSound DEF Sound, SaveRow
<1>6. QED
  BY <1>1, <1>2, <1>3, <1>4, <1>5

LEMMA LaterSound ==
  ASSUME LInv, [Next]_vars, NEW h \in Handlers,
         \/ \E op \in Later : Target(h, op) \/ FindByID(h, op) \/ GetRunnerByURL(h, op)
         \/ \E op \in Ops : CallFails(h, op)
         \/ RunnerStops(h) \/ StopReply(h) \/ StopUpdate(h)
         \/ RunnerDestroys(h) \/ DestroyReply(h) \/ DestroyDelete(h)
         \/ RunnerReports(h) \/ StatusReply(h) \/ StatusUpdate(h) \/ LogSteps(h)
  PROVE  Sound(req[h])'
<1>0. req \in [Handlers -> Request \cup {Idle}] /\ MInv /\ Later \subseteq Ops
  BY DEF LInv, MInv, TypeOK, Later, Ops
<1>1. CASE Finish(h)
  BY <1>0, <1>1, Moved, IdleSound DEF Sound
<1>2. CASE \E op \in Later : Target(h, op)
  <2>1. PICK op \in Later, i \in told : Begin(h, op, "find", i)
    BY <1>2 DEF Target
  <2>2. PICK q : q = [Idle EXCEPT !.op = op, !.place = "find", !.inst = i]
    OBVIOUS
  <2>3. q.op \in Later /\ q.place = "find" /\ req'[h] = q
    BY <1>0, <2>1, <2>2 DEF Begin, Idle
  <2>4. QED
    BY <2>3 DEF Sound, Later
<1>3. ASSUME NEW op \in Later, FindByID(h, op) PROVE Sound(req[h])'
  <2>1. /\ req[h].op = op /\ req[h] \in Request /\ req[h].inst \in Instances
        /\ row' = row
    BY <1>0, <1>3, Working DEF FindByID, At, rows
  <2>2. CASE /\ row[req[h].inst] # NoRow
             /\ \E s : req' = [req EXCEPT ![h].place = "lookup", ![h].snap = s]
    <3>0. PICK s : req' = [req EXCEPT ![h].place = "lookup", ![h].snap = s]
      BY <2>2
    <3>1. PICK q : q = [req[h] EXCEPT !.place = "lookup", !.snap = s]
      OBVIOUS
    <3>2. q.op = op /\ q.inst = req[h].inst
      BY <2>1, <3>1 DEF Request
    <3>3. req'[h] = q
      BY <1>0, <3>0, <3>1
    <3>4. row'[req'[h].inst] # NoRow /\ req'[h].op # "start"
      BY <2>1, <2>2, <3>2, <3>3 DEF Later
    <3>5. QED
      BY <3>4 DEF Sound
  <2>3. QED
    BY <1>1, <1>3, <2>2 DEF FindByID
<1>4. ASSUME req[h].op \in Later, req[h].place # "find", NEW p, GoTo(h, p) PROVE Sound(req[h])'
  <2>1. req'[h].op = req[h].op /\ req'[h].inst = req[h].inst
    BY <1>0, <1>4, Moved, Working
  <2>2. QED
    BY <1>4, <2>1, GoesOnSound
<1>5. ASSUME req[h].op \in Later, req[h].place # "find", NEW a, Answered(h, "reply", a)
      PROVE  Sound(req[h])'
  <2>1. req'[h].op = req[h].op /\ req'[h].inst = req[h].inst
    BY <1>0, <1>5, Moved, Working
  <2>2. QED
    BY <1>5, <2>1, GoesOnSound
<1>6. CASE \E op \in Later : GetRunnerByURL(h, op)
  BY <1>4, <1>6 DEF GetRunnerByURL, At
<1>7. CASE RunnerStops(h) \/ RunnerDestroys(h) \/ RunnerReports(h)
  BY <1>5, <1>7 DEF RunnerStops, RunnerDestroys, RunnerReports, At, Later
<1>a. CASE LogSteps(h)
  BY <1>1, <1>4, <1>a DEF LogSteps, OpenLogs, LogsEnd, LogsHangUp, At, Later
<1>8. CASE StopReply(h) \/ DestroyReply(h) \/ StatusReply(h)
  BY <1>1, <1>4, <1>8 DEF StopReply, DestroyReply, StatusReply, At, Later
<1>9. CASE StopUpdate(h) \/ StatusUpdate(h) \/ DestroyDelete(h) \/ \E op \in Ops : CallFails(h, op)
  BY <1>1, <1>9 DEF StopUpdate, StatusUpdate, DestroyDelete, CallFails
<1>10. QED
  BY <1>2, <1>3, <1>6, <1>7, <1>a, <1>8, <1>9

LEMMA LInvInit == Init => LInv
<1>1. Init => \A h \in Handlers : Sound(req[h])
  BY IdleRequest DEF Init, Sound, Later
<1>2. Init => /\ connected \/ "sigterm" \in Faults
              /\ phase = "cleanup" => "sigterm" \in Faults
              /\ \A i \in Instances : box[i] = "removed" => i \in told
  BY DEF Init
<1>3. QED
  BY <1>1, <1>2, ManagerInit DEF LInv

LEMMA LInvStep == LInv /\ [Next]_vars => LInv'
<1> SUFFICES ASSUME LInv, [Next]_vars PROVE LInv'
  OBVIOUS
<1>1. MInv /\ MInv'
  BY ManagerStep DEF LInv
<1>2. ASSUME NEW h \in Handlers PROVE Sound(req[h])'
  <2>1. CASE req'[h] = req[h]
    <3>1. PICK q : q = req[h] /\ Sound(q)'
      BY <2>1, OthersSound
    <3>2. QED
      BY <2>1, <3>1 DEF Sound
  <2>2. CASE Step(h) \/ Caller(h)
    <3>1. Ops \ {"start"} = Later
      BY DEF Ops, Later
    <3>2. CASE Caller(h)
      BY <3>1, <3>2, StartSound, LaterSound DEF Caller, LogSteps
    <3>3. CASE Step(h)
      BY <3>1, <3>3, StartSound, LaterSound DEF Step, LogSteps
    <3>4. QED
      BY <2>2, <3>2, <3>3
  <2>3. CASE Kill
    <3>1. req'[h] = Idle
      BY <2>3 DEF Kill
    <3>2. QED
      BY <3>1, IdleSound DEF Sound
  <2>4. CASE req'[h] # req[h] /\ ~(Step(h) \/ Caller(h)) /\ ~Kill
    <3>1. ~(UNCHANGED vars \/ CleanupLock \/ CleanupFindAll \/ GracefulStop \/ Boot)
      BY <2>4 DEF vars, CleanupLock, CleanupFindAll, GracefulStop, Boot
    <3>2. ~\E j \in Instances : ContainerExit(j)
      BY <2>4 DEF ContainerExit
    <3>3. PICK g \in Handlers : Step(g) \/ Caller(g)
      BY <2>4, <3>1, <3>2 DEF Next
    <3>4. QED
      BY <1>1, <2>4, <3>3, ServesOne
  <2>5. QED
    BY <2>1, <2>2, <2>3, <2>4
<1>3. (connected \/ "sigterm" \in Faults)' /\ (phase = "cleanup" => "sigterm" \in Faults)'
  <2>1. /\ connected \/ "sigterm" \in Faults
        /\ phase = "cleanup" => "sigterm" \in Faults
    BY DEF LInv
  <2>2. CASE UNCHANGED vars \/ CleanupLock \/ CleanupFindAll \/ GracefulStop \/ Kill \/ Boot
    BY <2>1, <2>2 DEF vars, process, CleanupLock, CleanupFindAll, GracefulStop, Kill, Boot
  <2>3. CASE UNCHANGED <<phase, connected>>
    BY <2>1, <2>3
  <2>4. \A h \in Handlers : Step(h) \/ Caller(h) => UNCHANGED <<phase, connected>>
    <3>1. SUFFICES ASSUME NEW h \in Handlers, Step(h) \/ Caller(h)
                   PROVE  UNCHANGED <<phase, connected>>
      OBVIOUS
    <3>2. CASE Caller(h)
      BY <3>2 DEF Caller, LogsHangUp, StartRequest, Target, process
    <3>3. CASE SelectRunner(h) \/ RunnerStarts(h) \/ StartReply(h) \/ SaveRow(h)
      BY <3>3 DEF SelectRunner, RunnerStarts, StartReply, SaveRow, process
    <3>4. CASE \E op \in Ops : FindByID(h, op) \/ GetRunnerByURL(h, op) \/ CallFails(h, op)
      BY <3>4 DEF FindByID, GetRunnerByURL, CallFails, process
    <3>5. CASE RunnerStops(h) \/ RunnerDestroys(h) \/ RunnerReports(h) \/ LogSteps(h)
      BY <3>5 DEF RunnerStops, RunnerDestroys, RunnerReports, process,
      LogSteps, OpenLogs, LogsEnd, LogsHangUp
    <3>6. CASE StopReply(h) \/ DestroyReply(h) \/ StatusReply(h)
      BY <3>6 DEF StopReply, DestroyReply, StatusReply, process
    <3>7. CASE StopUpdate(h) \/ StatusUpdate(h) \/ DestroyDelete(h)
      BY <3>7 DEF StopUpdate, StatusUpdate, DestroyDelete, process
    <3>8. QED
      BY <3>1, <3>2, <3>3, <3>4, <3>5, <3>6, <3>7 DEF Step, LogSteps
  <2>5. (\E i \in Instances : ContainerExit(i)) => UNCHANGED <<phase, connected>>
    BY DEF ContainerExit, process
  <2>6. QED
    BY <2>2, <2>3, <2>4, <2>5 DEF Next
<1>4. ASSUME NEW i \in Instances, box'[i] = "removed" PROVE i \in told'
  <2>1. box[i] = "removed" \/ \E h \in Handlers : req[h].inst = i /\ At(h, "destroy", "rpc")
    BY <1>1, <1>4, HowChanged DEF Changes
  <2>2. ASSUME NEW h \in Handlers, req[h].inst = i, At(h, "destroy", "rpc") PROVE i \in told
    BY <1>1, <2>2, Working DEF At, Ops, Later, LaterKnows
  <2>3. i \in told
    BY <2>1, <2>2 DEF LInv
  <2>4. QED
    BY <2>3, ToldGrows
<1>5. QED
  BY <1>1, <1>2, <1>3, <1>4 DEF LInv

THEOREM LInvAlways == Spec => []LInv
BY LInvInit, LInvStep, PTL DEF Spec

\* The states of an instance, by its starts, its row and its container.
Off(i) == row[i] = NoRow /\ box[i] = "none"
Reach(i) == row[i] # NoRow /\ box[i] \in {"running", "exited"}

LEMMA Stages ==
  ASSUME LInv, NEW i \in Instances
  PROVE  /\ InStart(i) \/ Off(i) => LeaseOf(i) = "none"
         /\ ~InStart(i) /\ Orphan(i) => LeaseOf(i) = "lost"
         /\ ~InStart(i) /\ Reach(i) /\ box[i] = "running" => LeaseOf(i) = "live"
         /\ ~InStart(i) /\ Reach(i) /\ box[i] = "exited" => LeaseOf(i) = "ended"
         /\ ~InStart(i) /\ box[i] = "removed" => LeaseOf(i) = "over"
         /\ InStart(i) \/ Off(i) \/ Orphan(i) \/ Reach(i) \/ box[i] = "removed"
<1>1. InStart(i) \/ Off(i) => LeaseOf(i) = "none"
  <2>1. InStart(i) => row[i] = NoRow
    BY DEF LInv, MInv, Good, StartKnows, Starting, InStart, At
  <2>2. QED
    BY <2>1 DEF LeaseOf, Off
<1>2. ~InStart(i) /\ Orphan(i) => LeaseOf(i) = "lost"
  BY DEF LeaseOf, Orphan, Exists
<1>3. ~InStart(i) /\ Reach(i) => LeaseOf(i) = IF box[i] = "running" THEN "live" ELSE "ended"
  BY DEF LeaseOf, Reach, Exists
<1>4. ~InStart(i) /\ box[i] = "removed" => LeaseOf(i) = "over"
  BY DEF LeaseOf, Exists
<1>5. /\ box[i] \in {"none", "created", "running", "exited", "removed"}
      /\ row[i] # NoRow => box[i] \in {"running", "exited", "removed"}
  BY DEF LInv, MInv, TypeOK, Known
<1>6. InStart(i) \/ Off(i) \/ Orphan(i) \/ Reach(i) \/ box[i] = "removed"
  BY <1>5 DEF Off, Orphan, Reach, Exists
<1>7. QED
  BY <1>1, <1>2, <1>3, <1>4, <1>6 DEF Reach

\* Whoever starts an instance is alone in it, and nobody has been told.
LEMMA StarterAlone ==
  ASSUME LInv, NEW h \in Handlers, Starting(req[h])
  PROVE  /\ req[h].inst \in Instances /\ InStart(req[h].inst)
         /\ req[h].inst \notin told /\ row[req[h].inst] = NoRow
         /\ box[req[h].inst] # "removed"
         /\ \A g \in Handlers \ {h} : Starting(req[g]) => req[g].inst # req[h].inst
<1>1. StartKnows(req[h])
  BY DEF LInv, MInv, Good
<1>2. InStart(req[h].inst)
  BY DEF InStart, Starting, At
<1>3. QED
  BY <1>1, <1>2 DEF LInv, MInv, Alone, StartKnows

\* Its id is answered with the row's insertion, whose failure may strand the container.
LEMMA StarterSaves ==
  ASSUME LInv, [Next]_vars, NEW i \in Instances, NEW h \in Handlers,
         req[h].inst = i, SaveRow(h)
  PROVE  /\ i \notin told /\ told' = told \cup {i} /\ ~InStart(i)'
         /\ Reach(i)' \/ ("db" \in Faults /\ Orphan(i)')
<1>1. At(h, "start", "save") /\ "start" \in Ops /\ MInv
  BY DEF SaveRow, Ops, LInv
<1>2. Starting(req[h]) /\ StartKnows(req[h])
  BY <1>1, Working DEF At, Starting
<1>3. i \notin told /\ row[i] = NoRow /\ box[i] \in {"running", "exited"}
  BY <1>1, <1>2 DEF StartKnows, At
<1>4. /\ told' = told \cup {i} /\ box' = box /\ Finish(h)
      /\ row' = [row EXCEPT ![i] = "running"] \/ ("db" \in Faults /\ row' = row)
  BY DEF SaveRow
<1>5. ASSUME NEW g \in Handlers, Starting(req'[g]) PROVE req'[g].inst # i
  <2>1. g # h
    BY <1>1, <1>4, <1>5, Moved, IdleRequest DEF Starting
  <2>2. req'[g] = req[g]
    BY <1>1, <2>1, ServesOne DEF Step, LogSteps
  <2>3. QED
    BY <1>2, <1>5, <2>1, <2>2, StarterAlone
<1>6. ~InStart(i)'
  BY <1>5 DEF InStart, At, Starting
<1>7. row' = [row EXCEPT ![i] = "running"] => row'[i] # NoRow
  BY <1>1 DEF MInv, TypeOK, NoRow
<1>8. QED
  BY <1>3, <1>4, <1>6, <1>7 DEF Reach, Orphan, Exists

\* A start that fails tells nobody: its container was not created, or is lost.
LEMMA StarterFails ==
  ASSUME LInv, [Next]_vars, NEW i \in Instances, NEW h \in Handlers, req[h].inst = i,
         Starting(req[h]), req'[h] # req[h], ~SaveRow(h)
  PROVE  /\ told' = told
         /\ InStart(i)' \/ (~InStart(i)' /\ (Off(i)' \/ (Faults \cap Losing # {} /\ Orphan(i)')))
<1>1. /\ MInv /\ req[h] \in Request /\ req[h].op = "start" /\ "start" \in Ops
      /\ StartKnows(req[h]) /\ ~Caller(h)
  <2>1. req[h].op = "start" /\ "start" \in Ops /\ MInv
    BY DEF Starting, Ops, LInv
  <2>2. req[h] # Idle
    BY <2>1, IdleRequest
  <2>3. QED
    BY <2>1, <2>2, Working DEF Caller, LogsHangUp, StartRequest, Target, Begin, At
<1>2. i \notin told /\ row[i] = NoRow /\ box[i] \in {"none", "created", "running", "exited"}
  BY <1>1, StarterAlone DEF MInv, TypeOK
<1>3. ASSUME req'[h] = Idle, \A g \in Handlers \ {h} : req'[g] = req[g] \/ req'[g] = Idle,
             told' = told, row' = row, box' = box, Exists(i) => Faults \cap Losing # {}
      PROVE  ~InStart(i)' /\ (Off(i)' \/ (Faults \cap Losing # {} /\ Orphan(i)'))
  <2>1. ASSUME NEW g \in Handlers, Starting(req'[g]) PROVE req'[g].inst # i
    <3>1. g # h /\ req'[g] = req[g]
      BY <1>3, <2>1, IdleRequest DEF Starting
    <3>2. QED
      BY <2>1, <3>1, StarterAlone
  <2>2. ~InStart(i)'
    BY <2>1 DEF InStart, At, Starting
  <2>3. QED
    BY <1>2, <1>3, <2>2 DEF Off, Orphan, Exists
<1>4. CASE Kill
  BY <1>3, <1>4 DEF Kill, Losing, rows
<1>5. ASSUME ~Kill PROVE Step(h)
  <2>1. ~(UNCHANGED vars \/ CleanupLock \/ CleanupFindAll \/ GracefulStop \/ Boot)
    BY DEF vars, CleanupLock, CleanupFindAll, GracefulStop, Boot
  <2>2. ~\E j \in Instances : ContainerExit(j)
    BY DEF ContainerExit
  <2>3. PICK g \in Handlers : Step(g) \/ Caller(g)
    BY <1>5, <2>1, <2>2 DEF Next
  <2>4. QED
    BY <1>1, <2>3, ServesOne
<1>6. ASSUME Step(h), Finish(h) PROVE req'[h] = Idle /\ \A g \in Handlers \ {h} : req'[g] = req[g]
  BY <1>1, <1>6, Moved, ServesOne
<1>7. CASE RunnerStarts(h)
  <2>1. PICK a : Answered(h, "reply", a)
    BY <1>7 DEF RunnerStarts
  <2>2. req'[h].op = "start" /\ req'[h].inst = i /\ req'[h].place = "reply"
    BY <1>1, <2>1, Moved
  <2>3. QED
    BY <1>7, <2>2 DEF InStart, At, RunnerStarts
<1>8. CASE StartReply(h)
  <2>1. told' = told /\ row' = row /\ box' = box /\ Step(h) /\ req[h].place = "reply"
    BY <1>8 DEF StartReply, Step, rows, At
  <2>2. CASE GoTo(h, "save")
    <3>1. req'[h].op = "start" /\ req'[h].inst = i /\ req'[h].place = "save"
      BY <1>1, <2>2, Moved
    <3>2. QED
      BY <2>1, <3>1 DEF InStart, At
  <2>3. CASE Finish(h) /\ (req[h].reply = "failed" \/ ~connected \/ "rpc" \in Faults)
    <3>1. Sound(req[h]) /\ (connected \/ "sigterm" \in Faults)
      BY DEF LInv
    <3>2. Exists(i) => Faults \cap Losing # {}
      BY <1>1, <2>1, <2>3, <3>1 DEF Sound, Losing
    <3>3. QED
      BY <1>3, <1>6, <2>1, <2>3, <3>2
  <2>4. QED
    BY <1>8, <2>2, <2>3 DEF StartReply
<1>9. ASSUME NEW op \in Ops, CallFails(h, op)
      PROVE  told' = told /\ ~InStart(i)' /\ Off(i)'
  <2>1. told' = told /\ row' = row /\ box' = box /\ Step(h) /\ Finish(h) /\ req[h].place = "rpc"
    BY <1>1, <1>9 DEF CallFails, Step, rows, At
  <2>2. ~Exists(i)
    BY <1>1, <2>1 DEF StartKnows, Exists
  <2>3. QED
    BY <1>3, <1>6, <2>1, <2>2 DEF Orphan, Exists, Off
<1>10. ~(SelectRunner(h) \/ RunnerStops(h) \/ StopReply(h) \/ StopUpdate(h) \/ RunnerDestroys(h)
         \/ DestroyReply(h) \/ DestroyDelete(h) \/ RunnerReports(h) \/ StatusReply(h)
         \/ StatusUpdate(h) \/ LogSteps(h))
  BY <1>1 DEF RunnerStops, StopReply, StopUpdate, RunnerDestroys, DestroyReply, DestroyDelete,
              RunnerReports, StatusReply, StatusUpdate, At, SelectRunner, Starting,
              LogSteps, OpenLogs, LogsEnd, LogsHangUp
<1>11. ~\E op \in Ops \ {"start"} : FindByID(h, op) \/ GetRunnerByURL(h, op)
  BY <1>1 DEF FindByID, GetRunnerByURL, At
<1>12. QED
  BY <1>4, <1>5, <1>7, <1>8, <1>9, <1>10, <1>11 DEF Step, LogSteps

\* Nobody else is told of the instance.
LEMMA ToldBySave ==
  ASSUME [Next]_vars, NEW i \in Instances
  PROVE  \/ i \in told' <=> i \in told
         \/ \E h \in Handlers : req[h].inst = i /\ SaveRow(h)
<1>1. CASE UNCHANGED vars \/ CleanupLock \/ CleanupFindAll \/ GracefulStop \/ Kill \/ Boot
  BY <1>1 DEF vars, CleanupLock, CleanupFindAll, GracefulStop, Kill, Boot
<1>2. CASE \E j \in Instances : ContainerExit(j)
  BY <1>2 DEF ContainerExit
<1>3. ASSUME NEW h \in Handlers, Caller(h) PROVE told' = told
  BY <1>3 DEF Caller, LogsHangUp, StartRequest, Target
<1>4. ASSUME NEW h \in Handlers, Step(h) PROVE told' = told \/ SaveRow(h)
  <2>1. CASE SelectRunner(h) \/ RunnerStarts(h) \/ StartReply(h)
    BY <2>1 DEF SelectRunner, RunnerStarts, StartReply
  <2>2. CASE \E op \in Ops : FindByID(h, op) \/ GetRunnerByURL(h, op) \/ CallFails(h, op)
    BY <2>2 DEF FindByID, GetRunnerByURL, CallFails
  <2>3. CASE RunnerStops(h) \/ RunnerDestroys(h) \/ RunnerReports(h) \/ LogSteps(h)
    BY <2>3 DEF RunnerStops, RunnerDestroys, RunnerReports,
      LogSteps, OpenLogs, LogsEnd, LogsHangUp
  <2>4. CASE StopReply(h) \/ DestroyReply(h) \/ StatusReply(h)
    BY <2>4 DEF StopReply, DestroyReply, StatusReply
  <2>5. CASE StopUpdate(h) \/ StatusUpdate(h) \/ DestroyDelete(h)
    BY <2>5 DEF StopUpdate, StatusUpdate, DestroyDelete
  <2>6. QED
    BY <1>4, <2>1, <2>2, <2>3, <2>4, <2>5 DEF Step, LogSteps
<1>5. ASSUME NEW h \in Handlers, SaveRow(h), req[h].inst # i PROVE i \in told' <=> i \in told
  BY <1>5 DEF SaveRow
<1>6. QED
  BY <1>1, <1>2, <1>3, <1>4, <1>5 DEF Next

\* A start takes an instance that no container was ever created for.
LEMMA StarterNew ==
  ASSUME LInv, [Next]_vars, NEW i \in Instances, ~InStart(i), InStart(i)'
  PROVE  Off(i)
<1>1. PICK h \in Handlers : req'[h].inst = i /\ Starting(req'[h])
  BY DEF InStart, Starting, At
<1>2. req'[h] # req[h] /\ MInv /\ req \in [Handlers -> Request \cup {Idle}]
  BY <1>1 DEF InStart, Starting, At, LInv, MInv, TypeOK
<1>3. ~Kill /\ ~Finish(h)
  BY <1>1, <1>2, IdleRequest, Moved DEF Kill, Starting
<1>4. Step(h) \/ Caller(h)
  <2>1. ~(UNCHANGED vars \/ CleanupLock \/ CleanupFindAll \/ GracefulStop \/ Boot)
    BY <1>2 DEF vars, CleanupLock, CleanupFindAll, GracefulStop, Boot
  <2>2. ~\E j \in Instances : ContainerExit(j)
    BY <1>2 DEF ContainerExit
  <2>3. PICK g \in Handlers : Step(g) \/ Caller(g)
    BY <1>3, <2>1, <2>2 DEF Next
  <2>4. QED
    BY <1>2, <2>3, ServesOne
<1>5. ASSUME NEW op, NEW p \in {"select", "find"}, NEW j, Begin(h, op, p, j) PROVE FALSE
  <2>1. PICK q : q = [Idle EXCEPT !.op = op, !.place = p, !.inst = j]
    OBVIOUS
  <2>2. q.place = p /\ req'[h] = q
    BY <1>2, <1>5, <2>1 DEF Begin, Idle
  <2>3. QED
    BY <1>1, <2>2 DEF Starting
<1>6. ~Caller(h)
  BY <1>3, <1>5 DEF Caller, LogsHangUp, StartRequest, Target
<1>7. ASSUME NEW op \in Ops, req[h].op = op,
             req'[h].op = req[h].op, req'[h].inst = req[h].inst
      PROVE  op = "start" /\ req[h].place = "select"
  <2>1. op = "start" /\ req[h].inst = i
    BY <1>1, <1>7 DEF Starting
  <2>2. req[h].place \in {"select", "rpc", "reply", "save"}
    BY <1>2, <1>7, <2>1, Working DEF Proper
  <2>3. QED
    BY <1>7, <2>1, <2>2 DEF InStart, At
<1>8. ASSUME NEW op \in Ops, req[h].op = op, req[h].place # "select"
      PROVE  /\ \A p : ~GoTo(h, p)
             /\ \A p, a : ~Answered(h, p, a)
  <2>1. req[h] \in Request
    BY <1>2, <1>8, Working
  <2>2. ASSUME NEW p, GoTo(h, p) PROVE FALSE
    BY <1>2, <1>7, <1>8, <2>1, <2>2, Moved
  <2>3. ASSUME NEW p, NEW a, Answered(h, p, a) PROVE FALSE
    BY <1>2, <1>7, <1>8, <2>1, <2>3, Moved
  <2>4. QED
    BY <2>2, <2>3
<1>9. ASSUME NEW op \in Ops \ {"start"}, FindByID(h, op) PROVE FALSE
  <2>1. req[h].op = op /\ req[h] \in Request
    BY <1>2, <1>9, Working DEF FindByID, At
  <2>2. PICK s : req' = [req EXCEPT ![h].place = "lookup", ![h].snap = s]
    BY <1>3, <1>9 DEF FindByID
  <2>3. PICK q : q = [req[h] EXCEPT !.place = "lookup", !.snap = s]
    OBVIOUS
  <2>4. q.place = "lookup" /\ req'[h] = q
    BY <1>2, <2>1, <2>2, <2>3 DEF Request
  <2>5. QED
    BY <1>1, <2>4 DEF Starting
<1>10. CASE \E op \in Ops \ {"start"} : GetRunnerByURL(h, op)
  BY <1>8, <1>10 DEF GetRunnerByURL, At
<1>11. CASE RunnerStarts(h) \/ StartReply(h) \/ SaveRow(h) \/ \E op \in Ops : CallFails(h, op)
  BY <1>3, <1>8, <1>11 DEF RunnerStarts, StartReply, SaveRow, CallFails, At, Ops
<1>12. CASE RunnerStops(h) \/ RunnerDestroys(h) \/ RunnerReports(h) \/ LogSteps(h)
  BY <1>3, <1>8, <1>12 DEF RunnerStops, RunnerDestroys, RunnerReports, At, Ops,
      LogSteps, OpenLogs, LogsEnd, LogsHangUp
<1>13. CASE StopReply(h) \/ DestroyReply(h) \/ StatusReply(h)
  BY <1>3, <1>8, <1>13 DEF StopReply, DestroyReply, StatusReply, At, Ops
<1>14. CASE StopUpdate(h) \/ StatusUpdate(h) \/ DestroyDelete(h)
  BY <1>3, <1>14 DEF StopUpdate, StatusUpdate, DestroyDelete
<1>15. CASE SelectRunner(h)
  <2>1. PICK j \in Instances : /\ At(h, "start", "select") /\ at[j] = NoRunner
                               /\ req' = [req EXCEPT ![h].place = "rpc", ![h].inst = j]
    BY <1>15 DEF SelectRunner
  <2>2. PICK q : q = [req[h] EXCEPT !.place = "rpc", !.inst = j]
    OBVIOUS
  <2>3. req[h] \in Request
    BY <1>2, <2>1, Working DEF At, Ops
  <2>4. q.inst = j /\ req'[h] = q
    BY <1>2, <2>1, <2>2, <2>3 DEF Request
  <2>5. at[i] = NoRunner /\ NoRunner \notin Runners
    BY <1>1, <2>1, <2>4 DEF NoRunner, Runners
  <2>6. QED
    BY <1>2, <2>5 DEF MInv, Known, Off
<1>16. QED
  BY <1>4, <1>6, <1>9, <1>10, <1>11, <1>12, <1>13, <1>14, <1>15 DEF Step, LogSteps

\* An instance that nobody starts moves on in its life, or stays.
LEMMA Unstarted ==
  ASSUME LInv, [Next]_vars, NEW i \in Instances, ~InStart(i), ~InStart(i)'
  PROVE  /\ Off(i) => Off(i)'
         /\ Orphan(i) => Orphan(i)'
         /\ Reach(i) => box'[i] = "removed" \/ (Reach(i)' /\ (box'[i] = "exited" \/ box'[i] = box[i]))
         /\ box[i] = "removed" => box'[i] = "removed"
<1>1. ASSUME NEW h \in Handlers, req[h].inst = i, At(h, "start", "rpc") \/ At(h, "start", "save")
      PROVE  FALSE
  BY <1>1 DEF InStart
<1>2. ASSUME NEW h \in Handlers, req[h].inst = i, At(h, "destroy", "rpc")
      PROVE  row[i] # NoRow \/ box[i] = "removed"
  BY <1>2 DEF LInv, Sound, At, Later
<1>3. Changes(i)
  BY HowChanged DEF LInv
<1>4. QED
  BY <1>1, <1>2, <1>3 DEF Changes, Off, Orphan, Reach, Exists

LEMMA LifeGoes ==
  ASSUME LInv, LInv', [Next]_vars, NEW i \in Instances
  PROVE  \/ LeaseOf(i)' = LeaseOf(i) /\ (i \in told' <=> i \in told)
         \/ /\ LeaseOf(i) = "none" /\ LeaseOf(i)' \in {"live", "ended"}
            /\ i \in told' /\ i \notin told
         \/ /\ Faults \cap Losing # {}
            /\ LeaseOf(i) = "none" /\ LeaseOf(i)' = "lost"
            /\ (i \in told' /\ i \notin told) \/ (i \in told' <=> i \in told)
         \/ LeaseOf(i) = "live" /\ LeaseOf(i)' = "ended" /\ (i \in told' <=> i \in told)
         \/ LeaseOf(i) \in {"live", "ended"} /\ LeaseOf(i)' = "over" /\ (i \in told' <=> i \in told)
<1>a. /\ InStart(i)' \/ Off(i)' => LeaseOf(i)' = "none"
      /\ ~InStart(i)' /\ Orphan(i)' => LeaseOf(i)' = "lost"
      /\ ~InStart(i)' /\ Reach(i)' => LeaseOf(i)' = IF box'[i] = "running" THEN "live" ELSE "ended"
      /\ ~InStart(i)' /\ box'[i] = "removed" => LeaseOf(i)' = "over"
  <2>1. InStart(i)' => row'[i] = NoRow
    BY DEF LInv, MInv, Good, StartKnows, Starting, InStart, At
  <2>2. QED
    BY <2>1 DEF LeaseOf, Off, Orphan, Reach, Exists
<1>1. CASE InStart(i)
  <2>1. PICK h \in Handlers : req[h].inst = i /\ Starting(req[h])
    BY <1>1 DEF InStart, At, Starting
  <2>2. LeaseOf(i) = "none"
    BY <1>1, Stages
  <2>3. CASE SaveRow(h)
    <3>1. /\ i \notin told /\ told' = told \cup {i} /\ ~InStart(i)'
          /\ Reach(i)' \/ ("db" \in Faults /\ Orphan(i)')
      BY <2>1, <2>3, StarterSaves
    <3>2. QED
      BY <1>a, <2>2, <3>1 DEF Losing
  <2>4. CASE ~SaveRow(h) /\ req'[h] # req[h]
    BY <1>a, <2>1, <2>2, <2>4, StarterFails
  <2>5. CASE ~SaveRow(h) /\ req'[h] = req[h]
    <3>1. InStart(i)'
      BY <2>1, <2>5 DEF InStart, At, Starting
    <3>2. ~\E g \in Handlers : req[g].inst = i /\ SaveRow(g)
      BY <2>1, <2>5, StarterAlone DEF SaveRow, At, Starting
    <3>3. QED
      BY <1>a, <2>2, <3>1, <3>2, ToldBySave
  <2>6. QED
    BY <2>3, <2>4, <2>5
<1>2. CASE ~InStart(i)
  <2>1. i \in told' <=> i \in told
    BY <1>2, ToldBySave DEF SaveRow, InStart
  <2>2. CASE InStart(i)'
    BY <1>a, <1>2, <2>1, <2>2, StarterNew, Stages
  <2>3. CASE ~InStart(i)'
    <3>1. Off(i) \/ Orphan(i) \/ Reach(i) \/ box[i] = "removed"
      BY <1>2, Stages
    <3>2. CASE Off(i)
      BY <1>a, <1>2, <2>1, <2>3, <3>2, Stages, Unstarted
    <3>3. CASE Orphan(i)
      BY <1>a, <1>2, <2>1, <2>3, <3>3, Stages, Unstarted
    <3>4. CASE Reach(i)
      <4>1. LeaseOf(i) = IF box[i] = "running" THEN "live" ELSE "ended"
        BY <1>2, <3>4, Stages DEF Reach
      <4>2. box'[i] = "removed" \/ (Reach(i)' /\ (box'[i] = "exited" \/ box'[i] = box[i]))
        BY <1>2, <2>3, <3>4, Unstarted
      <4>3. QED
        BY <1>a, <2>1, <2>3, <4>1, <4>2
    <3>5. CASE box[i] = "removed"
      BY <1>a, <1>2, <2>1, <2>3, <3>5, Stages, Unstarted
    <3>6. QED
      BY <3>1, <3>2, <3>3, <3>4, <3>5
  <2>4. QED
    BY <2>2, <2>3
<1>3. QED
  BY <1>1, <1>2

LEMMA LifeInit == Init => Life!Init
<1> SUFFICES ASSUME Init PROVE Life!Init
  OBVIOUS
<1>1. ASSUME NEW i \in Instances PROVE LeaseOf(i) = "none"
  BY IdleRequest DEF Init, LeaseOf
<1>2. QED
  BY <1>1 DEF Init, Life!Init

LEMMA LifeStep == LInv /\ LInv' /\ [Next]_vars => [Life!Next]_(Life!vars)
<1> SUFFICES ASSUME LInv, LInv', [Next]_vars PROVE Life!Next
  OBVIOUS
<1>1. ASSUME NEW i \in Instances
      PROVE  Life!Stay(i) \/ Life!Start(i) \/ Life!Lose(i) \/ Life!End(i) \/ Life!Destroy(i)
  BY LifeGoes DEF Life!Stay, Life!Start, Life!Lose, Life!End, Life!Destroy, Life!Goes,
                  Life!Tells, Life!TellsNot
<1>2. QED
  BY <1>1 DEF Life!Next

\* Whatever fails and however requests interleave: no id is answered before its container
\* was started, a container that has a row once is reached by it until it has been removed,
\* nothing comes back, and what is lost was lost at its start (manager.go:113-278).
THEOREM LeasesKept == Spec => KeepsLeases
<1>1. LInv /\ LInv' /\ [Next]_vars => [Life!Next]_(Life!vars)
  BY LifeStep
<1>2. QED
  BY <1>1, LifeInit, LInvAlways, PTL DEF Spec, KeepsLeases, Life!Spec

-----------------------------------------------------------------------------
(* Turns *)

On(r) == {i \in Instances : at[i] = r}

\* The runners before the next one have been chosen once more than the others.
Even ==
  boots = 1 => \E c \in Nat : \A r \in Runners :
    IsFiniteSet(On(r)) /\ Cardinality(On(r)) = IF r < nextRunner THEN c + 1 ELSE c

LEMMA EvenInit == Init => Even
<1> SUFFICES ASSUME Init PROVE Even
  OBVIOUS
<1>1. ASSUME NEW r \in Runners
      PROVE  IsFiniteSet(On(r)) /\ Cardinality(On(r)) = IF r < nextRunner THEN 0 + 1 ELSE 0
  <2>1. r # NoRunner /\ ~(r < 0)
    BY DEF Runners, NoRunner
  <2>2. On(r) = {}
    BY <2>1 DEF On, Init
  <2>3. QED
    BY <2>1, <2>2, FS_EmptySet DEF Init
<1>2. QED
  BY <1>1 DEF Even

LEMMA EvenSelect ==
  ASSUME MInv, Even, NEW h \in Handlers, SelectRunner(h)
  PROVE  Even'
<1> SUFFICES ASSUME boots' = 1
             PROVE  \E c \in Nat : \A r \in Runners :
                      /\ IsFiniteSet(On(r)')
                      /\ Cardinality(On(r)') = IF r < nextRunner' THEN c + 1 ELSE c
  BY DEF Even, On, Runners
<1>1. PICK i \in Instances :
        /\ at[i] = NoRunner /\ at' = [at EXCEPT ![i] = nextRunner]
        /\ nextRunner' = (nextRunner + 1) % NumRunners /\ boots' = boots
  BY DEF SelectRunner, process
<1>2. PICK n : n = nextRunner
  OBVIOUS
<1>3. n \in Runners /\ n \in Nat /\ n < NumRunners /\ NumRunners \in Nat
  BY <1>2 DEF MInv, TypeOK, Runners
<1>4. PICK c \in Nat : \A r \in Runners :
        IsFiniteSet(On(r)) /\ Cardinality(On(r)) = IF r < n THEN c + 1 ELSE c
  BY <1>1, <1>2 DEF Even
<1>5. /\ at'[i] = n /\ \A j \in Instances \ {i} : at'[j] = at[j]
  BY <1>1, <1>2 DEF MInv, TypeOK
<1>6. ASSUME NEW r \in Runners, r # n PROVE On(r)' = On(r)
  <2>1. r # NoRunner
    BY DEF Runners, NoRunner
  <2>2. QED
    BY <1>1, <1>5, <1>6, <2>1 DEF On
<1>7. IsFiniteSet(On(n)') /\ Cardinality(On(n)') = c + 1
  <2>1. n # NoRunner
    BY <1>3 DEF NoRunner
  <2>2. On(n)' = On(n) \cup {i} /\ i \notin On(n)
    BY <1>1, <1>5, <2>1 DEF On
  <2>3. IsFiniteSet(On(n)) /\ Cardinality(On(n)) = c
    BY <1>3, <1>4
  <2>4. QED
    BY <2>2, <2>3, FS_AddElement
<1>8. CASE n + 1 < NumRunners
  <2>1. nextRunner' = n + 1
    BY <1>1, <1>2, <1>3, <1>8, Around
  <2>2. ASSUME NEW r \in Runners
        PROVE  /\ IsFiniteSet(On(r)')
               /\ Cardinality(On(r)') = IF r < nextRunner' THEN c + 1 ELSE c
    <3>1. r \in Int
      BY DEF Runners
    <3>2. CASE r = n
      BY <1>3, <1>7, <2>1, <3>2
    <3>3. CASE r # n
      <4>1. r < n + 1 <=> r < n
        BY <1>3, <3>1, <3>3
      <4>2. QED
        BY <1>4, <1>6, <2>1, <3>3, <4>1
    <3>4. QED
      BY <3>2, <3>3
  <2>3. QED
    BY <2>2
<1>9. CASE n + 1 = NumRunners
  <2>1. nextRunner' = 0
    BY <1>1, <1>2, <1>3, <1>9, Around
  <2>2. ASSUME NEW r \in Runners
        PROVE  /\ IsFiniteSet(On(r)')
               /\ Cardinality(On(r)') = IF r < nextRunner' THEN (c + 1) + 1 ELSE c + 1
    <3>1. r \in Int /\ ~(r < 0) /\ r < NumRunners
      BY DEF Runners
    <3>2. CASE r = n
      BY <1>7, <2>1, <3>1, <3>2
    <3>3. CASE r # n
      <4>1. r < n
        BY <1>3, <1>9, <3>1, <3>3
      <4>2. QED
        BY <1>4, <1>6, <2>1, <3>1, <3>3, <4>1
    <3>4. QED
      BY <3>2, <3>3
  <2>3. c + 1 \in Nat
    OBVIOUS
  <2>4. QED
    BY <2>2, <2>3
<1>10. QED
  BY <1>3, <1>8, <1>9

LEMMA EvenStep == MInv /\ Even /\ [Next]_vars => Even'
<1> SUFFICES ASSUME MInv, Even, [Next]_vars PROVE Even'
  OBVIOUS
<1>1. CASE UNCHANGED <<at, nextRunner, boots>>
  BY <1>1 DEF Even, On, Runners
<1>2. CASE UNCHANGED vars \/ CleanupLock \/ CleanupFindAll \/ GracefulStop \/ Kill
  BY <1>1, <1>2 DEF vars, rows, process, CleanupLock, CleanupFindAll, GracefulStop, Kill
<1>3. CASE Boot
  <2>1. boots' # 1
    BY <1>3 DEF Boot, MInv, TypeOK
  <2>2. QED
    BY <2>1 DEF Even
<1>4. ASSUME NEW i \in Instances, ContainerExit(i) PROVE Even'
  BY <1>1, <1>4 DEF ContainerExit, rows, process
<1>5. ASSUME NEW h \in Handlers, Step(h) \/ Caller(h) PROVE Even'
  <2>1. CASE SelectRunner(h)
    BY <2>1, EvenSelect
  <2>2. CASE Caller(h)
    BY <1>1, <2>2 DEF Caller, LogsHangUp, StartRequest, Target, rows, process
  <2>3. CASE RunnerStarts(h) \/ StartReply(h) \/ SaveRow(h)
    BY <1>1, <2>3 DEF RunnerStarts, StartReply, SaveRow, rows, process
  <2>4. CASE \E op \in Ops : FindByID(h, op) \/ GetRunnerByURL(h, op) \/ CallFails(h, op)
    BY <1>1, <2>4 DEF FindByID, GetRunnerByURL, CallFails, rows, process
  <2>5. CASE RunnerStops(h) \/ RunnerDestroys(h) \/ RunnerReports(h) \/ LogSteps(h)
    BY <1>1, <2>5 DEF RunnerStops, RunnerDestroys, RunnerReports, rows, process,
      LogSteps, OpenLogs, LogsEnd, LogsHangUp
  <2>6. CASE StopReply(h) \/ DestroyReply(h) \/ StatusReply(h)
    BY <1>1, <2>6 DEF StopReply, DestroyReply, StatusReply, rows, process
  <2>7. CASE StopUpdate(h) \/ StatusUpdate(h) \/ DestroyDelete(h)
    BY <1>1, <2>7 DEF StopUpdate, StatusUpdate, DestroyDelete, rows, process
  <2>8. QED
    BY <1>5, <2>1, <2>2, <2>3, <2>4, <2>5, <2>6, <2>7 DEF Step, LogSteps
<1>6. QED
  BY <1>2, <1>3, <1>4, <1>5 DEF Next

\* The runners take turns, whatever their number and however requests overlap: until the
\* process is restarted none was chosen two times more often than another.
THEOREM TurnsTaken == Spec => []Balanced
<1>1. Even => Balanced
  <2> SUFFICES ASSUME Even, boots = 1, NEW r \in Runners, NEW s \in Runners
               PROVE  Picked(r) <= Picked(s) + 1
    BY DEF Balanced
  <2>1. PICK c \in Nat : \A q \in Runners :
          Cardinality(On(q)) = IF q < nextRunner THEN c + 1 ELSE c
    BY DEF Even
  <2>2. Picked(r) \in {c, c + 1} /\ Picked(s) \in {c, c + 1}
    BY <2>1 DEF Picked, On
  <2>3. QED
    BY <2>2
<1>2. QED
  BY <1>1, EvenInit, EvenStep, MInvAlways, PTL DEF Spec
==============================================================================
