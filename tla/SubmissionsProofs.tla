-------------------------- MODULE SubmissionsProofs --------------------------
(***************************************************************************)
(* Submissions, for any number of requests, users, challenges and rows.    *)
(***************************************************************************)
EXTENDS Submissions, TLAPS

\* The inductive invariant: the pair of a request that came late is solved, since rows
\* are only added and a challenge with rows cannot be deleted.
SInv ==
  /\ TypeOK
  /\ NoDanglingRow
  /\ LateNeverStored
  /\ \A h \in Handlers : req[h].late => Correct(req[h].user, req[h].chal) # {}

\* A request that is not idle is for a user and a challenge.
LEMMA Placed ==
  ASSUME TypeOK, NEW h \in Handlers, req[h].place # "idle"
  PROVE  req[h] \in Request /\ Pair(h) \in Users \X Challenges
BY DEF TypeOK, Request, Idle, Pair

\* One more row, in front of a pair's rows.
InFront(b, old) == <<b>> \o old

\* A table of rows stays one, and every pair keeps its rows, when a row is put in front.
LEMMA RowInFront ==
  ASSUME NEW old \in Seq(BOOLEAN), NEW b \in BOOLEAN, NEW new, new = InFront(b, old)
  PROVE  /\ new \in Seq(BOOLEAN)
         /\ Keeps(new, old)
         /\ \A k \in DOMAIN old : k + 1 \in DOMAIN new /\ new[k + 1] = old[k]
<1>1. /\ new \in Seq(BOOLEAN)
      /\ Len(old) \in Nat /\ Len(new) = Len(old) + 1
      /\ DOMAIN old = 1 .. Len(old) /\ DOMAIN new = 1 .. Len(new)
  BY DEF InFront
<1>2. \A k \in DOMAIN old : k + 1 \in DOMAIN new /\ new[k + 1] = old[k]
  <2>1. TAKE k \in DOMAIN old
  <2>2. k \in Int /\ 1 <= k /\ k <= Len(old)
    BY <1>1
  <2>3. QED
    BY <1>1, <2>2 DEF InFront
<1>3. \A k \in DOMAIN old : k + Len(new) - Len(old) = k + 1
  BY <1>1
<1>4. QED
  BY <1>1, <1>2, <1>3 DEF Keeps

LEMMA KeepsSelf == \A rows \in Seq(BOOLEAN) : Keeps(rows, rows)
<1>1. TAKE rows \in Seq(BOOLEAN)
<1>2. Len(rows) \in Nat /\ DOMAIN rows = 1 .. Len(rows)
  OBVIOUS
<1>3. \A k \in DOMAIN rows : k + Len(rows) - Len(rows) = k
  BY <1>2
<1>4. QED
  BY <1>2, <1>3 DEF Keeps

\* Every pair keeps its rows when one row is added, and a solved pair stays solved.
LEMMA RowAdded ==
  ASSUME TypeOK, NEW p \in Users \X Challenges, NEW b \in BOOLEAN,
         subs' = [subs EXCEPT ![p] = <<b>> \o @]
  PROVE  /\ subs' \in [Users \X Challenges -> Seq(BOOLEAN)]
         /\ \A u \in Users, c \in Challenges :
              /\ Keeps(subs'[<<u, c>>], subs[<<u, c>>])
              /\ Correct(u, c) # {} => Correct(u, c)' # {}
              /\ p # <<u, c>> => subs'[<<u, c>>] = subs[<<u, c>>]
<1>old. PICK old : old = subs[p]
  OBVIOUS
<1>new. PICK new : new = InFront(b, old)
  OBVIOUS
<1>1. /\ old \in Seq(BOOLEAN) /\ new \in Seq(BOOLEAN)
      /\ old = subs[p] /\ new = <<b>> \o old
      /\ Keeps(new, old)
      /\ \A k \in DOMAIN old : k + 1 \in DOMAIN new /\ new[k + 1] = old[k]
  <2>1. old \in Seq(BOOLEAN)
    BY <1>old DEF TypeOK
  <2>2. /\ new \in Seq(BOOLEAN)
        /\ Keeps(new, old)
        /\ \A k \in DOMAIN old : k + 1 \in DOMAIN new /\ new[k + 1] = old[k]
    BY <1>new, <2>1, RowInFront
  <2>3. new = <<b>> \o old
    BY <1>new DEF InFront
  <2>4. QED
    BY <1>old, <2>1, <2>2, <2>3
<1>2. subs' = [subs EXCEPT ![p] = new]
  BY <1>1
<1>3. ASSUME NEW u \in Users, NEW c \in Challenges
      PROVE  /\ Keeps(subs'[<<u, c>>], subs[<<u, c>>])
             /\ Correct(u, c) # {} => Correct(u, c)' # {}
             /\ p # <<u, c>> => subs'[<<u, c>>] = subs[<<u, c>>]
  <2>1. CASE p = <<u, c>>
    <3>1. subs[<<u, c>>] = old /\ subs'[<<u, c>>] = new
      BY <1>1, <1>2, <2>1 DEF TypeOK
    <3>2. Keeps(new, old) /\ \A k \in DOMAIN old : k + 1 \in DOMAIN new /\ new[k + 1] = old[k]
      BY <1>1
    <3>3. QED
      BY <2>1, <3>1, <3>2 DEF Correct
  <2>2. CASE p # <<u, c>>
    <3>1. subs'[<<u, c>>] = subs[<<u, c>>] /\ subs[<<u, c>>] \in Seq(BOOLEAN)
      BY <1>2, <2>2 DEF TypeOK
    <3>2. QED
      BY <2>2, <3>1, KeepsSelf DEF Correct
  <2>3. QED
    BY <2>1, <2>2
<1>4. subs' \in [Users \X Challenges -> Seq(BOOLEAN)]
  BY <1>2 DEF TypeOK
<1>5. QED
  BY <1>3, <1>4

-----------------------------------------------------------------------------
(* The invariant *)

LEMMA SubmissionsInit == Init => SInv
<1> SUFFICES ASSUME Init PROVE SInv
  OBVIOUS
<1>1. TypeOK
  BY DEF Init, TypeOK
<1>2. \A p \in Users \X Challenges : subs[p] = <<>>
  BY DEF Init
<1>3. QED
  BY <1>1, <1>2 DEF Init, SInv, NoDanglingRow, LateNeverStored, Idle

\* One request changes, to idle or to one that is as late as its pair is solved.
LEMMA OneRequest ==
  ASSUME SInv, NEW h \in Handlers, NEW r \in Request \cup {Idle},
         req' = [req EXCEPT ![h] = r],
         r.late => Correct(r.user, r.chal) # {}, r.place = "insert" => ~r.late,
         UNCHANGED <<flag, subs, used>>
  PROVE  SInv'
<1>1. TypeOK'
  BY DEF SInv, TypeOK
<1>2. NoDanglingRow'
  BY DEF SInv, NoDanglingRow
<1>3. ASSUME NEW g \in Handlers
      PROVE  /\ (req[g].place = "insert" => ~req[g].late)'
             /\ (req[g].late => Correct(req[g].user, req[g].chal) # {})'
  <2>1. CASE g = h
    <3>1. req'[g] = r
      BY <2>1 DEF SInv, TypeOK
    <3>2. QED
      BY <3>1 DEF Correct
  <2>2. CASE g # h
    <3>1. req'[g] = req[g]
      BY <2>2 DEF SInv, TypeOK
    <3>2. QED
      BY <3>1 DEF SInv, LateNeverStored, Correct
  <2>3. QED
    BY <2>1, <2>2
<1>4. QED
  BY <1>1, <1>2, <1>3 DEF SInv, LateNeverStored

\* A request that moves on keeps its user, challenge and lateness.
LEMMA MovesOn ==
  ASSUME NEW old \in Request, NEW place \in {"find", "previous", "insert"},
         NEW copy \in Flags \cup {None}
  PROVE  \E r \in Request :
           /\ r = [old EXCEPT !.place = place, !.copy = copy]
           /\ r.user = old.user /\ r.chal = old.chal
           /\ r.late = old.late /\ r.place = place
<1>1. [old EXCEPT !.place = place, !.copy = copy] \in Request
  BY DEF Request
<1>2. QED
  BY <1>1 DEF Request

LEMMA IdleRequest ==
  ASSUME SInv, NEW h \in Handlers, Finish(h), UNCHANGED <<flag, subs, used>>
  PROVE  SInv'
BY OneRequest DEF Finish, Idle

LEMMA SubmitKeeps ==
  ASSUME SInv, NEW h \in Handlers, SubmitFlag(h)
  PROVE  SInv'
<1>1. CASE SubmitRequest(h)
  <2>1. PICK u \in Users, c \in Challenges, f \in Flags :
          /\ req' = [req EXCEPT ![h] = [place |-> "find", user |-> u, chal |-> c, sent |-> f,
                                        copy |-> None, late |-> Correct(u, c) # {}]]
          /\ UNCHANGED <<flag, subs, used>>
    BY <1>1 DEF SubmitRequest, SInv, TypeOK
  <2>2. PICK late \in BOOLEAN : late = (Correct(u, c) # {})
    OBVIOUS
  <2>3. [place |-> "find", user |-> u, chal |-> c, sent |-> f,
         copy |-> None, late |-> late] \in Request
    BY DEF Request
  <2>4. PICK r \in Request :
          r = [place |-> "find", user |-> u, chal |-> c, sent |-> f,
               copy |-> None, late |-> late]
    BY <2>3
  <2>5. r.user = u /\ r.chal = c /\ r.late = late /\ r.place = "find"
    BY <2>4
  <2>6. req' = [req EXCEPT ![h] = r]
    BY <2>1, <2>2, <2>4
  <2>7. QED
    BY <2>1, <2>2, <2>5, <2>6, OneRequest
<1>2. CASE FindChallenge(h)
  <2>0. req[h] \in Request
    BY <1>2, Placed DEF FindChallenge, SInv
  <2>1. CASE /\ flag[req[h].chal] # NoChallenge
             /\ req' = [req EXCEPT ![h].place = "previous", ![h].copy = flag[req[h].chal]]
    <3>1. flag[req[h].chal] \in Flags
      BY <2>0, <2>1 DEF SInv, TypeOK, Request
    <3>2. req' = [req EXCEPT ![h] = [req[h] EXCEPT !.place = "previous",
                                                  !.copy = flag[req[h].chal]]]
      BY <2>1 DEF SInv, TypeOK
    <3>3. PICK r \in Request :
            /\ r = [req[h] EXCEPT !.place = "previous", !.copy = flag[req[h].chal]]
            /\ r.user = req[h].user /\ r.chal = req[h].chal
            /\ r.late = req[h].late /\ r.place = "previous"
      <4>1. PICK copy \in Flags \cup {None} : copy = flag[req[h].chal]
        BY <3>1
      <4>2. QED
        BY <2>0, <4>1, MovesOn
    <3>4. QED
      BY <1>2, <3>2, <3>3, OneRequest DEF FindChallenge, SInv
  <2>2. CASE Finish(h)
    BY <1>2, <2>2, IdleRequest DEF FindChallenge
  <2>3. QED
    BY <1>2, <2>1, <2>2 DEF FindChallenge
<1>3. CASE CheckPrevious(h)
  <2>0. req[h] \in Request
    BY <1>3, Placed DEF CheckPrevious, SInv
  <2>1. CASE ~Solved(subs[Pair(h)]) /\ GoTo(h, "insert")
    <3>1. ~req[h].late
      BY <2>0, <2>1 DEF SInv, Solved, Correct, Pair, Request
    <3>2. req' = [req EXCEPT ![h] = [req[h] EXCEPT !.place = "insert", !.copy = req[h].copy]]
      BY <2>0, <2>1 DEF GoTo, SInv, TypeOK, Request
    <3>3. PICK r \in Request :
            /\ r = [req[h] EXCEPT !.place = "insert", !.copy = req[h].copy]
            /\ r.user = req[h].user /\ r.chal = req[h].chal
            /\ r.late = req[h].late /\ r.place = "insert"
      <4>1. req[h].copy \in Flags \cup {None}
        BY <2>0 DEF Request
      <4>2. QED
        BY <2>0, <4>1, MovesOn
    <3>4. QED
      BY <1>3, <3>1, <3>2, <3>3, OneRequest DEF CheckPrevious, SInv
  <2>2. CASE Finish(h)
    BY <1>3, <2>2, IdleRequest DEF CheckPrevious
  <2>3. QED
    BY <1>3, <2>1, <2>2 DEF CheckPrevious
<1>4. CASE InsertSubmission(h)
  <2>1. CASE UNCHANGED subs
    BY <1>4, <2>1, IdleRequest DEF InsertSubmission
  <2>2. CASE ~UNCHANGED subs
    <3>1. req[h] \in Request /\ Pair(h) \in Users \X Challenges
      BY <1>4, Placed DEF InsertSubmission, SInv
    <3>2. PICK b \in BOOLEAN : subs' = [subs EXCEPT ![Pair(h)] = <<b>> \o @]
      BY <1>4, <2>2 DEF InsertSubmission
    <3>3. /\ flag[req[h].chal] # NoChallenge
          /\ req' = [req EXCEPT ![h] = Idle] /\ UNCHANGED <<flag, used>>
      BY <1>4, <2>2 DEF InsertSubmission, Finish
    <3>4. TypeOK'
      BY <3>1, <3>2, <3>3, RowAdded DEF SInv, TypeOK
    <3>5. NoDanglingRow'
      <4>1. /\ TypeOK /\ Pair(h) \in Users \X Challenges
            /\ Pair(h) = <<req[h].user, req[h].chal>>
        BY <3>1 DEF SInv, Pair
      <4>2. \A u \in Users, c \in Challenges :
              Pair(h) # <<u, c>> => subs'[<<u, c>>] = subs[<<u, c>>]
        BY <3>2, <4>1, RowAdded
      <4>3. ASSUME NEW u \in Users, NEW c \in Challenges, flag[c] = NoChallenge
            PROVE  subs'[<<u, c>>] = subs[<<u, c>>]
        BY <3>3, <4>1, <4>2, <4>3
      <4>4. QED
        BY <3>3, <4>3 DEF SInv, NoDanglingRow
    <3>6. ASSUME NEW g \in Handlers
          PROVE  /\ (req[g].place = "insert" => ~req[g].late)'
                 /\ (req[g].late => Correct(req[g].user, req[g].chal) # {})'
      <4>1. CASE g = h
        BY <3>3, <4>1 DEF SInv, TypeOK, Idle
      <4>2. CASE g # h
        <5>1. req'[g] = req[g]
          BY <3>3, <4>2 DEF SInv, TypeOK
        <5>2. req[g].late => req[g].user \in Users /\ req[g].chal \in Challenges
          BY DEF SInv, TypeOK, Request, Idle
        <5>3. \A u \in Users, c \in Challenges :
                Correct(u, c) # {} => Correct(u, c)' # {}
          BY <3>1, <3>2, RowAdded DEF SInv
        <5>4. (req[g].late => Correct(req[g].user, req[g].chal) # {})'
          BY <5>1, <5>2, <5>3 DEF SInv, Correct
        <5>5. QED
          BY <5>1, <5>4 DEF SInv, LateNeverStored
      <4>3. QED
        BY <4>1, <4>2
    <3>7. QED
      BY <3>4, <3>5, <3>6 DEF SInv, LateNeverStored
  <2>3. QED
    BY <2>1, <2>2
<1>5. QED
  BY <1>1, <1>2, <1>3, <1>4 DEF SubmitFlag

\* An admin's step leaves rows and requests alone, and a challenge with rows stays.
LEMMA AdminKeeps ==
  ASSUME SInv, NEW c \in Challenges,
         CreateChallenge(c) \/ UpdateChallenge(c) \/ DeleteChallenge(c)
  PROVE  /\ SInv'
         /\ UNCHANGED <<subs, req>>
<1>1. UNCHANGED <<subs, req>>
  BY DEF CreateChallenge, UpdateChallenge, DeleteChallenge
<1>2. TypeOK'
  BY <1>1 DEF SInv, TypeOK, CreateChallenge, UpdateChallenge, DeleteChallenge
<1>3. NoDanglingRow'
  <2>1. CASE DeleteChallenge(c)
    BY <1>1, <2>1 DEF SInv, TypeOK, NoDanglingRow, DeleteChallenge
  <2>2. CASE CreateChallenge(c) \/ UpdateChallenge(c)
    <3>1. PICK f \in Flags : flag' = [flag EXCEPT ![c] = f]
      BY <2>2 DEF CreateChallenge, UpdateChallenge
    <3>2. f # NoChallenge
      BY <3>1, SubmissionsAssumption DEF NoChallenge
    <3>3. QED
      BY <1>1, <3>1, <3>2 DEF SInv, TypeOK, NoDanglingRow
  <2>3. QED
    BY <2>1, <2>2
<1>4. QED
  <2>1. \A h \in Handlers :
          req[h].late' = req[h].late /\ Correct(req[h].user, req[h].chal)'
                                         = Correct(req[h].user, req[h].chal)
    BY <1>1 DEF Correct
  <2>2. QED
    BY <1>1, <1>2, <1>3, <2>1 DEF SInv, LateNeverStored

LEMMA SubmissionsNext == SInv /\ [Next]_vars => SInv'
<1> SUFFICES ASSUME SInv, [Next]_vars PROVE SInv'
  OBVIOUS
<1>1. CASE UNCHANGED vars
  BY <1>1 DEF vars, SInv, TypeOK, NoDanglingRow, LateNeverStored, Correct
<1>2. QED
  BY <1>1, SubmitKeeps, AdminKeeps DEF Next

\* At every step, whatever is stored at all stays.
LEMMA SolvedNext == SInv /\ SInv' /\ [Next]_vars => [SolvedStep]_vars
<1> SUFFICES ASSUME SInv, SInv', Next PROVE SolvedStep
  BY DEF vars
<1> SUFFICES ASSUME NEW u \in Users, NEW c \in Challenges, Correct(u, c) # {}
             PROVE  Keeps(subs'[<<u, c>>], subs[<<u, c>>]) /\ flag'[c] # NoChallenge
  BY DEF SolvedStep
<1>1. subs[<<u, c>>] \in Seq(BOOLEAN) /\ subs[<<u, c>>] # <<>>
  <2>1. subs[<<u, c>>] \in Seq(BOOLEAN)
    BY DEF SInv, TypeOK
  <2>2. ASSUME subs[<<u, c>>] = <<>>
        PROVE  FALSE
    <3>1. DOMAIN subs[<<u, c>>] = {}
      BY <2>2
    <3>2. QED
      BY <3>1 DEF Correct
  <2>3. QED
    BY <2>1, <2>2
<1>2. Keeps(subs'[<<u, c>>], subs[<<u, c>>])
  <2>1. CASE UNCHANGED subs
    BY <1>1, <2>1, KeepsSelf
  <2>2. CASE ~UNCHANGED subs
    <3>1. PICK h \in Handlers : InsertSubmission(h)
      BY <2>2, AdminKeeps
         DEF Next, SubmitFlag, SubmitRequest, FindChallenge, CheckPrevious
    <3>2. Pair(h) \in Users \X Challenges
      BY <3>1, Placed DEF InsertSubmission, SInv
    <3>3. PICK b \in BOOLEAN : subs' = [subs EXCEPT ![Pair(h)] = <<b>> \o @]
      BY <2>2, <3>1 DEF InsertSubmission
    <3>4. QED
      BY <3>2, <3>3, RowAdded DEF SInv
  <2>3. QED
    BY <2>1, <2>2
<1>3. subs'[<<u, c>>] # <<>>
  BY <1>1, <1>2 DEF Keeps
<1>4. QED
  BY <1>2, <1>3 DEF SInv, NoDanglingRow

-----------------------------------------------------------------------------
(* The theorems *)

\* The inductive invariant holds always.
THEOREM SInvAlways == Spec => []SInv
BY SubmissionsInit, SubmissionsNext, PTL DEF Spec

\* Challenges, submissions and requests keep their types, for every size.
THEOREM TypeCorrect == Spec => []TypeOK
<1>1. SInv => TypeOK
  BY DEF SInv
<1>2. QED
  BY <1>1, SInvAlways, PTL

\* A submission that comes after the solve never reaches the insert.
THEOREM LateAlways == Spec => []LateNeverStored
<1>1. SInv => LateNeverStored
  BY DEF SInv
<1>2. QED
  BY <1>1, SInvAlways, PTL

\* No stored submission is without its challenge.
THEOREM NoDanglingAlways == Spec => []NoDanglingRow
<1>1. SInv => NoDanglingRow
  BY DEF SInv
<1>2. QED
  BY <1>1, SInvAlways, PTL

\* A solve is for good.
THEOREM SolvedAlways == Spec => SolvedForGood
BY SInvAlways, SolvedNext, PTL DEF Spec, SolvedForGood
=============================================================================
