----------------------------- MODULE Submissions -----------------------------
(***************************************************************************)
(* ctf-server: flags (usecase/client_challenge.go, SubmitFlag) beside the  *)
(* admin's challenges (usecase/admin_service.go).                          *)
(*                                                                         *)
(* SubmitFlag reads the challenge, reads the player's submissions and      *)
(* inserts a new one in three statements without a transaction; an admin   *)
(* can edit or delete the challenge between them.                          *)
(***************************************************************************)
EXTENDS Integers, Sequences, FiniteSets

CONSTANTS
  Handlers,    \* submissions served at the same time
  Users,
  Challenges,  \* challenge ids
  Flags,       \* what a challenge's flag, and a submitted flag, can be
  MaxRows,     \* bounds the model: submissions accepted for a user and a challenge
  Faults       \* {"db"}: a statement fails

ASSUME SubmissionsAssumption ==
  /\ MaxRows \in Nat
  /\ Faults \subseteq {"db"}
  /\ "no challenge" \notin Flags

VARIABLES
  flag,   \* the challenges table: its flag column, or NoChallenge
  subs,   \* the submissions table: is_correct of each row, newest first
  used,   \* challenge ids that were given out
  req     \* what each handler is doing

vars == <<flag, subs, used, req>>

NoChallenge == "no challenge"
None == "none"
Idle == [place |-> "idle", user |-> None, chal |-> None, sent |-> None,
         copy |-> None, late |-> FALSE]
\* late is not in the code: the pair was solved when the request came.
Request == [place : {"find", "previous", "insert"}, user : Users, chal : Challenges,
            sent : Flags, copy : Flags \cup {None}, late : BOOLEAN]

\* Every variable has its type.
TypeOK ==
  /\ flag \in [Challenges -> Flags \cup {NoChallenge}]
  /\ subs \in [Users \X Challenges -> Seq(BOOLEAN)]
  /\ used \subseteq Challenges
  /\ req \in [Handlers -> Request \cup {Idle}]

Init ==
  /\ flag = [c \in Challenges |-> NoChallenge]
  /\ subs = [p \in Users \X Challenges |-> <<>>]
  /\ used = {}
  /\ req = [h \in Handlers |-> Idle]

Correct(u, c) == {k \in DOMAIN subs[<<u, c>>] : subs[<<u, c>>][k]}
Pair(h) == <<req[h].user, req[h].chal>>
GoTo(h, place) == req' = [req EXCEPT ![h].place = place]
Finish(h) == req' = [req EXCEPT ![h] = Idle]

-----------------------------------------------------------------------------
(* SubmitFlag *)

\* bound: MaxRows
SubmitRequest(h) ==
  \E u \in Users, c \in used, f \in Flags :
    /\ req[h] = Idle
    /\ Len(subs[<<u, c>>])
         + Cardinality({g \in Handlers : req[g].user = u /\ req[g].chal = c}) < MaxRows
    /\ req' = [req EXCEPT ![h] = [place |-> "find", user |-> u, chal |-> c, sent |-> f,
                                  copy |-> None, late |-> Correct(u, c) # {}]]
    /\ UNCHANGED <<flag, subs, used>>

\* Mutant: a challenge that is not there is not noticed.
FindChallengeUnchecked(h) ==
  /\ req[h].place = "find"
  /\ req' = [req EXCEPT ![h].place = "previous", ![h].copy = flag[req[h].chal]]
  /\ UNCHANGED <<flag, subs, used>>

FindChallenge(h) ==
  /\ req[h].place = "find"
  /\ \/ /\ flag[req[h].chal] # NoChallenge
        /\ req' = [req EXCEPT ![h].place = "previous", ![h].copy = flag[req[h].chal]]
     \/ (flag[req[h].chal] = NoChallenge \/ "db" \in Faults) /\ Finish(h)
  /\ UNCHANGED <<flag, subs, used>>

\* Mutant: only the newest submission is looked at.
SolvedNewest(rows) == rows # <<>> /\ Head(rows)

\* One of the player's submissions was correct.
Solved(rows) == \E k \in DOMAIN rows : rows[k]

\* A solved challenge is answered (false, 0) and nothing is stored.
CheckPrevious(h) ==
  /\ req[h].place = "previous"
  /\ \/ ~Solved(subs[Pair(h)]) /\ GoTo(h, "insert")
     \/ (Solved(subs[Pair(h)]) \/ "db" \in Faults) /\ Finish(h)
  /\ UNCHANGED <<flag, subs, used>>

\* Mutant: the row is inserted without a look at the foreign key.
InsertNoKey(h) ==
  /\ req[h].place = "insert"
  /\ subs' = [subs EXCEPT ![Pair(h)] = <<req[h].sent = req[h].copy>> \o @]
  /\ Finish(h)
  /\ UNCHANGED <<flag, used>>

\* The flag sent is compared with the copy of the challenge.  The foreign key refuses a
\* row for a challenge that is gone.  Points are awarded after the row is in.
InsertSubmission(h) ==
  /\ req[h].place = "insert"
  /\ \/ /\ flag[req[h].chal] # NoChallenge
        /\ subs' = [subs EXCEPT ![Pair(h)] = <<req[h].sent = req[h].copy>> \o @]
     \/ (flag[req[h].chal] = NoChallenge \/ "db" \in Faults) /\ UNCHANGED subs
  /\ Finish(h)
  /\ UNCHANGED <<flag, used>>

SubmitFlag(h) ==
  SubmitRequest(h) \/ FindChallenge(h) \/ CheckPrevious(h) \/ InsertSubmission(h)

-----------------------------------------------------------------------------
(* The admin's challenges: one statement each *)

\* A fresh uuid; the caller learns it with the row stored.
CreateChallenge(c) ==
  /\ c \notin used
  /\ used' = used \cup {c}
  /\ \E f \in Flags : flag' = [flag EXCEPT ![c] = f]
  /\ UNCHANGED <<subs, req>>

UpdateChallenge(c) ==
  /\ flag[c] # NoChallenge
  /\ \E f \in Flags : flag' = [flag EXCEPT ![c] = f]
  /\ UNCHANGED <<subs, used, req>>

\* Mutant: deleting a challenge deletes its submissions.
DeleteChallengeCascades(c) ==
  /\ flag[c] # NoChallenge
  /\ flag' = [flag EXCEPT ![c] = NoChallenge]
  /\ subs' = [p \in DOMAIN subs |-> IF p[2] = c THEN <<>> ELSE subs[p]]
  /\ UNCHANGED <<used, req>>

\* submissions.challenge_id has a foreign key without a cascade: a challenge somebody
\* has submitted to cannot be deleted.  (So has instances.challenge_id: that a challenge
\* with an instance stays is the same as the admin not asking.)
DeleteChallenge(c) ==
  /\ flag[c] # NoChallenge
  /\ \A u \in Users : subs[<<u, c>>] = <<>>
  /\ flag' = [flag EXCEPT ![c] = NoChallenge]
  /\ UNCHANGED <<subs, used, req>>

Next ==
  \/ \E h \in Handlers : SubmitFlag(h)
  \/ \E c \in Challenges : CreateChallenge(c) \/ UpdateChallenge(c) \/ DeleteChallenge(c)

Spec == Init /\ [][Next]_vars

-----------------------------------------------------------------------------
(* Properties *)

\* A submission that comes after the pair was solved is answered (false, 0) and stores
\* nothing, also when wrong submissions that came earlier are stored after the solve.
LateNeverStored == \A h \in Handlers : req[h].place = "insert" => ~req[h].late

\* The rows of old are in new as they were, behind newer ones.
Keeps(new, old) ==
  /\ Len(new) >= Len(old)
  /\ \A k \in DOMAIN old : new[k + Len(new) - Len(old)] = old[k]

\* A solve is for good: the solver's rows stay, whatever an admin does to the challenge
\* and whatever is in flight, and the challenge they were for exists.
SolvedStep ==
  \A u \in Users, c \in Challenges :
    Correct(u, c) # {} => Keeps(subs'[<<u, c>>], subs[<<u, c>>]) /\ flag'[c] # NoChallenge

SolvedForGood == [][SolvedStep]_vars

\* A stored submission is for a challenge that exists, although the challenge can be
\* deleted between the lookup and the insert.
NoDanglingRow ==
  \A u \in Users, c \in Challenges : subs[<<u, c>>] # <<>> => flag[c] # NoChallenge
=============================================================================
