------------------------------ MODULE JobBoard ------------------------------
(***************************************************************************)
(* The build service as an admin may rely on it: a board of jobs.  Jobs    *)
(* are taken in the order they were posted, each as often as it was        *)
(* posted.  A job posted once is settled when its builder is through with  *)
(* it or has gone, with a verdict or without one, and nobody builds it     *)
(* again.  Its verdict comes from its builder; it can be voided, and it    *)
(* can expire.  An admin who waits is told the verdict of a settled job.   *)
(* A lossy board can take a job off and give it to nobody, and a job can   *)
(* be on it twice: what is then said of that job is muddled.               *)
(***************************************************************************)
EXTENDS Naturals, Sequences

CONSTANTS
  Jobs,
  Builders,
  Nobody,  \* what a builder has who is not building
  Lossy    \* whether jobs can be lost and doubled

VARIABLES
  posted,    \* how often each job was posted
  waiting,   \* jobs nobody has taken, oldest first
  building,  \* the job each builder is at work on
  verdict,   \* how a job ended
  told       \* what an admin who waits for a job has been told

vars == <<posted, waiting, building, verdict, told>>

Final == {"success", "failed"}

Init ==
  /\ posted = [j \in Jobs |-> 0] /\ waiting = <<>>
  /\ building = [b \in Builders |-> Nobody]
  /\ verdict = [j \in Jobs |-> "none"]
  /\ told = [j \in Jobs |-> "none"]

Doubled(j) == posted[j] > 1
Settled(j) ==
  /\ posted[j] > 0
  /\ \A k \in DOMAIN waiting : waiting[k] # j
  /\ \A b \in Builders : building[b] # j

Post(j) ==
  /\ posted[j] = 0 \/ Lossy
  /\ posted' = [posted EXCEPT ![j] = @ + 1]
  /\ waiting' = Append(waiting, j)
  /\ UNCHANGED <<building, verdict, told>>

Take(b) ==
  /\ building[b] = Nobody /\ waiting # <<>>
  /\ building' = [building EXCEPT ![b] = Head(waiting)]
  /\ waiting' = Tail(waiting)
  /\ UNCHANGED <<posted, verdict, told>>

Drop ==
  /\ Lossy /\ waiting # <<>>
  /\ waiting' = Tail(waiting)
  /\ UNCHANGED <<posted, building, verdict, told>>

Judge(j, v) == verdict' = [verdict EXCEPT ![j] = v]

\* A builder is through with its job, and gives a verdict or none.
Settle(b, j) ==
  /\ building[b] = j
  /\ building' = [building EXCEPT ![b] = Nobody]
  /\ UNCHANGED verdict \/ \E v \in Final : Judge(j, v)
  /\ UNCHANGED <<posted, waiting, told>>

Void(j) ==
  /\ Settled(j)
  /\ Judge(j, "none")
  /\ UNCHANGED <<posted, waiting, building, told>>

\* A verdict is given again; it is not another one than an admin was told.
Renew(j) ==
  /\ Lossy /\ Settled(j)
  /\ \E v \in Final : Judge(j, v) /\ (told[j] \in Final => told[j] = v)
  /\ UNCHANGED <<posted, waiting, building, told>>

Expire(j) ==
  /\ verdict[j] \in Final
  /\ Judge(j, "expired")
  /\ UNCHANGED <<posted, waiting, building, told>>

Muddle(j) ==
  /\ Doubled(j)
  /\ \E v \in Final \cup {"none", "expired"} : Judge(j, v)
  /\ UNCHANGED <<posted, waiting, building, told>>

\* Whoever is told of a verdict is told the verdict.
Tell(j) ==
  /\ Settled(j) \/ Doubled(j)
  /\ told[j] = "none"
  /\ \E answer \in {"unspecified"} \cup (Final \cap {verdict[j]}) :
       told' = [told EXCEPT ![j] = answer]
  /\ UNCHANGED <<posted, waiting, building, verdict>>

Next ==
  \/ \E j \in Jobs : Post(j) \/ Void(j) \/ Renew(j) \/ Expire(j) \/ Muddle(j) \/ Tell(j)
  \/ \E b \in Builders : Take(b) \/ \E j \in Jobs : Settle(b, j)
  \/ Drop

Spec == Init /\ [][Next]_vars
=============================================================================
