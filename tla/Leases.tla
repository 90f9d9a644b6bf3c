------------------------------- MODULE Leases -------------------------------
(***************************************************************************)
(* The life of an instance, as ctf-manager promises it to its callers and  *)
(* ctf-server relies on it.  Whoever asked for an instance is told its id  *)
(* when it comes to life; it ends when its program does or somebody stops  *)
(* it; it is over when its container has been removed, and stays so.  It   *)
(* is lost, for good, when it comes to life without a row: nobody reaches  *)
(* its container again.  A failure may strand several at once, so in each  *)
(* step every instance takes a step of its own or none.                    *)
(***************************************************************************)
CONSTANTS
  Ids,
  Lossy  \* calls to Docker, the runners or the database can fail, or the manager die

VARIABLES
  lease,  \* how far each instance is
  told    \* ids that were answered

vars == <<lease, told>>

Init == lease = [i \in Ids |-> "none"] /\ told = {}

Tells(i) == i \in told' /\ i \notin told
TellsNot(i) == i \in told' <=> i \in told
Goes(i, from, to) == lease[i] \in from /\ lease'[i] \in to

\* The program may have ended before the row was written.
Start(i) == Goes(i, {"none"}, {"live", "ended"}) /\ Tells(i)

\* The caller may be told all the same.
Lose(i) == Lossy /\ Goes(i, {"none"}, {"lost"}) /\ (Tells(i) \/ TellsNot(i))

End(i) == Goes(i, {"live"}, {"ended"}) /\ TellsNot(i)

\* A failed call never makes an instance unreachable that its caller has been told of.
Destroy(i) == Goes(i, {"live", "ended"}, {"over"}) /\ TellsNot(i)

Stay(i) == lease'[i] = lease[i] /\ TellsNot(i)

Next == \A i \in Ids : Stay(i) \/ Start(i) \/ Lose(i) \/ End(i) \/ Destroy(i)

Spec == Init /\ [][Next]_vars
=============================================================================
