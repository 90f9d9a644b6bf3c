--------------------------- MODULE CalmInstances ---------------------------
(***************************************************************************)
(* Instances with callers that wait for their answer.  A behaviour is calm *)
(* or it is not: in a calm one a player asks for one thing at a time of a  *)
(* challenge, while others' requests run beside it, the database answers   *)
(* and the manager knows Docker's states.                                  *)
(***************************************************************************)
EXTENDS Instances

VARIABLE calm

Calm == INSTANCE Instances WITH Faults <- Faults \ {"db", "odd"}

\* No two requests are under way for one pair.
InTurn ==
  \A g, h \in Handlers :
    req[g] # Idle /\ req[h] # Idle /\ req[g].pair = req[h].pair => g = h

CalmInit == Init /\ calm \in BOOLEAN

CalmNext ==
  /\ \/ calm /\ Calm!Next /\ InTurn'
     \/ ~calm /\ Next
  /\ UNCHANGED calm

CalmSpec == CalmInit /\ [][CalmNext]_<<vars, calm>>

\* Requests that come one at a time for a player and a challenge, with a database that
\* answers, leave one row for them, however often the instance is started, stopped and
\* looked at while its container ends, the server dies and others' requests run.
OneRowWhenCalm == calm => OneRowPerPair
=============================================================================
