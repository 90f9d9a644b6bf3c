---------------------------- MODULE ContentStore ----------------------------
(***************************************************************************)
(* What the registry promises of its blobs: a repository has only blobs    *)
(* that are stored, and a stored blob stays and keeps the content its      *)
(* digest names.  `careless' says that the storage does not keep the last  *)
(* promise: content may come and go under a digest.                        *)
(***************************************************************************)
CONSTANTS Repos, Digests

VARIABLES
  careless,
  stored,  \* digests there is a blob for
  intact,  \* ... with the content they name
  linked   \* pairs of a repository and a digest

vars == <<careless, stored, intact, linked>>

Init ==
  /\ careless \in BOOLEAN
  /\ stored = {} /\ intact = {} /\ linked = {}

Store(d) ==
  /\ stored' = stored \cup {d}
  /\ intact' = intact \cup {d}
  /\ UNCHANGED <<careless, linked>>

Alter(d) ==
  /\ careless
  /\ stored' = stored \cup {d}
  /\ intact' \in {intact, intact \cup {d}, intact \ {d}}
  /\ UNCHANGED <<careless, linked>>

Link(r, d) ==
  /\ d \in stored
  /\ linked' = linked \cup {<<r, d>>}
  /\ UNCHANGED <<careless, stored, intact>>

Unlink(r, d) ==
  /\ linked' = linked \ {<<r, d>>}
  /\ UNCHANGED <<careless, stored, intact>>

Next ==
  \/ \E d \in Digests : Store(d) \/ Alter(d)
  \/ \E r \in Repos, d \in Digests : Link(r, d) \/ Unlink(r, d)

Spec == Init /\ [][Next]_vars
=============================================================================
