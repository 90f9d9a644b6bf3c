----------------------------- MODULE MCInstances -----------------------------
(* Small instances of CalmInstances for TLC. *)
EXTENDS CalmInstances, TLC

\* Requests, pairs, the manager's uuids and the runner's ports are interchangeable.
Symmetry == Permutations(Handlers) \cup Permutations(Pairs) \cup Permutations(Ids)
              \cup Permutations(Addresses)

\* bounds: in a calm behaviour the second changes once at most; one that is not calm
\* leaves an id unused
MCNext == CalmNext /\ (IF calm THEN clock' <= 1 ELSE Fresh' # {})
MCSpec == CalmInit /\ [][MCNext]_<<vars, calm>>
=============================================================================
