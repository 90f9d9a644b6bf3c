---------------------------- MODULE MCSubmissions ----------------------------
(***************************************************************************)
(* Small instances of Submissions for TLC.                                 *)
(***************************************************************************)
EXTENDS Submissions, TLC

\* Requests, users, challenge ids and flags are interchangeable.
Symmetry == Permutations(Handlers) \cup Permutations(Users)
              \cup Permutations(Challenges) \cup Permutations(Flags)
=============================================================================
