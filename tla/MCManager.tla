------------------------------ MODULE MCManager ------------------------------
(***************************************************************************)
(* Small instances of Manager for TLC.                                     *)
(***************************************************************************)
EXTENDS Manager, TLC

\* Requests are interchangeable, and so are uuids.
Symmetry == Permutations(Handlers) \cup Permutations(Instances)
=============================================================================
