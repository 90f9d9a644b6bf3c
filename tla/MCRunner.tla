------------------------------ MODULE MCRunner ------------------------------
(***************************************************************************)
(* Small instances of Runner for TLC.                                      *)
(***************************************************************************)
EXTENDS Runner, TLC

\* Handlers are interchangeable, and so are container ids.
Symmetry == Permutations(Handlers) \cup Permutations(Containers)
=============================================================================
