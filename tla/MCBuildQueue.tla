---------------------------- MODULE MCBuildQueue ----------------------------
(***************************************************************************)
(* Small instances of BuildQueue for TLC.                                  *)
(***************************************************************************)
EXTENDS BuildQueue, TLC

\* Workers are interchangeable; jobs are ordered.
Symmetry == Permutations(Workers)

\* What the properties of the run that has it as VIEW, and the guards, do not look at is
\* left out: info, list and the images.
View == <<queue, pushes, result, lost, enq, worker, stream>>
=============================================================================
