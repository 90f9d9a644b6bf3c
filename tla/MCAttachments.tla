---------------------------- MODULE MCAttachments ----------------------------
(* The instances of Attachments that TLC checks. *)
EXTENDS Attachments, TLC

CONSTANTS h1, h2, n1, n2, t1, t2, c1, f1, f2, i1, i2

Symmetry == Permutations({h1, h2}) \cup Permutations({t1, t2}) \cup Permutations({i1, i2})
            \cup Permutations({f1, f2})

===============================================================================
