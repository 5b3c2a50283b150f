--------------------------- MODULE MCModelSettings ---------------------------
(***************************************************************************)
(* Instances of ModelSettings for TLC.  With two writers, a set of one can *)
(* come between any two steps of the other; with one and no faults, only   *)
(* what the sets do themselves is left.                                    *)
(***************************************************************************)
EXTENDS ModelSettings, TLC

CONSTANTS w1, w2, m1, m2

Symmetry == Permutations({w1, w2}) \cup Permutations({m1, m2})
=============================================================================
