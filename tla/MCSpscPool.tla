----------------------------- MODULE MCSpscPool -----------------------------
(* SpscPool on small pools: frame contents are model values and             *)
(* interchangeable (symmetry is used only by runs without liveness).        *)
EXTENDS SpscPool, TLC

CONSTANTS v1, v2

MCValue == {v1, v2}
Symm == Permutations(MCValue)
=============================================================================
