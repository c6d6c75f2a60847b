----------------------------- MODULE MCMpscPool -----------------------------
(* MpscPool with two or three interchangeable producers.                    *)
EXTENDS MpscPool, TLC

CONSTANTS p1, p2, p3

MCProducers2 == {p1, p2}
MCProducers3 == {p1, p2, p3}
Symm == Permutations(Producers)
=============================================================================
