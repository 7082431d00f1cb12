---------------------------- MODULE MCDocuments ----------------------------
(* Two versions, the second infected; one process works on them while requests interleave. *)
EXTENDS Documents, TLC

CONSTANTS w1, r1, r2, r3

MCWorkers  == {w1}
MCRequests == {r1, r2, r3}
Symmetry   == Permutations(MCRequests)
=============================================================================
