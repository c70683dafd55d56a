---------------------------- MODULE MCOrderWriter ----------------------------
(* Model values for TLC: the writer processes, which are interchangeable,   *)
(* an approval that opens a position and one that closes it.                *)
EXTENDS OrderWriterRefinement, TLC

CONSTANTS w1, w2, o1, c1, r1

MCWriters == {w1, w2}

Symmetry == Permutations(MCWriters)
=============================================================================
