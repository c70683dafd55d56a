--------------------------- MODULE MCReconciliation ---------------------------
(* Model values for TLC: one runtime process, an approval that opens a     *)
(* position and a reduce-only recovery.                                    *)
EXTENDS Reconciliation

CONSTANTS w1, o1, r1
=============================================================================
