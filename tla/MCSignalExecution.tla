--------------------------- MODULE MCSignalExecution ---------------------------
(* Small instances of SignalExecution. *)
EXTENDS SignalExecution, TLC

Symmetry == Permutations(Deployments) \cup Permutations(Runtimes)
================================================================================
