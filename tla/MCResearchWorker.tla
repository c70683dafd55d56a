--------------------------- MODULE MCResearchWorker ---------------------------
(* Model values for TLC.  The processes are interchangeable, but the run that *)
(* checks liveness may not reduce by symmetry.                                *)
EXTENDS ResearchWorker

CONSTANTS w1, w2
=============================================================================
