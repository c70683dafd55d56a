----------------------------- MODULE MCDemoSoak -----------------------------
(***************************************************************************)
(* DemoSoak with two signals of two contracts and one process that ticks.  *)
(* Two faults let a request come after the proof of its absence, and let   *)
(* its replacement be refused.                                             *)
(***************************************************************************)
EXTENDS DemoSoak

CONSTANTS s1, s2, w1
=============================================================================
