----------------------------- MODULE MCMonitor -----------------------------
(* The monitor on a small instance: two processes, two places for the       *)
(* program, every platform.                                                 *)
EXTENDS MonitorRefinement

CONSTANTS p1, p2, e1, e2
=============================================================================
