---------------------------- MODULE TimeWindows ----------------------------
(* Where the program cuts time in two, to count requests on either side.   *)
EXTENDS Experiments, ProjectBaseline

(* Two places cut the time in two: the windows of two experiments, and the   *)
(* baseline of a project.  No request is on both sides (experiment.rs,       *)
(* initcmd.rs, deltacmd.rs).                                                *)
WindowsAreApart == NoRequestOnBothSides /\ BaselineSplits
=============================================================================
