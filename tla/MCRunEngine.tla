---------------------------- MODULE MCRunEngine ----------------------------
(* RunEngine on small instances: two processes, up to three attempts.      *)
EXTENDS RunEngineRefinement, TLC

CONSTANTS p1, p2

MCProcs == {p1, p2}

(* Git tells a modified file from a clean one, not one draft from another. *)
MCContents == {"clean", "draft", "redraft"}
MCGitShows == [c \in MCContents |-> IF c = "clean" THEN "clean" ELSE "modified"]

Symmetry == Permutations(MCProcs)

(* Next without the probes, which Probing = FALSE rules out anyway.         *)
QuietNext ==
  \/ \E p \in Procs :
       BeginStep(p) \/ BeginRecover(p) \/ StepAction(p) \/ RecoverAction(p) \/ Abandon(p)
  \/ \E kind \in EditKinds : Edit(kind)
  \/ \E n \in live : OrphanExits(n)

QuietSpec == Init /\ [][QuietNext]_vars /\ Fairness
=============================================================================
