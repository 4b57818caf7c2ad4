------------------------- MODULE MCRunEngineDamage -----------------------
(* RunEngine in two kinds of bad company: in one, one crash or failed       *)
(* write, under a token cap and with usage that stays unknown; in the       *)
(* other, a worker that damages the intent or wrecks the run's files, cache *)
(* probes, and no crash.  Somebody looks at the run all the time.           *)
EXTENDS RunInspect, TLC

CONSTANTS p1, p2

VARIABLE company

MCProcs == {p1, p2}

(* What the engine does and these properties say depends on what git shows   *)
(* only, so one content for each status is enough here.                     *)
MCContents == {"clean", "modified"}
MCGitShows == [c \in MCContents |-> c]

Symmetry == Permutations(MCProcs)

Damage == \E kind \in {"wreck", "alter", "garble", "delete"} : Edit(kind)

Keeps ==
  IF company = "damage" THEN UNCHANGED faults
  ELSE ~Damage /\ \A p \in Procs : ~BeginProbe(p)

DamageInit == InspectInit /\ company \in {"crashes", "damage"}

DamageSpec ==
  DamageInit /\ [][InspectNext /\ UNCHANGED company /\ Keeps]_<<vars, view, company>>
=============================================================================
