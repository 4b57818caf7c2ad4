------------------------- MODULE MonitorRefinement -------------------------
(* The monitor keeps the promise of OwnedJob.                              *)
EXTENDS Monitor

OurManifest == manifest.exe \in Exes

Part(r) ==
  IF r = "job" THEN job
  ELSE IF file[r] \in Exes THEN "ours" ELSE file[r]

Owner == INSTANCE OwnedJob WITH
  Resources <- AllResources \cup {"job"},
  Ours <- "ours",
  claimed <- OurManifest,
  parts <- [r \in AllResources \cup {"job"} |-> Part(r)]

(* Every file and job of ours is covered by the manifest at every moment,   *)
(* through crashes and failed calls, and nothing foreign is ever touched.   *)
ImplementsOwnedJob == Owner!JobSpec
=============================================================================
