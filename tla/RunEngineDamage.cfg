SPECIFICATION DamageSpec
CONSTANTS
  p1 = p1
  p2 = p2
  Procs <- MCProcs
  NoProc = NoProc
  MaxSteps = 3
  MaxPerRevision = 2
  TokenCap = 2
  UsageKnown = {TRUE, FALSE}
  WorkerEdits = {"workspace", "control", "wreck", "alter", "garble", "delete"}
  Contents <- MCContents
  GitShows <- MCGitShows
  Probing = TRUE
  StopsOldWorker = TRUE
  MaxFaults = 1
SYMMETRY Symmetry
INVARIANTS
  ObservationMatchesState
  CapHolds
  DamageHidesNothing
PROPERTIES
  ReportsAreWhole
CHECK_DEADLOCK FALSE
