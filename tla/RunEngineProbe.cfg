SPECIFICATION Spec
CONSTANTS
  p1 = p1
  p2 = p2
  Procs <- MCProcs
  NoProc = NoProc
  MaxSteps = 2
  MaxPerRevision = 2
  TokenCap = 0
  UsageKnown = {TRUE}
  WorkerEdits = {"workspace", "control"}
  Contents <- MCContents
  GitShows <- MCGitShows
  Probing = TRUE
  StopsOldWorker = TRUE
  MaxFaults = 0
SYMMETRY Symmetry
INVARIANTS
  NeverStuck
CHECK_DEADLOCK FALSE
