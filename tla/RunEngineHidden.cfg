SPECIFICATION Spec
CONSTANTS
  p1 = p1
  p2 = p2
  Procs <- MCProcs
  NoProc = NoProc
  MaxSteps = 2
  MaxPerRevision = 2
  TokenCap = 0
  UsageKnown = {TRUE}
  WorkerEdits = {"workspace", "control"}
  Contents <- MCContents
  GitShows <- MCGitShows
  Probing = FALSE
  StopsOldWorker = TRUE
  MaxFaults = 1
SYMMETRY Symmetry
INVARIANTS
  EditsAreSeen
CHECK_DEADLOCK FALSE
