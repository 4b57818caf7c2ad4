SPECIFICATION QuietSpec
CONSTANTS
  p1 = p1
  p2 = p2
  Procs <- MCProcs
  NoProc = NoProc
  MaxSteps = 3
  MaxPerRevision = 2
  TokenCap = 0
  UsageKnown = {TRUE}
  WorkerEdits = {"workspace", "control", "wreck"}
  Contents <- MCContents
  GitShows <- MCGitShows
  Probing = FALSE
  StopsOldWorker = TRUE
  MaxFaults = 2
INVARIANTS
  NoLostDispatch
  NoDispatchOverLiveWorker
  NoDispatchOverUnacceptedEdits
  LedgerIsHistory
  BudgetsHold
  NeverStuck
PROPERTIES
  ImplementsContract
  BlockedIsResolved
CHECK_DEADLOCK FALSE
