SPECIFICATION FairSpec
CONSTANTS
  p1 = p1
  p2 = p2
  e1 = e1
  e2 = e2
  Procs = {p1, p2}
  NoProc = NoProc
  Platforms = {"mac", "linux", "windows"}
  Exes = {e1, e2}
  Nothing = Nothing
  Foreign = Foreign
  Baselines = {1, 2}
  Days = {1, 2}
  MaxSnapshots = 1
  MaxFaults = 2
  MaxWishes = 3
PROPERTIES
  BaselineKept
  DisableSticks
  WishGranted
  ImplementsOwnedJob
CHECK_DEADLOCK FALSE
