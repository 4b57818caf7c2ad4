SPECIFICATION Spec
CONSTANTS
  t1 = t1
  t2 = t2
  t3 = t3
  c1 = c1
  c2 = c2
  d1 = d1
  d2 = d2
  k1 = k1
  file = file
  Ids <- MCIds
  Classes = {c1, c2}
  Decisions = {d1, d2}
  Paths = {}
  Claims = {}
  Manifests <- OpenRuns
  MaxWorkPlanTasks = 3
  MaxPacketTasks = 3
  MaxQueueItems = 3
  MaxCompletedItems = 2
  MaxDecisions = 1
  MaxArtifacts = 1
  MaxChecks = 3
  MaxManagedChecks = 3
  MaxEpistemicItems = 1
  MaxEvidence = 1
  StateBudget = 8
  Proposals <- PlanProposals
  MaxAdd = 1
  MaxUpsert = 0
  MaxRevision = 3
INVARIANTS
  NothingForgotten
  CompleteIsEarned
CHECK_DEADLOCK FALSE
