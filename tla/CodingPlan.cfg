SPECIFICATION Spec
CONSTANTS
  t1 = t1
  t2 = t2
  t3 = t3
  c1 = c1
  c2 = c2
  d1 = d1
  d2 = d2
  k1 = k1
  file = file
  Ids <- MCIds
  Classes = {c1, c2}
  Decisions = {}
  Paths = {file}
  Claims = {}
  Manifests <- ManagedRuns
  MaxWorkPlanTasks = 3
  MaxPacketTasks = 3
  MaxQueueItems = 3
  MaxCompletedItems = 3
  MaxDecisions = 1
  MaxArtifacts = 1
  MaxChecks = 2
  MaxManagedChecks = 3
  MaxEpistemicItems = 1
  MaxEvidence = 1
  StateBudget = 6
  Proposals <- PlanProposals
  MaxAdd = 2
  MaxUpsert = 0
  MaxRevision = 4
INVARIANTS
  DependenciesFirst
  AlwaysReady
  PacketRulesSuffice
PROPERTIES
  ImplementsBoard
CHECK_DEADLOCK FALSE
