SPECIFICATION DeskSpec
CONSTANTS
  Commands = {c1, c2, c3}
  Paths = {d1, d2}
  NoCommand = NoCommand
  Names = {n1, n2}
  Requests = {r1, r2}
  Runners = {p1, p2}
  NoRunner = NoRunner
  MaxTime = 2
  MaxCommands = 4
  Setups = {p1, p2}
  FirstTexts <- OneText
  MaxSetups = 2
  MaxEdits = 1
  Times = {1, 2}
  Projects = {a, b}
  Messages = {11}
  Totals = {21, 22}
  MaxLines = 4
  MaxIndexed = 2
  Scanners = {p1, p2}
  MaxScans = 2
  t1 = t1
  t2 = t2
  t3 = t3
  class = class
  Ids = {t1, t2, t3}
  Classes = {class}
  MaxWorkPlanTasks = 3
  MaxPacketTasks = 1
  Plans <- AllPlans
  Creators = {p1, p2}
  NoCreator = NoCreator
  MaxWorkers = 2
  MaxCreates = 3
  MaxCount = 3
  Counts = {1, 2}
  Limits = {0, 3}
  MaxRecords = 2
  Inits = {p1, p2}
  FirstLines <- FirstRules
  MaxInits = 2
  MaxLineEdits = 1
  Freezers = {p1, p2}
  Sent = {r1}
  LastSecond = 2
  MaxFrozen = 2
  Sessions <- Both
  Kinds <- FewKinds
  MaxTokens = 40
  LongSession = 2
  EarlyN = 2
  TrivialOutput = 2
  FatStart = 2
  MinRewrite = 2
  MinRetry = 2
  RetryGap = 1
  ShortLife = 1
  LongLife = 2
  MaxRequests = 4
  MinTurns = 2
  EarlyTurns = 2
  ShareDivisor = 5
  MaxMalformed = 1
  MaxIgnored = 1
  claim = claim
  file = file
SYMMETRY Symmetry
INVARIANTS
  NothingOverwritten
  WindowsAreApart
  ScopedScansAgree
  IndexHidesNothing
  BlocksRoundTrip
  LoopFindsCycles
  RunsAreWhole
  NumbersAreTrue
PROPERTIES
  UserTextKept
  ClaimsMoveForward
CHECK_DEADLOCK FALSE
