SPECIFICATION SearchSpec
CONSTANTS
  base = base
  g1 = g1
  Base = base
  None = None
  Failed = Failed
  Generation <- MCGeneration
  Operation <- MCOperation
  Caller <- MCCaller
  Answer <- MCAnswer
  Grants <- MCGrants
  EvaluatedCases <- MCEvaluated
  CanaryCases <- MCCanaries
  Development <- MCDevelopment
  TaskName <- MCNone
  ApprovalId <- MCNone
  Requests = 13
  MinimumGain = 1
  CandidateLimit = 3
  MaxParallelism = 2
  MaxRounds = 2
  Strategy = "development_first"
  HistoryLimit = 20
  MaxCrashes = 1
INVARIANTS
  ParentsAreTrue
  ReplayReproduces
PROPERTIES
  CallProtocol
CONSTRAINT BaselineMisses
CHECK_DEADLOCK FALSE
