SPECIFICATION SearchSpec
CONSTANTS
  base = base
  g1 = g1
  Base = base
  None = None
  Failed = Failed
  Generation <- MCGeneration
  Operation <- MCOperation
  Caller <- MCCaller
  Answer <- MCAnswer
  Grants <- MCGrants
  EvaluatedCases <- MCEvaluated
  CanaryCases <- MCCanaries
  Development <- MCDevelopment
  TaskName <- MCNone
  ApprovalId <- MCNone
  Requests = 9
  MinimumGain = 1
  CandidateLimit = 2
  MaxParallelism = 1
  MaxRounds = 2
  Strategy = "development_first"
  HistoryLimit = 20
  MaxCrashes = 0
INVARIANTS EvidenceQualifies
CHECK_DEADLOCK FALSE
