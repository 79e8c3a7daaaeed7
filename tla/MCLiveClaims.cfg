SPECIFICATION SearchSpec
CONSTANTS
  base = base
  g1 = g1
  Base = base
  None = None
  Failed = Failed
  Generation <- MCGeneration
  Operation <- MCOperation
  Caller <- MCCaller
  Answer <- MCAnswer
  Grants <- MCGrants
  EvaluatedCases <- MCEvaluated
  CanaryCases <- MCCanaries
  Development <- MCDevelopment
  TaskName <- MCNone
  ApprovalId <- MCNone
  Requests = 6
  MinimumGain = 1
  CandidateLimit = 1
  MaxParallelism = 1
  MaxRounds = 1
  Strategy = "development_first"
  HistoryLimit = 20
  MaxCrashes = 1
\* sentences of the documents that the code does not keep; TLC stops at the
\* first that it finds violated: leave one of them in to see its behaviour
INVARIANTS
  SearchIsFunded
  PointerReconciled
CHECK_DEADLOCK FALSE
