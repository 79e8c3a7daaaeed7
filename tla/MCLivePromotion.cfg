SPECIFICATION Spec
CONSTANTS
  base = base
  g1 = g1
  a1 = a1
  a2 = a2
  task1 = task1
  task2 = task2
  Base = base
  None = None
  Failed = Failed
  Generation <- MCGeneration
  Operation <- MCOperation
  Caller <- MCCaller
  Answer <- MCAnswer
  Grants <- MCGrants
  EvaluatedCases <- MCEvaluated
  CanaryCases <- MCCanaries
  Development <- MCDevelopment
  TaskName <- MCTask
  ApprovalId <- MCApproval
  Requests = 7
  MinimumGain = 1
  CandidateLimit = 1
  MaxParallelism = 1
  MaxRounds = 1
  Strategy = "development_first"
  HistoryLimit = 7
  MaxCrashes = 1
INVARIANTS
  HistoryAccepted
  AllocationHeld
  HumanGate
  OnlyProvenPromptsWork
  RevocationBound
PROPERTIES
  PromotionSpec
  LedgerSpec
CONSTRAINT DevelopmentPasses
SYMMETRY MCSymmetry
