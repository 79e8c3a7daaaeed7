SPECIFICATION WorkspaceSpec
CONSTANTS
  c1 = c1
  c2 = c2
  None = None
  Caller = {c1, c2}
  MaxCalls <- MCMaxCalls
  SagaIds = {"s1"}
  Payloads = {"p1", "p2"}
  AdmissionIds = {"a1", "a2"}
  Candidates = {"k1", "k2"}
  OldResults <- MCOldResults
  f1 = f1
  f2 = f2
  f3 = f3
  RecordIds = {f1, f2, f3}
  Contents = {"x", "y", "temporary"}
  Ephemeral = {"temporary"}
  StoreLimit = 1
  RunContents <- MCRunContents
  FailedRuns <- MCFailedRuns
  Plans <- MCPlans
  Batches = {"b1"}
  Metrics <- MCMetrics
  Versions = {"v1", "v2"}
  Suites <- MCSuites
  Decisions <- MCDecisions
  Humans = {"ann"}
  Actors = {"ann", "tool"}
  Times = {1, 2}
  Authored <- MCAuthoredEarly
  ActionIds = {"g1", "g2"}
  Requests <- MCRequests
  Artifacts = {"artifact"}
  RateLimit = 1
  Branches = {"b1", "b2"}
  Receipts <- MCReceipts
  Holdouts = {1, 2}
  TrackedStores = {"store", "runs"}
  MaxResets = 2
  ResetFocuses = {"reset"}
\* sentences of the documents that the code does not keep; TLC stops at the
\* first, OrderCanBeFollowed: leave one of them in to see its behaviour (with
\* Authored <- MCAuthored for ApprovalIsOfApplied)
INVARIANTS
  OrderCanBeFollowed
  ParallelWritersOnlyCollideOnIds
  ReclustersCleanly
  ResetSparesUncommitted
  ApprovalIsOfApplied
PROPERTIES
  SealIsOneShot
SYMMETRY MCSymmetry
CHECK_DEADLOCK FALSE
