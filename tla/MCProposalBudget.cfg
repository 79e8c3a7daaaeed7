SPECIFICATION BudgetSpec
CONSTANTS
  w1 = w1
  w2 = w2
  r1 = r1
  r2 = r2
  None = None
  MaxApprovals = 1
  Writer <- MCWriter
  Request <- MCRequest
  Cost <- MCCost
  Cap <- MCCap
INVARIANTS
  OneChain
  SnapshotIsReal
PROPERTIES
  LedgerSpec
SYMMETRY MCSymmetry
CHECK_DEADLOCK FALSE
