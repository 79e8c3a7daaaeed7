SPECIFICATION Spec
CONSTANTS
  h1 = h1
  h2 = h2
  h3 = h3
  r1 = r1
  r2 = r2
  None = None
  MaxApprovals = 0
  Writer <- MCHandler
  Handler <- MCHandler
  Request <- MCRequest
  Cost <- MCCost
  Cap <- MCCap
  PolicyCap = 2
  Slots = 1
  MaxRequests = 3
  MaxCrashes = 1
INVARIANTS
  OutcomeIsTrue
  FailuresAccounted
SYMMETRY MCSymmetry
CHECK_DEADLOCK FALSE
