SPECIFICATION FairSpec
CONSTANTS
  h1 = h1
  h2 = h2
  h3 = h3
  r1 = r1
  r2 = r2
  None = None
  MaxApprovals = 0
  Writer <- MCTwo
  Handler <- MCTwo
  Request <- MCRequest
  Cost <- MCCost
  Cap <- MCCap
  PolicyCap = 2
  Slots = 1
  MaxRequests = 2
  MaxCrashes = 1
PROPERTIES
  SpendCapSpec
  RequestsEnd
CHECK_DEADLOCK FALSE
