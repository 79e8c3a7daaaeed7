SPECIFICATION Spec
CONSTANTS
  c1 = c1
  c2 = c2
  n1 = n1
  n2 = n2
  w = w
  x = x
  None = None
  Client <- MCClient
  Node <- MCNode
  Artifact <- MCArtifact
  Root <- MCRoot
  Workspace <- MCWorkspace
  Report <- MCReport
  Amount <- MCAmount
  Attempts = 2
  Rounds = 2
  Parallelism = 1
  Limit = 2
  Maximize = TRUE
  MaxCrashes = 1
  MaxRemovals = 1
INVARIANTS
  LogLoads
  LimitsBind
  ProvenanceIsSound
  ReviewsStand
SYMMETRY MCSymmetry
CHECK_DEADLOCK FALSE
