SPECIFICATION PluginSpec
CONSTANTS
  None = None
  Nothing = Nothing
  Sessions = {"s"}
  w1 = w1
  w2 = w2
  p1 = p1
  p2 = p2
  Writers = {w1, w2}
  Scripts <- MCScripts
  Configured = TRUE
  TraceLimit = 2
  MaxObjects = 2
  MaxWrites = 2
  CandidateFiles = {"f", "g"}
  Candidates = {"k"}
  Clients = {p1, p2}
  MaxEdits = 2
  MaxReloads = 1
INVARIANTS
  TraceIsHonest
  ClaimsHold
  DisposedIsRecorded
  StagedIsPrepared
SYMMETRY MCSymmetry
CHECK_DEADLOCK FALSE
