\* Three pids, which are reused, contend for the lease of one campaign; two
\* operators recover it whenever they like.
SPECIFICATION FairSpec
CONSTANTS
  Pid = {p1, p2, p3}
  Recoverer = {r1, r2}
  MaxOvertakes = 2
  None = None
INVARIANTS
  ExclusionBounded
PROPERTIES
  LeaseComesFree
