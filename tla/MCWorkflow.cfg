SPECIFICATION Spec
CONSTANTS
  a1 = a1
  a2 = a2
  k1 = k1
  i1 = i1
  i2 = i2
  i3 = i3
  None = None
  Agents = {a1, a2}
  CallIds = {i1, i2, i3}
  MaxCalls = 4
  Keys = {k1}
  Totals <- MCTotals
  Bookings <- MCBookings
  Profiles <- MCProfiles
  Tasks <- MCTasks
SYMMETRY IdSymmetry
INVARIANTS
  AnswersAreTrue
  ServiceKeepsPolicy
PROPERTIES
  OutcomesStand
  NoBlindRetry
CHECK_DEADLOCK FALSE
