SPECIFICATION Spec
CONSTANTS
  m1 = m1
  m2 = m2
  o1 = o1
  a1 = a1
  a2 = a2
  c1 = c1
  None = None
  RawCounts = {4}
  ShardLists = {0, 2, 3}
  Merchants = {m1, m2}
  Earlier <- OneEarlier
  TooLong = {m2}
  Orders = {o1}
  Material <- Baht
  IdOf <- Ids
  Admins = {a1, a2}
  Callers = {c1}
  Limit = 1
  MaxRows = 2
  Outcomes = {"paid"}
  MaxClock = 2
  MaxFaults = 1
CHECK_DEADLOCK FALSE
INVARIANT CreatedCanBeCharged
SYMMETRY AdminSymmetry
