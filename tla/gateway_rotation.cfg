SPECIFICATION Spec
CONSTANTS
  m1 = m1
  m2 = m2
  p1 = p1
  p2 = p2
  r1 = r1
  r2 = r2
  s1 = s1
  s2 = s2
  None = None
  Merchants = {m1}
  Pods = {p1}
  Requests = {r1, r2}
  Records <- Rotated
  Cap = 1
  TTL = 1
  QueryTimeout = 1
  SendTimeout = 1
  Window = 3
  Late = 1
  Ahead = 0
  DefaultLimit = 2
  MaxTime = 4
CHECK_DEADLOCK FALSE
INVARIANT TakesEffectImmediately
SYMMETRY RequestSymmetry
