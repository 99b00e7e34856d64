SPECIFICATION Spec
CONSTANTS
  p1 = p1
  p2 = p2
  p3 = p3
  d1 = d1
  d2 = d2
  Orders = {o1}
  Materials = {m1}
  Crypto = {}
  Procs = {p1, p2}
  Pods = {d1, d2}
  PodOf <- Placement
  Lazy = {}
  CacheSize = 1
  MaxFaults = 1
  None = None
INVARIANT OneSessionPerOrder
