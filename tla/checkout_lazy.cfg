SPECIFICATION Spec
CONSTANTS
  p1 = p1
  p2 = p2
  p3 = p3
  d1 = d1
  d2 = d2
  Orders = {o1, o2}
  Materials = {m1, m2}
  Crypto = {m2}
  Procs = {p1, p2, p3}
  Pods = {d1, d2}
  PodOf <- Placement
  Lazy = {d1, d2}
  CacheSize = 1
  MaxFaults = 1
  None = None
INVARIANTS TypeOK OneSessionPerOrder UrlsAreLive LockHeld CacheBounded
SYMMETRY ProcSymmetry
