CONSTANTS
  p1 = p1
  c1 = c1
  c2 = c2
  c3 = c3
  None = None
  Pods = {p1}
  Calls = {c1, c2, c3}
  PodOf <- OnePod
  Capacity = 2
  Rate = 1
  Unit = 1
  Slack = 2
  Late = 1
  Ahead = 0
  MinRequests = 2
  MaxRequests = 2
  Interval = 1
  Timeout = 1
  MaxCount = 3
  MaxOutages = 1
SPECIFICATION Spec
INVARIANT FleetRate
PROPERTIES TripEarned Recovers
CHECK_DEADLOCK FALSE
