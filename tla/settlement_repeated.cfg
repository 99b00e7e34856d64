SPECIFICATION Spec
CONSTANTS
  N = 4
  Undecodable = {2}
  Silent = {3}
  NoSecret = {5}
  BatchSize = 2
  maxAttempts = 2
  Faults = {}
  MaxFaults = 0
PROPERTY AckedNotRepeated
CHECK_DEADLOCK FALSE
