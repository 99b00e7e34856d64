SPECIFICATION Spec
CONSTANTS
  N = 4
  Undecodable = {2}
  Silent = {3}
  NoSecret = {5}
  BatchSize = 2
  maxAttempts = 2
  Faults = {"dlq"}
  MaxFaults = 1
INVARIANT CommittedHandled
CHECK_DEADLOCK FALSE
