SPECIFICATION FairSpec
CONSTANTS
  N = 4
  Undecodable = {}
  Silent = {3}
  NoSecret = {2}
  BatchSize = 2
  maxAttempts = 2
  Faults <- FaultKinds
  MaxFaults = 2
INVARIANTS CallsBounded OnlyFaultsLose
PROPERTIES DeadLettersEarned CommitsAdvance ImplementsDelivery EventSettled
CHECK_DEADLOCK FALSE
