CONSTANTS
  NULL = NULL
  LeaseSeconds = 1
  NumEntries = 2
  HasOmitted = FALSE
  MaxRetryAttempts = 1
  Workers = {w1, w2}
  Reliable = {w1}
  Callers = {w2}
  Outdated = {w2}
  RetryDelay = 1
  MaxDelay = 1
  MaxStaleness = 0
  MaxFaults = 2
  Stored <- MCAnyCheckpoint
SPECIFICATION FairSpec
PROPERTIES
  ContradictionStopsTheCopy
  AlwaysSettlesAgain
  CancellationTakesEffect
CHECK_DEADLOCK FALSE
