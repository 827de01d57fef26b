CONSTANTS
  NULL = NULL
  LeaseSeconds = 1
  NumEntries = 1
  HasOmitted = FALSE
  MaxRetryAttempts = 1
  Workers = {w1}
  Reliable = {}
  Callers = {}
  Outdated = {}
  RetryDelay = 1
  MaxDelay = 1
  MaxStaleness = 0
  MaxFaults = 2
  Stored <- MCFresh
SPECIFICATION Spec
PROPERTIES
  FailureNeedsLiveLease
CHECK_DEADLOCK FALSE
