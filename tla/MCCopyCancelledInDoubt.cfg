CONSTANTS
  NULL = NULL
  LeaseSeconds = 1
  NumEntries = 1
  HasOmitted = FALSE
  MaxRetryAttempts = 1
  Workers = {w1}
  Reliable = {w1}
  Callers = {}
  Outdated = {}
  RetryDelay = 1
  MaxDelay = 1
  MaxStaleness = 0
  MaxFaults = 0
  Stored <- MCFresh
SPECIFICATION Spec
INVARIANTS
  CancelledWithoutDoubt
CHECK_DEADLOCK FALSE
