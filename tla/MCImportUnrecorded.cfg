CONSTANTS
  NULL = NULL
  LeaseSeconds = 1
  Mine = mine
  Later = later
  Snapshots <- MCSnapshots
  ObservedAt <- MCObservedAt
  Workers = {w1, w2}
  Reliable = {}
  MaxRetryAttempts = 1
  RetryDelay = 1
  MaxDelay = 1
  MaxPages = 1
  MaxChanges = 1
  MaxStaleness = 0
  MaxFaults = 1
  StoredAttempts <- MCStoredAttempts
SPECIFICATION Spec
INVARIANTS
  PublishedStepsStayConfirmed
CHECK_DEADLOCK FALSE
