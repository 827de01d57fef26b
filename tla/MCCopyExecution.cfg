CONSTANTS
  NULL = NULL
  LeaseSeconds = 1
  NumEntries = 2
  HasOmitted = FALSE
  MaxRetryAttempts = 1
  Workers = {w1, w2}
  Reliable = {}
  Callers = {w1, w2}
  Outdated = {w1, w2}
  RetryDelay = 1
  MaxDelay = 1
  MaxStaleness = 1
  MaxFaults = 2
  Stored <- MCFresh
SYMMETRY WorkerSymmetry
SPECIFICATION Spec
INVARIANTS
  TypeOK
  AtMostOnce
  FinishedMeansQuiet
  StoredCheckpointParses
PROPERTIES
  KeepsContract
CHECK_DEADLOCK FALSE
