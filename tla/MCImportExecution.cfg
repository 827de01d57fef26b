CONSTANTS
  NULL = NULL
  LeaseSeconds = 2
  Mine = mine
  Later = later
  Snapshots <- MCSnapshots
  ObservedAt <- MCObservedAt
  Workers = {w1, w2}
  Reliable = {w1}
  MaxRetryAttempts = 1
  RetryDelay = 1
  MaxDelay = 1
  MaxPages = 1
  MaxChanges = 1
  MaxStaleness = 1
  MaxFaults = 1
  StoredAttempts <- MCStoredAttempts
SPECIFICATION FairSpec
INVARIANTS
  TypeOK
  CurrentIsNewest
  SucceededMeansPublished
PROPERTIES
  KeepsImportContract
  PublicationNeedsAuthority
  OnlyWholeReadingsArePublished
  AlwaysSettlesAgain
CHECK_DEADLOCK FALSE
