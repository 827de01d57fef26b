CONSTANTS
  NULL = NULL
  LeaseSeconds = 1
  OpIds <- MCOpIds
  Workers = {w1, w2}
  Kinds = {copy}
  Steps = {step}
  MaxProgress = 1
  MaxDelay = 1
  MaxStaleness = 1
  MaxTime = 2
SYMMETRY WorkerSymmetry
SPECIFICATION Spec
INVARIANTS
  TypeOK
  OwnershipMatchesState
  QuarantineIsResolvable
  AuditTrailAgrees
  SummaryMatchesClaims
PROPERTIES
  LivesAsPromised
  LiveLeaseIsRespected
  CancellationEndsAuthority
  QuarantineEndsByResolution
  LateWritesAreBounded
CHECK_DEADLOCK FALSE
