CONSTANTS
  NULL = NULL
  MaxTime = 2
  MaxStaleness = 1
  Connections = {c1, c2}
  Accounts = {account1, account2}
  Capabilities = {evidence1}
  Probers = {p1, p2}
  Attempts = {a1, a2}
  Providers = {spotify, youtube}
  Callbacks = {h1, h2}
  NoToken = NoToken
  Ttl = 1
  LeaseSeconds = 1
  Snapshots <- MCSnapshots
  Offers <- MCOffers
  Operations = {op1, op2}
  Users = {u1, u2}
  MaxPlans = 2
  Backups = {b1, b2}
  MaxCommits = 2
  StageFiles <- MCPaths
  Above <- MCAbove
SPECIFICATION Spec
INVARIANTS
  TypeOK
  OneCallerIsTold
  AdmittedPlansAreWhole
  DestinationIsWhole
  StagingResumes
PROPERTIES
  DisconnectedIsFinal
  CompetingObservationWins
  AcceptanceStands
CHECK_DEADLOCK FALSE
