CONSTANTS
  NULL = NULL
  MaxTime = 0
  MaxStaleness = 1
  Connections = {c1}
  Accounts = {account1}
  Capabilities = {evidence1}
  Probers = {p1}
  Attempts = {a1}
  Providers = {spotify, youtube}
  Callbacks = {h1}
  NoToken = NoToken
  Ttl = 1
  LeaseSeconds = 1
  Snapshots <- MCSnapshots
  Offers <- MCOffers
  Operations = {op1}
  Users = {u1}
  MaxPlans = 1
  Backups = {b1}
  MaxCommits = 0
  StageFiles <- MCPaths
  Above <- MCAbove
SPECIFICATION Spec
INVARIANT InterruptedStageResumes
CHECK_DEADLOCK FALSE
