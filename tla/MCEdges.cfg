CONSTANTS
  NULL = NULL
  Strays <- MCStrays
  Items <- MCItems
  Playlists <- MCPlaylists
  PageSize = 2
  MaxPages = 3
  MaxEdits = 1
  AnyPages <- MCAnyPages
  MaxReads = 3
  MaxWrites = 2
  MaxStrangers = 1
  MaxRestarts = 1
SPECIFICATION Spec
INVARIANTS
  TypeOK
  CompleteMeansWhole
  QuietReadIsFaithful
PROPERTIES
  ReadEnds
  WriterKeepsContract
  LateAnswersAreFenced
  DashboardSettles
CHECK_DEADLOCK FALSE
