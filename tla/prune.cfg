SPECIFICATION SafeSpec
CONSTANTS
  a = a
  b = b
  v = v
  w = w
  formats = formats
  profiles = profiles
  folders = folders
  Absent = Absent
  Names = {a, b}
  Vals = {v, w}
  Kinds <- OneKind
  Prunable = {formats}
  CreateOnly = {}
  DefOrder <- OneOrder
  SyncOrder <- OneOrder
  FirstBase = formats
  LateKinds = {}
  Specs <- PruneSpecs
  MaxPrune = 1
  MaxFaults = 1
  MaxEdits = 2
  MaxHands = 1
INVARIANTS TypeOK LedgerWasEarned PruneIsBounded OrphansAreExplained
PROPERTIES DeletesAreJustified LedgerKeepsLiveResources KeepsContract
CHECK_DEADLOCK FALSE
