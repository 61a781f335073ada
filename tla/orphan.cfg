SPECIFICATION SafeSpec
CONSTANTS
  a = a
  b = b
  v = v
  w = w
  formats = formats
  profiles = profiles
  folders = folders
  Absent = Absent
  Names = {a, b}
  Vals = {v, w}
  Kinds <- OneKind
  Prunable = {formats}
  CreateOnly = {}
  DefOrder <- OneOrder
  SyncOrder <- OneOrder
  FirstBase = formats
  LateKinds = {}
  Specs <- PruneSpecs
  MaxPrune = 1
  MaxFaults = 0
  MaxEdits = 1
  MaxHands = 0
INVARIANTS OwnershipIsNeverLost
CHECK_DEADLOCK FALSE
