SPECIFICATION FolderSpec
CONSTANTS
  a = a
  b = b
  v = v
  w = w
  formats = formats
  profiles = profiles
  folders = folders
  Absent = Absent
  Names = {a, b}
  Vals = {v, w}
  Kinds <- FolderKinds
  Prunable = {profiles}
  CreateOnly = {folders}
  DefOrder <- FolderOrder
  SyncOrder <- FolderOrder
  FirstBase = folders
  LateKinds = {profiles}
  Specs <- FolderSpecs
  MaxPrune = 1
  MaxFaults = 1
  MaxEdits = 1
  MaxHands = 1
PROPERTIES SyncedIsHonest Converges
CHECK_DEADLOCK FALSE
