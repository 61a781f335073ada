SPECIFICATION FairSpec
CONSTANTS
  a = a
  b = b
  v = v
  w = w
  formats = formats
  profiles = profiles
  folders = folders
  Absent = Absent
  Names = {a}
  Vals = {v}
  Kinds <- TwoKinds
  Prunable = {formats, profiles}
  CreateOnly = {}
  DefOrder <- TwoOrder
  SyncOrder <- TwoOrder
  FirstBase = formats
  LateKinds = {profiles}
  Specs <- DeletionSpecs
  MaxPrune = 1
  MaxFaults = 1
  MaxEdits = 2
  MaxHands = 1
INVARIANTS IInv PassInv
PROPERTIES ObserveIsReadOnly NoReleaseBeforeCleanup CleanupIsReversed DeletionCompletes
CHECK_DEADLOCK FALSE
