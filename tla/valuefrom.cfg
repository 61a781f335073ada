SPECIFICATION Spec
CONSTANTS
  Table <- Fifteen
  Controllers = {"prowlarr"}
  MaxDeclared <- One
  MaxEvents <- One
  MaxPrune = 1
  UseValueFrom = TRUE
PROPERTIES SyncedIsEarned
CHECK_DEADLOCK FALSE
