SPECIFICATION FairSpec
CONSTANTS
  Payloads <- AllPayloads
  MaxEdits = 2
  MaxHands = 2
  MaxFaults = 1
INVARIANTS IInv
PROPERTIES UndeclaredSurvives DeclaredPrevails ObserveForetells
