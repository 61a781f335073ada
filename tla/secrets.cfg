SPECIFICATION FairSpec
CONSTANTS
  apiKey = apiKey
  password = password
  Fields = {apiKey, password}
  Values = {1, 2, 3}
  Rotations <- FreshRotations
  Absent = Absent
  Unseen = Unseen
  MaxRotations = 2
  MaxHands = 2
  MaxFaults = 2
INVARIANTS TypeOK IInv
PROPERTIES QuietPassIsHonest TwoPassesSuffice RotationsArrive
