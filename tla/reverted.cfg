SPECIFICATION FairSpec
CONSTANTS
  apiKey = apiKey
  password = password
  Fields = {apiKey}
  Values = {1, 2}
  Rotations <- AnyRotations
  Absent = Absent
  Unseen = Unseen
  MaxRotations = 2
  MaxHands = 1
  MaxFaults = 0
PROPERTY RotationsArrive
