SPECIFICATION FairSpec
CONSTANTS
  p1 = p1
  p2 = p2
  p3 = p3
  p4 = p4
  Pods = {p1, p2, p3, p4}
  Homes = {"media", "guests"}
  Placement <- FourPods
  Templates <- Updates
  MaxStops = 2
  NoPod = NoPod
INVARIANTS IInv OneReconciler
PROPERTIES EveryKindIsServed
CHECK_DEADLOCK FALSE
