SPECIFICATION Spec
CONSTANTS
  FirstDay = 20260730
  MaxDay = 20260733
  MaxPatch = 12
INVARIANTS
  OrderedUpToTen
CHECK_DEADLOCK FALSE
