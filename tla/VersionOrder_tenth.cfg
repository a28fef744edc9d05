SPECIFICATION Spec
CONSTANTS
  FirstDay = 20260730
  MaxDay = 20260731
  MaxPatch = 12
INVARIANTS
  EveryReleaseIsNewer
