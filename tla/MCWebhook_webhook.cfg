CONSTANTS
  Keys <- TwoKeys
  Payloads <- MCPayloads
  Stamps <- MCStamps
  Tolerances = {1}
  MaxClock = 2
  Width = 3
SPECIFICATION Spec
INVARIANTS
  AcceptedIsSigned
  GenuineAccepted
  LastSignatureCounts
  EventIsPayload
CHECK_DEADLOCK FALSE
