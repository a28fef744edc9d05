SPECIFICATION FairSpec
CONSTANTS
  Words <- MCWords
  Responses <- AllResponses
INVARIANTS
  TypeOK
  NothingHeldBack
  AllDeliveredAtEnd
  FailuresReported
  OnlyLastEventTruncated
  HandleReleased
PROPERTIES
  SilentAfterError
  ImplementsDelivery
  FramesDelivered
