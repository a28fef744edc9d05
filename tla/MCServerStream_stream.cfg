SPECIFICATION FairSpec
CONSTANTS
  Words <- MCWords
  Responses <- AllResponses
  Clients <- BothClients
INVARIANTS
  NoTruncatedEvent
  AgreesWithFormationClient
  AllOrNothing
PROPERTIES
  FramesFollowTransfer
