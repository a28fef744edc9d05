SPECIFICATION Spec
CONSTANTS
  t1 = t1
  t2 = t2
  Threads <- OneThread
  Clients <- AllClients
  Replies <- AllReplies
  MaxCalls = 2
INVARIANTS
  OutcomeIsTrue
  ForeignExceptions
