SPECIFICATION Spec
CONSTANTS
  t1 = t1
  t2 = t2
  Threads <- OneThread
  Clients <- BothClients
  Replies <- FewReplies
  MaxCalls = 1
INVARIANTS
  TypedErrors
