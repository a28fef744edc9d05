SPECIFICATION FairSpec
CONSTANTS
  t1 = t1
  t2 = t2
  Threads <- TwoThreads
  Clients <- BothClients
  Replies <- FewReplies
  MaxCalls = 1
INVARIANTS
  DistinctKeys
  OneFailedCheck
PROPERTIES
  CallsEnd
