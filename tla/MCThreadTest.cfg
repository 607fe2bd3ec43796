SPECIFICATION FairSpec
CONSTANTS
  Threads = {1, 2, 3, 4, 5, 6, 7, 8}
  JoinThreads = {1, 2, 3, 4}
  Priority <- MCPriority
  SomeTests = {0,3,5,6,7,8,9,10,11,38,39,14,31,32,33,34,35,36,361,37,15,16,19,20,21,22,51,52,53,54,55}
  MorePrograms <- MCPrograms
  MoreCalls <- MCCalls
  MorePopulations <- MCPopulations
  NoThread = 0
  NoKind = "None"
INVARIANTS JoinRendezvous MessagesInPairs WhalesInTriplets PriorityOrder
PROPERTY TestsEnd
CHECK_DEADLOCK FALSE
