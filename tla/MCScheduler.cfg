SPECIFICATION FairSpec
CONSTANTS
  Threads <- MCThreads
  Main = 1
  NoThread = 0
  Priorities <- MCPriorities
INVARIANTS ReadyListExact OneRunning CarcassIsDead OrderedByPriority
PROPERTIES ImplementsCpu EventuallyScheduled
CHECK_DEADLOCK FALSE
