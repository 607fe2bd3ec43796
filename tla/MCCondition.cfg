SPECIFICATION FairSpec
CONSTANTS
  Threads = {1, 2, 3}
  Name <- OwnNames
  Priority <- MCPriority
  Programs <- MCPrograms
  NoThread = 0
INVARIANTS TypeOK MutualExclusion SleepersQueued NoLostWakeup
PROPERTIES ImplementsMonitor Quiesces
CHECK_DEADLOCK FALSE
