SPECIFICATION FairSpec
CONSTANTS
  Threads = {1, 2, 3, 4}
  Priority <- MCPriority
  InitialValue = 0
  Programs <- MCPrograms
INVARIANTS TypeOK SleepersQueued NoLostWakeup
PROPERTIES ImplementsAtomic Quiesces
CHECK_DEADLOCK FALSE
