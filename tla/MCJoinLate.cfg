SPECIFICATION Spec
CONSTANTS
  Threads = {1, 2}
  Main = 1
  Joinable <- AllJoinable
  Priority <- MCPriority
  Programs <- MCPrograms
  NoThread = 0
INVARIANT NoAssertionFails
CHECK_DEADLOCK FALSE
