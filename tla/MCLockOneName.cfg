SPECIFICATION Spec
CONSTANTS
  Threads = {1, 2}
  Name <- OneName
  Priority <- MCPriority
  Programs <- MCOnce
  NoThread = 0
INVARIANT MutualExclusion
CHECK_DEADLOCK FALSE
