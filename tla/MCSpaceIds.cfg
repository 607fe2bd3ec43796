SPECIFICATION Spec
CONSTANTS
  Threads = {1, 2, 3}
  First = 1
  NoThread = 0
  NumPhysPages = 2
  NumPages = 3
  TableSize = 2
  Values = {0, 1, 2}
  PageSize = 2
  Zero = 0
  Unspecified = Unspecified
  Executable <- MCExecutable
  noffHeader <- MCnoffHeader
  Hole = Hole
  StaleArrays <- MCStaleArrays
  Programs <- MCPrograms
INVARIANT UniqueSpaceIds
CHECK_DEADLOCK FALSE
