SPECIFICATION FairSpec
CONSTANTS
  Threads = {1, 2, 3, 4, 5, 6}
  Machines = {1, 2}
  Boxes <- MCBoxes
  Lists <- MCLists
  Host <- MCHost
  Worker <- MCWorker
  Systems <- MCSystems
  Reliabilities = {"all", "some"}
  Priority <- MCPriority
  NoThread = 0
INVARIANTS ItemsHaveTakers MailConserved OneAtATime
PROPERTY MailArrives
CHECK_DEADLOCK FALSE
