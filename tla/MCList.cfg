SPECIFICATION ListSpec
CONSTANTS
  Cells = {1, 2, 3, 4}
  Keys <- MCKeys
  MaxArrivals = 5
INVARIANT WellLinked
PROPERTY ImplementsQueue
