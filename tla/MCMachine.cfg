SPECIFICATION Spec
CONSTANTS
  ByteBits = 2
  Registers = {0, 2, 3, 4, 5, 6, 29, 31}
  JumpSpan = 64
  PageSize = 16
  Threads = {1, 2, 3}
  UserTick = 1
  SystemTick = 2
  TimerTicks = 2
  First = 1
  Name <- MCName
  ConsoleTime = 3
  MaxResident = 2
  Setups <- MCSetups
INVARIANTS NoLoadInKernel ArithmeticExact SimulatorsAgree ConsoleConserves
PROPERTY ImplementsPrivateCpu
CHECK_DEADLOCK FALSE
