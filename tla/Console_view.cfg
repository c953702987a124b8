SPECIFICATION Spec
CONSTANTS
  Clients = {x1}
  BootKeys = {None, b}
  None = None
  Null = Null
  MaxRows = 2
  MaxCrashes = 1
  Devices = {d1, d2}
  MaxCalls = 2
  MaxMoves = 4
CHECK_DEADLOCK FALSE
INVARIANTS
  TypeOK
  OneActiveRowPerKey
  RevokedForGood
  StartupLeavesAWayIn
  NoTimerLeak
PROPERTIES
  GoodKeyKept
  ViewCatchesUp
  RevokedPageLogsOut
  QuietWhenClosed
