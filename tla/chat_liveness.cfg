SPECIFICATION FairSpec
CONSTANTS
  Conns = {a, b}
  MaxCommands = 2
  None = None
CHECK_DEADLOCK FALSE
PROPERTIES
  ClosedIsForgotten
  BroadcastEnds
