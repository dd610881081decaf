SPECIFICATION Spec
CONSTANTS
  Conns = {a, b, c}
  MaxCommands = 1
  None = None
CHECK_DEADLOCK FALSE
SYMMETRY Symmetry
INVARIANTS
  BroadcastReachesAll
