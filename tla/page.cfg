SPECIFICATION FairSpec
CONSTANTS
  Statuses = {"running"}
  Sockets = {k1, k2}
  Polls = {p1, p2}
  MaxTimers = 2
  None = None
INVARIANTS
  TypeOK
  ConnectedHasSocket
  RoleFollows
PROPERTIES
  PageConverges
  DownIsNoticed
