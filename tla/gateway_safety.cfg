SPECIFICATION Spec
CONSTANTS
  Services = {product}
  Copies = {c1, c2}
  Workers = {t1, t2}
  UserService = user
  BalancedService = product
  Unreliable = {product}
  PipeCapacity = 2
  MaxRequests = 1
  None = None
SYMMETRY Symmetry
INVARIANTS
  TypeOK
  RunningHasHandle
  NoTransientLeftBehind
  OrphanOnlyAfterDemotion
PROPERTIES
  StoppedIsSticky
  IsLifecycle
