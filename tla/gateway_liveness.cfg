SPECIFICATION FairSpec
CONSTANTS
  Services = {user}
  Copies = {c1, c2}
  Workers = {t1}
  UserService = user
  BalancedService = product
  Unreliable = {user}
  PipeCapacity = 1
  MaxRequests = 1
  None = None
PROPERTIES
  EventLoopReturns
  DeadServiceIsReported
  AnsweredUnlessHung
  RefusedIsJudged
