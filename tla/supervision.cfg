SPECIFICATION SuperSpec
CONSTANTS
  Services = {order}
  OrderKey = order
  Copies = {c1, c2}
  Workers = {t1}
  UserService = user
  BalancedService = product
  Unreliable = {}
  PipeCapacity = 2
  MaxRequests = 1
  None = None
  MaxId = 4
SYMMETRY Symmetry
PROPERTIES
  
  IsGateway
  OrdersOutliveDemotion
