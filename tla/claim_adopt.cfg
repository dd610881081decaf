SPECIFICATION Spec
CONSTANTS
  Services = {product}
  Copies = {c1, c2}
  Workers = {}
  UserService = user
  BalancedService = product
  Unreliable = {}
  PipeCapacity = 2
  MaxRequests = 1
  None = None
PROPERTIES
  LiveServiceIsAdopted
