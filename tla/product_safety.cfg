SPECIFICATION Spec
CONSTANTS
  Workers = {w1, w2}
  Addressed = {4}
  MaxId = 4
  Quantities <- Units
  Levels = {1}
  MaxStock = 1
SYMMETRY Symmetry
INVARIANTS
  TypeOK
  CalmRequestsSucceed
PROPERTIES
  KeepsPromise
