SPECIFICATION Spec
CONSTANTS
  Workers = {w1, w2}
  Addressed = {4}
  MaxId = 5
SYMMETRY Symmetry
INVARIANTS
  StoreTypeOK
  CalmRequestsSucceed
  AnswersItsOwn
PROPERTIES
  ReplacesOnlyNewer
