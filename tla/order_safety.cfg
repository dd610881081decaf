SPECIFICATION Spec
CONSTANTS
  Workers = {w1, w2}
  Addressed = {4}
  MaxId = 5
SYMMETRY Symmetry
INVARIANTS
  TypeOK
  ReplacesOnlyNewer
  MarksFollow
  CountsAddUp
PROPERTIES
  FlowOnly
  IsCrowdedBook
