CONSTANTS
  Values = {v1}
  NoValue = NoValue
  MaxSlots = 3
  MaxGeneration = 3
  MaxDepth = 2
  MaxLease = 2
  MaxScopes = 2
  Promises = {p1}
SPECIFICATION EvaluationSpec
INVARIANTS
  EvaluationTypeOK
  NoRootOutlivesScope
  ScopesNested
  ForcedOnce
  Settled
PROPERTIES
  OuterRootsSurvive
CHECK_DEADLOCK FALSE
