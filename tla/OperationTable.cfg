CONSTANTS
  Ids = {0, 1, 2, 3}
  NoOp = NoOp
  Retention = 2
  TombstoneCap = 1
SPECIFICATION TableSpec
INVARIANTS
  TableTypeOK
  TableConsistent
  TokenMatchesStatus
  WindowKept
PROPERTIES
  ConsumedOnce
  OutcomeFinal
