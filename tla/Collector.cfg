CONSTANTS
  Nodes = {n1, n2, n3}
  Nil = Nil
  NotWeak = NotWeak
  MaxFields = 1
  MaxHeld = 1
  MaxFinalizers = 2
  OnExit = {1}
  InR = {2}
SPECIFICATION Spec
SYMMETRY NodeSymmetry
INVARIANTS
  CollectorTypeOK
  NoDangling
  OldToYoungRemembered
  FinalizersOnce
PROPERTIES
  SurvivorsIntact
  FinalizedUnreachable
CHECK_DEADLOCK FALSE
