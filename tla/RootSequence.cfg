CONSTANTS
  Values = {v1, v2}
  MaxDepth = 3
  MaxLease = 4
  NoValue = NoValue
  Tickets = {t1, t2}
  Limit = 5
  FirstCapacity = 2
  MaxRounding = 1
  MaxTicket = 2
SPECIFICATION BudgetSpec
INVARIANTS
  BudgetTypeOK
  LeasesAscend
  LedgerBalanced
  BudgetHeld
PROPERTIES
  OnlySnapshotRewritten
  ImplementsSequence
CHECK_DEADLOCK FALSE
