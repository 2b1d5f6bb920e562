CONSTANTS
  Ids = {0, 1}
  NoOp = NoOp
  Shutdown = Shutdown
  Callers = {c1, c2}
  QueueCapacity = 1
  Retention = 1
  TombstoneCap = 1
  Requests <- SyncRequests
SPECIFICATION SafetySpec
SYMMETRY CallerSymmetry
INVARIANTS
  NoRequestAbandoned
  TimedOutIsCancelled
PROPERTIES
  UsesTable
CHECK_DEADLOCK FALSE
