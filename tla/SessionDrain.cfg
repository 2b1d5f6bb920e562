CONSTANTS
  Ids = {0}
  NoOp = NoOp
  Shutdown = Shutdown
  Callers = {c1}
  QueueCapacity = 1
  Retention = 1
  TombstoneCap = 1
  Requests <- AsyncRequests
SPECIFICATION SafetySpec
INVARIANTS
  DrainedAreCancelled
CHECK_DEADLOCK FALSE
