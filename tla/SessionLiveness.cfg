CONSTANTS
  Ids = {0, 1}
  NoOp = NoOp
  Shutdown = Shutdown
  Callers = {c1}
  QueueCapacity = 1
  Retention = 1
  TombstoneCap = 1
  Requests <- LivenessRequests
SPECIFICATION BoundedHostSpec
PROPERTIES
  RequestReturns
  ShutdownReturns
  CancelledUnwinds
  FailedInitLeavesNoThread
CHECK_DEADLOCK FALSE
