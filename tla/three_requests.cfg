SPECIFICATION Spec
CONSTANTS
  Threads = {t1}
  Requests = {r1, r2, r3}
  TerminateAfterIdle = TerminateAfterIdle
  NoRequest = NoRequest
  QueueBound = 4
  ReapBound = 2
  ReuseIds = FALSE
  HonoursCancel = FALSE
  SinkFails = FALSE
SYMMETRY Symmetry
INVARIANTS
  TypeOK
  NoOrphan
  TablesAgree
  CancelledWasAsked
  LogAgreesWithFutures
  
CHECK_DEADLOCK FALSE
