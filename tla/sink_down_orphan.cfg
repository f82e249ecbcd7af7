SPECIFICATION Spec
CONSTANTS
  Threads = {t1}
  Requests = {r1}
  TerminateAfterIdle = TerminateAfterIdle
  NoRequest = NoRequest
  QueueBound = 2
  ReapBound = 2
  ReuseIds = FALSE
  HonoursCancel = FALSE
  SinkFails = TRUE
INVARIANTS
  NoOrphan
CHECK_DEADLOCK FALSE
