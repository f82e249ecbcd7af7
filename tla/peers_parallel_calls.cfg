SPECIFICATION Spec
CONSTANTS
  Threads = {t1, t2}
  Requests = {r1, r2, r3, r4}
  TerminateAfterIdle = TerminateAfterIdle
  NoThread = NoThread
  CallsAtOnce = 2
SYMMETRY Symmetry
INVARIANTS
  NoCircularWait
CHECK_DEADLOCK FALSE
