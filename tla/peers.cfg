SPECIFICATION Spec
CONSTANTS
  Threads = {t1, t2, t3}
  Requests = {r1, r2, r3, r4}
  TerminateAfterIdle = TerminateAfterIdle
  NoThread = NoThread
  CallsAtOnce = 1
SYMMETRY Symmetry
INVARIANTS
  EdgesAreWaits
  NoCircularWait
CHECK_DEADLOCK FALSE
