SPECIFICATION Spec
CONSTANTS
  Pair = {t1, t2}
  Single = {q}
  Alone = {t}
  Couple = {r1, r2}
  TerminateAfterIdle = TerminateAfterIdle
  NoRequest = NoRequest
SYMMETRY Symmetry
INVARIANTS
  RunningMeansInFlight
PROPERTIES
  CloseFailsNoClosedThread
  FailedIsFinal
  ServesInOrder
CHECK_DEADLOCK FALSE
