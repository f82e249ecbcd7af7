SPECIFICATION Spec
CONSTANTS
  Clients = {c1, c2}
  Wids = {w1}
  Threads = {t1}
  Requests = {1, 2}
  Nobody = Nobody
  Ops = {"submit", "cancel"}
  Unloadable = {}
  DropBound = 0
PROPERTIES
  CallsReturn
CHECK_DEADLOCK FALSE
