SPECIFICATION LivenessSpec
CONSTANTS
  Clients = {c1, c2}
  Wids = {w1}
  Threads = {t1}
  Requests = {1}
  Nobody = Nobody
  Ops = {"spawn", "submit", "cancel", "pause", "terminate"}
  Unloadable = {}
  DropBound = 1
  Talkers = {u1, u2}
  Prompts = {r1, r2, r3}
  TerminateAfterIdle = TerminateAfterIdle
  NoThread = NoThread
  Hosted = h1
  Runs = {p1, p2}
  NoRequest = NoRequest
  Compiler = Compiler
  Other = Other
  NoThreshold = NoThreshold
PROPERTIES
  CallersGoOn
  Answered
  EndsAreReached
  WorkEnds
  FailedStays
CHECK_DEADLOCK FALSE
