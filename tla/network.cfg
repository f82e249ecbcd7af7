SPECIFICATION NetworkSpec
CONSTANTS
  Clients = {c1, c2}
  Wids = {w1}
  Threads = {t1}
  Requests = {1, 2}
  Nobody = Nobody
  Ops = {"spawn", "submit"}
  Unloadable = {}
  DropBound = 1
  Subscribers = {s1, s2}
  All = All
  Actors = {a, b}
  Calls = {k1}
  Traces = {q1, q2}
  Names = {n1, n2}
  Servers = {p1, p2, p3}
  Readers = {p4}
  None = None
  Garbage = Garbage
  Hosted = {h1, h2}
  Callers = {d1, d2}
  Watched = h1
  Ids = {"i", "j"}
  Decisions = {"allow", "approve", "deny"}
  Backends = {"codex", "claude", "kiro"}
  Messages = {1, 2}
  Compiler = Compiler
  Other = Other
SYMMETRY Symmetry
INVARIANTS
  TypesOK
  RegistryAgrees
  AnswersAreLogged
  EveryoneIsTold
  
  
  
  ApprovalsAreKept
  
  SilentEndWasAsked
  LoadedIsPublished
CHECK_DEADLOCK FALSE
