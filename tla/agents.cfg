SPECIFICATION AgentsSpec
CONSTANTS
  PreserveMinMessages = 1
  PreserveMinTokens = 1
  PreserveMaxTokens = 4
  HeavyTurns = {2}
  MaxAttempts = 1
  SummarizationEnabled = TRUE
  NoThreshold = NoThreshold
  Threshold = 5
  MaxSummarizations = 1
  CodeExecution = FALSE
  PostConditions = TRUE
  CycleBound = 2
  EventBound = 2
  Backends = {"codex", "claude", "kiro"}
  Numbers <- MCNumbers
  Lists <- MCLists
  Ranks = {1, 2, 3, 4}
  Learners = {4}
  Candidates = {1, 2, 3}
  Scores = {0, 2, 4}
INVARIANTS
  TypesOK
  HistoryIsKept
  
  
  TurnsAreTold
  ContractMeansSource
CHECK_DEADLOCK FALSE
