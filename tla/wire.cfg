SPECIFICATION MCSpec
CONSTANTS
  Sides = {client, endpoint}
  Calls = {c1, c2}
INVARIANTS
  TypeOK
  WaitersAreTracked
  AnswersAreTrue
  NoCallVanishes
PROPERTIES
  CallsReturn
  ClosingSpreads
CHECK_DEADLOCK FALSE
