SPECIFICATION Spec
CONSTANTS
  FakeBase = 10
  MaxTurns = 2
  MaxRows = 2
  MaxUndos = 2
  MaxReplays = 2
  MaxRewrites = 1
  MaxCompacts = 1
  MaxFaults = 2
CHECK_DEADLOCK FALSE
INVARIANTS
  TypeOK
  CitedForGood
  NoContentTwice
  LastTurnClosed
PROPERTIES
  HeadSurvives
