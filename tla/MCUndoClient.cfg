SPECIFICATION ClientSpec
CONSTANTS
  FakeBase = 10
  MaxTurns = 2
  MaxRows = 2
  MaxUndos = 2
  MaxReplays = 2
  MaxRewrites = 0
  MaxCompacts = 0
  MaxFaults = 0
  MaxClicks = 3
CHECK_DEADLOCK FALSE
INVARIANTS
  TranscriptIsContext
  UndoButtonHonest
  RedoIsOffered
  TailUndoable
PROPERTIES
  RedoRestores
