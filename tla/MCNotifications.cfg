SPECIFICATION Spec
CONSTANTS
  a = a
  Sessions = {a}
  Interactions <- MCInteractions
  NoInteraction = none
  Wanted = {"completion", "error", "approval"}
  MaxLives = 2
  MaxTurns = 1
  MaxVisits = 2
CHECK_DEADLOCK FALSE
INVARIANTS
  ShownOnce
  AskedOnce
PROPERTIES
  SeenIsSilent
