SPECIFICATION DelegationSpec
CONSTANTS
  a = a
  b = b
  c = c
  i = i
  j = j
  Roots = {a, b, c}
  Calls = {i, j}
  Cwd <- MCCwd
  Titles = {"t", "u"}
  FirstTitle <- MCTitle
  NoTitle = ""
  NoSession = none
  MAX_DELEGATION_DEPTH = 1
  MaxRenames = 1
  MaxChunks = 2
CHECK_DEADLOCK FALSE
INVARIANTS
  OwnedChild
  CancelledNeverAnswers
  Reach
  Quiescent
PROPERTIES
  CancelSettles
