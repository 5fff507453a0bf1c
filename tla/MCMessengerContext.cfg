SPECIFICATION Spec
CONSTANTS
  a = a
  b = b
  c = c
  Sessions = {a, b, c}
  Title <- MCTitle
  Cwd <- TwoRooms
  MaxHops = 2
  AutoWake = TRUE
  MaxRelays = 3
  MaxInputs = 1
  MaxContexts = 1
  MaxDisposals = 0
  MaxFaults = 0
CHECK_DEADLOCK FALSE
INVARIANT MaxHopsIsCeiling
