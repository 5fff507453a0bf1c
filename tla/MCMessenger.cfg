SPECIFICATION FairSpec
CONSTANTS
  a = a
  b = b
  c = c
  Sessions = {a, b, c}
  Title <- MCTitle
  Cwd <- TwoRooms
  MaxHops = 2
  AutoWake = FALSE
  MaxRelays = 2
  MaxInputs = 2
  MaxContexts = 1
  MaxDisposals = 1
  MaxFaults = 1
CHECK_DEADLOCK FALSE
INVARIANTS
  ReplyToAsker
  WatchOwed
  ChainBounded
PROPERTIES
  KeepsLedger
  AnsweredUnlessExcused
  RelayDischarged
