SPECIFICATION Spec
CONSTANTS
  a = a
  b = b
  h1 = h1
  h2 = h2
  w = w
  NoOne = NoOne
  Sessions = {a, b}
  Hosts = {h1,h2}
  Cwd <- MCCwd
  HostOf <- TwoHosts
  Budget <- ForeignBudget
  MaxSummaries = 2
  MaxCompactionChars = 3
  MaxManualChars = 1
CHECK_DEADLOCK FALSE
INVARIANT ReplacedByOwnChain
