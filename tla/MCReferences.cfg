SPECIFICATION Spec
CONSTANTS
  Aliases = {"a", "b"}
  Branches = {"main", "dev"}
  DefaultBranch = "main"
  NoBranch = "none"
  Entries <- MCEntries
  Tables <- MCTables
  MaxJobs = 3
  MaxEdits = 2
  MaxRestarts = 1
INVARIANTS
  MarkIsTruth
PROPERTIES
  OwnClone
  Converges
