SPECIFICATION Spec
CONSTANTS
  Width <- MCWidth
  HeaderOverhead = 2
  ContWidth = 1
  MarkerRoom = 3
  MarkerWidth = 2
  SummaryLines <- MCSummary
  BlockLines <- MCBlock
  MessageLines <- MCMessages
  Caps = {1, 5, 9, 17}
  Bytes = {4, 7, 8}
  Rows <- MCRows
  Drafts <- MCDrafts
  MaxSummary = 5
  MaxBlock = 5
  MaxMessages = 5
CHECK_DEADLOCK FALSE
INVARIANT OverrideWins
