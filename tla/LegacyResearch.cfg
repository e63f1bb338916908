SPECIFICATION Spec
CONSTANTS
  a = a
  b = b
  c = c
  NoStock = NoStock
  Stocks <- MCStocks
  Confirmed <- MCConfirmed
  TopCount = 2
  CandidateLists <- MCCandidateLists
  OldEvents <- MCOldEvents
  RoundLimit = 1
  MaxResults = 4
  MaxUnified = 1
  MaxUnfinished = 1
  MaxLaterGaps = 1
VIEW MCView
INVARIANTS
  OnlyAuditedResearch
\* The scripts are started by hand, and none is after the last result.
CHECK_DEADLOCK FALSE
