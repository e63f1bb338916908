CONSTANTS
  A = A
  B = B
  Symbols <- MCSymbols
  NoSymbol = NoSymbol
  MaxDecisions = 1
  MaxHoldings = 2
  MaxFailures = 1
SPECIFICATION FairSpec
INVARIANTS OneRowPerSymbol ReviewAskedOnce LostToFailures
PROPERTIES StopIsRun
