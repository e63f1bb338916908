CONSTANTS
  A = A
  B = B
  Symbols <- MCSymbols
  NoSymbol = NoSymbol
  MaxShares = 2
  MaxDecisions = 2
  MaxRuns = 3
  MaxOrders = 3
  MaxFailures = 1
SPECIFICATION Spec
INVARIANTS LegSentOnce SentIsStored OneSymbol
PROPERTIES CashIsFlat
SYMMETRY Symmetry
\* The bounds on decisions and cycles end every behaviour.
CHECK_DEADLOCK FALSE
