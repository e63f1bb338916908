CONSTANTS
  A = A
  B = B
  Symbols <- MCSymbols
  NoSymbol = NoSymbol
  MaxEntries = 2
  Capital = 2
  MaxRequotes = 1
  MaxOrders = 2
  MaxFailures = 1
SPECIFICATION Spec
INVARIANTS NoMargin OneSymbolBought EntryTrySentOnce
PROPERTIES RefinesLedger
SYMMETRY Symmetry
\* The bound on decisions ends a behaviour once every entry is settled.
CHECK_DEADLOCK FALSE
