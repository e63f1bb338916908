SPECIFICATION Spec
CONSTANTS
  NoOrder = NoOrder
  Orders <- MCOrders
  Foreign <- MCForeign
  Numberings <- MCNumberings
  MaxSockets = 2
  MaxRefreshes = 2
  MaxErrors = 2
INVARIANTS
  NoOrderLost
  ForeignOrderBlocks
  HoldingsSeen
PROPERTY PlacedOnlyFresh
\* The bounds on sockets, refreshes and errors end every behaviour.
CHECK_DEADLOCK FALSE
