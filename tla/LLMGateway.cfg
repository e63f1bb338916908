\* The bound on conversations ends the run: it stops by itself.
CONSTANTS
  MaxRetries = 2
  MaxConversations = 3
  MaxExchanges = 3
SPECIFICATION GatewaySpec
INVARIANTS WholeConversation FallsBackOnce CallsBounded
CHECK_DEADLOCK FALSE
