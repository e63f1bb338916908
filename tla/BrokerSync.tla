----------------------------- MODULE BrokerSync -----------------------------
(***************************************************************************)
(* The IBKR Paper adapter of src/src/execution/ibkr.py: readiness of the   *)
(* socket, the reconciliation snapshot and the gate in front of            *)
(* placeOrder.                                                             *)
(*                                                                         *)
(* Two threads share the adapter without a lock.  The command worker       *)
(* connects, reconciles and submits; it waits in connect, in               *)
(* _refresh_broker_state, in the quotes between position_symbols and       *)
(* reconcile, and in resolve_instrument.  The "ibkr-api" thread delivers   *)
(* TWS messages one by one; a connectivity or fatal error is one of them,  *)
(* and while its callback writes the database and then takes the readiness *)
(* away, field by field, the worker goes on.  TWS answers requests in      *)
(* order, and answers a request the adapter has stopped waiting for on the *)
(* same socket.                                                            *)
(*                                                                         *)
(* An order is its client order id; a position is named after the order    *)
(* that opened it.  The account summary stream has no content the          *)
(* properties tell apart and is left out.  disconnect() waits two seconds  *)
(* for the API thread: a callback that takes longer, and withdraws what    *)
(* the next socket has learned, is left out.                               *)
(***************************************************************************)
EXTENDS Naturals, Sequences, FiniteSets

CONSTANTS
  Orders,       \* client order ids
  Foreign,      \* orders of other API clients
  Numberings,   \* the order ids the orders may have, counted for each client apart
  NoOrder,
  MaxSockets,   \* bound on connect() calls
  MaxRefreshes, \* bound on refreshes
  MaxErrors     \* bound on connectivity and fatal errors

ASSUME SyncAssumption ==
  /\ Foreign \subseteq Orders
  /\ NoOrder \notin Orders
  /\ \A f \in Numberings : \A o, p \in Orders \ Foreign : f[o] = f[p] => o = p
  /\ MaxSockets \in Nat /\ MaxRefreshes \in Nat /\ MaxErrors \in Nat

Requested == {"positions", "orders", "executions"}
Streams   == Requested \cup {"closed"}
Own       == Orders \ Foreign
NoId      == 0

VARIABLES
  number,     \* the order id of each order
  account,    \* account[k]: what the broker holds for stream k
  requests,   \* requests TWS has not answered, oldest first
  wire,       \* messages on their way to the API thread, oldest first
  api,        \* what the API thread is doing
  values,     \* what the app collected; "closed": own orders to whose id
              \* order_values gives a terminal status
  ended,      \* streams whose end event is set
  transport,  \* app.transport_connected
  connected,  \* executor.connected
  known,      \* executor.broker_state_known
  raw,        \* executor._raw_state_ready
  nextId,     \* app.next_order_id
  snapshot,   \* executor._last_snapshot: positions and open orders
  mapped,     \* client order ids in _client_orders
  issued,     \* _known_client_order_ids and the stored orders
  pc,         \* where the command worker is
  pending,    \* the order submit_order is working on
  orderId,    \* the order id it has read
  sockets, refreshes, errors,  \* counted for the bounds
  settled,    \* no readiness withdrawn since the last refresh began (history)
  fresh,      \* settled when orderId was read (history)
  unlisted,   \* orders of other clients that came after the last list of
              \* open orders (history)
  gaveUp,     \* a refresh timed out on this socket (history)
  held        \* positions held when the last refresh began (history)

brokerVars  == <<account, requests, number>>
appVars     == <<values, ended, transport, nextId>>
workerVars  == <<pc, pending, orderId>>
execVars    == <<connected, known, raw, snapshot, mapped, issued>>
boundVars   == <<sockets, refreshes, errors>>
historyVars == <<settled, fresh, unlisted, gaveUp, held>>
vars == <<number, account, requests, wire, api, values, ended, transport, connected, known, raw,
          nextId, snapshot, mapped, issued, pc, pending, orderId, sockets, refreshes, errors,
          settled, fresh, unlisted, gaveUp, held>>

Places    == {"idle", "handshake", "waiting", "priced", "publish",
              "resolving", "placing", "sending", "advancing", "counting"}
Submitting == {"resolving", "placing", "sending"}

\* The callback of a connectivity error writes the error, clears the fields of
\* the readiness in this order, and writes the runtime.
Cleared   == {"connected", "known", "raw", "snapshot", "nextId"}
ApiPlaces == {"none", "listening", "storing", "reporting"} \cup Cleared

AfterClearing ==
  [connected |-> "known", known |-> "raw", raw |-> "snapshot", snapshot |-> "nextId",
   nextId |-> "reporting"]
NoValues  == [k \in Streams |-> {}]
NoSnapshot == [positions |-> {}, orders |-> {}]

Contents(k, S) == [stream |-> k, items |-> S, end |-> FALSE]
End(k)         == [stream |-> k, items |-> {}, end |-> TRUE]
Messages       == [stream : Streams, items : SUBSET Orders, end : BOOLEAN]

TypeOK ==
  /\ number \in Numberings
  /\ account \in [Requested -> SUBSET Orders]
  /\ requests \in Seq(Requested) /\ wire \in Seq(Messages)
  /\ api \in ApiPlaces
  /\ values \in [Streams -> SUBSET Orders] /\ ended \subseteq Requested
  /\ transport \in BOOLEAN /\ connected \in BOOLEAN /\ known \in BOOLEAN /\ raw \in BOOLEAN
  /\ nextId \in Nat /\ orderId \in Nat
  /\ snapshot \in [positions : SUBSET Orders, orders : SUBSET Orders]
  /\ mapped \subseteq Own /\ issued \subseteq Own
  /\ pc \in Places
  /\ pending \in Own \cup {NoOrder}
  /\ pending = NoOrder <=> pc \notin Submitting
  /\ sockets \in Nat /\ refreshes \in Nat /\ errors \in Nat
  /\ settled \in BOOLEAN /\ fresh \in BOOLEAN /\ gaveUp \in BOOLEAN
  /\ unlisted \subseteq Foreign /\ held \subseteq Orders

Init ==
  /\ number \in Numberings
  /\ \E working \in SUBSET Foreign :
       account = [k \in Requested |-> IF k = "orders" THEN working ELSE {}]
  /\ requests = <<>> /\ wire = <<>> /\ api = "none"
  /\ values = NoValues /\ ended = {} /\ transport = FALSE /\ nextId = NoId
  /\ connected = FALSE /\ known = FALSE /\ raw = FALSE
  /\ snapshot = NoSnapshot /\ mapped = {} /\ issued = {}
  /\ pc = "idle" /\ pending = NoOrder /\ orderId = NoId
  /\ sockets = 0 /\ refreshes = 0 /\ errors = 0
  /\ settled = FALSE /\ fresh = FALSE /\ unlisted = {} /\ gaveUp = FALSE /\ held = {}

-----------------------------------------------------------------------------
(* Connecting                                                              *)

\* What disconnect() forgets.
DropReadiness == known' = FALSE /\ raw' = FALSE /\ snapshot' = NoSnapshot

\* connect() on a new app, after disconnecting the old socket and waiting for
\* its thread, up to nextValidId and managedAccounts.
Connect ==
  /\ pc = "idle"
  /\ ~ (connected /\ transport)
  /\ api \in {"none", "listening"}
  /\ sockets < MaxSockets
  /\ DropReadiness
  /\ connected' = FALSE
  /\ requests' = <<>> /\ wire' = <<>> /\ api' = "listening"
  /\ values' = NoValues /\ ended' = {}
  /\ transport' = TRUE /\ nextId' = 1
  /\ sockets' = sockets + 1
  /\ settled' = FALSE /\ gaveUp' = FALSE
  /\ pc' = "handshake"
  /\ UNCHANGED <<number, account, mapped, issued, pending, orderId, refreshes, errors, fresh,
                 unlisted, held>>

\* connected = True, after the transport check and not atomic with it.
HandshakeDone ==
  /\ pc = "handshake"
  /\ connected' = TRUE
  /\ pc' = "idle"
  /\ UNCHANGED <<brokerVars, wire, api, appVars, known, raw, snapshot, mapped, issued, pending,
                 orderId, boundVars, historyVars>>

\* A readiness timeout, an account that is not one paper account, or no
\* transport: disconnect() and an exception.
HandshakeFails ==
  /\ pc = "handshake"
  /\ api \in {"none", "listening"}
  /\ DropReadiness
  /\ connected' = FALSE /\ transport' = FALSE
  /\ requests' = <<>> /\ wire' = <<>> /\ api' = "none"
  /\ pc' = "idle"
  /\ UNCHANGED <<number, account, values, ended, nextId, mapped, issued, pending, orderId,
                 boundVars, historyVars>>

-----------------------------------------------------------------------------
(* The reconciliation snapshot: position_symbols, quotes, reconcile        *)

\* Mutated form of RequestOrder: executions are asked for first.
ExecutionsFirst == <<"executions", "positions", "orders">>

RequestOrder == <<"positions", "orders", "executions">>

\* _refresh_broker_state up to the waits.
BeginRefresh ==
  /\ pc = "idle"
  /\ connected /\ transport
  /\ refreshes < MaxRefreshes
  /\ known' = FALSE /\ raw' = FALSE
  /\ ended' = {} /\ values' = NoValues
  /\ requests' = requests \o RequestOrder
  /\ refreshes' = refreshes + 1
  /\ settled' = TRUE /\ held' = account["positions"]
  /\ pc' = "waiting"
  /\ UNCHANGED <<number, account, wire, api, transport, nextId, connected, snapshot, mapped, issued,
                 pending, orderId, sockets, errors, fresh, unlisted, gaveUp>>

\* Mutated form of AllEnded: one of the end events is enough.
AnyEnded == ended # {}

AllEnded == ended = Requested

\* TimeoutError while waiting for an end event; cancelPositions withdraws
\* the position request.
RefreshTimesOut ==
  /\ pc = "waiting"
  /\ ~ AllEnded
  /\ requests' = SelectSeq(requests, LAMBDA k : k # "positions")
  /\ gaveUp' = TRUE
  /\ pc' = "idle"
  /\ UNCHANGED <<number, account, wire, api, appVars, execVars, pending, orderId, boundVars,
                 settled, fresh, unlisted, held>>

\* Mutated form of UnknownOpenOrders: the account-wide list is not looked at.
NoUnknownOrders(working) == {}

\* Working orders that neither this process nor the database issued.
UnknownOpenOrders(working) == working \ issued

\* order_values is keyed by the order id: a terminal status written for an order
\* of this program closes whatever order is there under its id.
Working(collected, closed) ==
  {o \in collected : \A c \in closed : number[c] # number[o]}

\* All events are set: _rebuild_order_mappings marks executed orders filled,
\* _reject_unknown_open_orders raises for an order nobody issued.  Orders of
\* another client carry no client order id.
FinishRefresh ==
  /\ pc = "waiting"
  /\ AllEnded
  /\ LET closed == values["closed"] \cup (values["executions"] \ Foreign) IN
       /\ values' = [values EXCEPT !["closed"] = closed]
       /\ mapped' = (values["orders"] \cup values["executions"]) \ Foreign
       /\ IF UnknownOpenOrders(Working(values["orders"], closed)) = {}
            THEN raw' = TRUE /\ pc' = "priced"
            ELSE pc' = "idle" /\ UNCHANGED raw
  /\ UNCHANGED <<brokerVars, wire, api, ended, transport, nextId, connected, known, snapshot,
                 issued, pending, orderId, boundVars, historyVars>>

\* No cash value, a position outside the mandate, or no quote for it: an
\* exception that leaves _raw_state_ready as it is.
SnapshotRejected ==
  /\ pc = "priced" \/ (pc = "waiting" /\ AllEnded)
  /\ pc' = "idle"
  /\ UNCHANGED <<brokerVars, wire, api, appVars, execVars, pending, orderId, boundVars,
                 historyVars>>

\* reconcile() builds the snapshot from the dictionaries as they are now.  If
\* a callback has withdrawn _raw_state_ready meanwhile it refreshes, which
\* raises because the callback has also cleared connected.
BuildSnapshot ==
  /\ pc = "priced"
  /\ IF raw
       THEN /\ snapshot' = [positions |-> values["positions"],
                            orders    |-> Working(values["orders"], values["closed"])]
            /\ pc' = "publish"
       ELSE pc' = "idle" /\ UNCHANGED snapshot
  /\ UNCHANGED <<brokerVars, wire, api, appVars, connected, known, raw, mapped, issued, pending,
                 orderId, boundVars, historyVars>>

\* broker_state_known = True, whatever the callback did since.
PublishSnapshot ==
  /\ pc = "publish"
  /\ known' = TRUE /\ raw' = FALSE
  /\ pc' = "idle"
  /\ UNCHANGED <<brokerVars, wire, api, appVars, connected, snapshot, mapped, issued, pending,
                 orderId, boundVars, historyVars>>

-----------------------------------------------------------------------------
(* Submitting an order                                                     *)

ReadyToSubmit == connected /\ transport /\ nextId # NoId /\ known

\* submit_order: the duplicate and readiness checks passed.
BeginSubmit(o) ==
  /\ pc = "idle"
  /\ o \in Own \ mapped
  /\ ReadyToSubmit
  /\ pending' = o
  /\ pc' = "resolving"
  /\ UNCHANGED <<brokerVars, wire, api, appVars, execVars, orderId, boundVars, historyVars>>

\* resolve_instrument returns: from its cache, or after contractDetailsEnd,
\* when nothing is checked again.
InstrumentResolved ==
  /\ pc = "resolving"
  /\ pc' = "placing"
  /\ UNCHANGED <<brokerVars, wire, api, appVars, execVars, pending, orderId, boundVars,
                 historyVars>>

\* It raises: a timeout or no unique contract.
InstrumentUnresolved ==
  /\ pc = "resolving"
  /\ pc' = "idle" /\ pending' = NoOrder
  /\ UNCHANGED <<brokerVars, wire, api, appVars, execVars, orderId, boundVars, historyVars>>

\* The order id is read: the last the worker looks at of what the callback
\* takes away.
ReadOrderId ==
  /\ pc = "placing"
  /\ orderId' = nextId /\ fresh' = settled
  /\ pc' = "sending"
  /\ UNCHANGED <<brokerVars, wire, api, appVars, execVars, pending, boundVars, settled, unlisted,
                 gaveUp, held>>

\* The order is registered under the id, over whatever order_values has there,
\* and sent.  Without an id sending raises; on a socket the message may still
\* be lost, or the order turned down.
SendOrder ==
  /\ pc = "sending"
  /\ mapped' = mapped \cup {pending} /\ issued' = issued \cup {pending}
  /\ values' = [values EXCEPT !["orders"] = Working(@, {pending}) \cup {pending},
                              !["closed"] = @ \ {pending}]
  /\ \/ /\ orderId # NoId /\ api # "none"
        /\ account' = [account EXCEPT !["orders"] = @ \cup {pending}]
     \/ UNCHANGED account
  /\ pc' = IF orderId = NoId THEN "idle" ELSE "advancing"
  /\ pending' = NoOrder /\ orderId' = NoId /\ fresh' = FALSE
  /\ UNCHANGED <<number, requests, wire, api, ended, transport, nextId, connected, known, raw,
                 snapshot, boundVars, settled, unlisted, gaveUp, held>>

\* next_order_id += 1 reads the id again, raising when it is gone ...
ReadNextId ==
  /\ pc = "advancing"
  /\ orderId' = nextId
  /\ pc' = IF nextId = NoId THEN "idle" ELSE "counting"
  /\ UNCHANGED <<brokerVars, wire, api, appVars, execVars, pending, boundVars, historyVars>>

\* ... and writes the next one, also over what the callback cleared.
WriteNextId ==
  /\ pc = "counting"
  /\ nextId' = orderId + 1
  /\ pc' = "idle" /\ orderId' = NoId
  /\ UNCHANGED <<brokerVars, wire, api, values, ended, transport, execVars, pending, boundVars,
                 historyVars>>

-----------------------------------------------------------------------------
(* TWS and the API thread                                                  *)

\* TWS answers the oldest request: its contents, then its end.
TwsAnswers ==
  /\ requests # <<>>
  /\ LET k == Head(requests) IN
       /\ wire' = wire \o <<Contents(k, account[k]), End(k)>>
       /\ unlisted' = IF k = "orders" THEN {} ELSE unlisted
  /\ requests' = Tail(requests)
  /\ UNCHANGED <<number, account, api, appVars, execVars, workerVars, boundVars, settled, fresh,
                 gaveUp, held>>

\* Between the answer to reqPositions and cancelPositions TWS sends changes.
Subscribed == pc = "waiting" /\ \A n \in DOMAIN requests : requests[n] # "positions"

\* A working order fills or is cancelled at the broker.  TWS sends the new
\* status to the client that placed it, and the position to a subscriber.
OrderLeaves(o, filled) ==
  /\ o \in account["orders"]
  /\ account' = [k \in Requested |->
                   IF k = "orders" THEN account[k] \ {o}
                   ELSE IF filled THEN account[k] \cup {o} ELSE account[k]]
  /\ wire' = IF api = "none" THEN wire
             ELSE wire \o (IF o \in Own THEN <<Contents("closed", {o})>> ELSE <<>>)
                       \o (IF filled /\ Subscribed THEN <<Contents("positions", {o})>> ELSE <<>>)
  /\ UNCHANGED <<number, requests, api, appVars, execVars, workerVars, boundVars, historyVars>>

\* Another client places an order.  Only the answer to reqAllOpenOrders tells.
ForeignAppears(o) ==
  /\ o \in Foreign \ (account["orders"] \cup account["executions"])
  /\ account' = [account EXCEPT !["orders"] = @ \cup {o}]
  /\ unlisted' = unlisted \cup {o}
  /\ UNCHANGED <<number, requests, wire, api, appVars, execVars, workerVars, boundVars, settled,
                 fresh, gaveUp, held>>

\* openOrder writes the entry of each order's id: the last of those that share
\* one stays.
Listed(collected, items, last) ==
  {o \in collected : \A p \in items : number[p] # number[o]} \cup last

LastPerId(items, last) ==
  /\ last \subseteq items
  /\ \A o \in items : \E p \in last : number[p] = number[o]
  /\ \A o, p \in last : number[o] = number[p] => o = p

\* position, openOrder, orderStatus and execDetails add to a dictionary, the
\* End callbacks set an event.  Nothing tells two requests apart.
DeliverMessage ==
  /\ wire # <<>> /\ api = "listening"
  /\ LET m == Head(wire) IN
       /\ IF m.stream = "orders"
            THEN \E last \in SUBSET m.items :
                   /\ LastPerId(m.items, last)
                   /\ values' = [values EXCEPT !["orders"] = Listed(@, m.items, last),
                                               !["closed"] = Working(@, m.items)]
            ELSE values' = [values EXCEPT ![m.stream] = @ \cup m.items]
       /\ ended' = IF m.end THEN ended \cup {m.stream} ELSE ended
  /\ wire' = Tail(wire)
  /\ UNCHANGED <<brokerVars, api, transport, nextId, execVars, workerVars, boundVars, historyVars>>

-----------------------------------------------------------------------------
(* The callback of a connectivity or fatal error                           *)

\* Errors 1100, 1300 and 2110 take the transport down, 1101 and 1102 bring it
\* back; after a fatal one (326, 502, 504, or one of no request that the
\* adapter does not know) it is as it was.
ConnectivityError ==
  /\ api = "listening"
  /\ errors < MaxErrors
  /\ transport' \in BOOLEAN
  /\ errors' = errors + 1
  /\ api' = "storing"
  /\ UNCHANGED <<brokerVars, wire, values, ended, nextId, execVars, workerVars, sockets, refreshes,
                 historyVars>>

\* save_error returns.
ErrorIsStored ==
  /\ api = "storing"
  /\ api' = "connected"
  /\ UNCHANGED <<brokerVars, wire, appVars, execVars, workerVars, boundVars, historyVars>>

\* Mutated form of WithdrawReadiness: connected and the order id survive.
WithdrawKnown ==
  /\ api \in Cleared
  /\ known' = (known /\ api # "known") /\ raw' = (raw /\ api # "raw")
  /\ snapshot' = IF api = "snapshot" THEN NoSnapshot ELSE snapshot
  /\ settled' = (settled /\ api # "nextId")
  /\ api' = AfterClearing[api]
  /\ UNCHANGED <<brokerVars, wire, values, ended, transport, connected, nextId, mapped, issued,
                 workerVars, boundVars, fresh, unlisted, gaveUp, held>>

\* The connectivity branch of _handle_app_error clears one field after another.
WithdrawReadiness ==
  /\ api \in Cleared
  /\ connected' = (connected /\ api # "connected")
  /\ known' = (known /\ api # "known") /\ raw' = (raw /\ api # "raw")
  /\ snapshot' = IF api = "snapshot" THEN NoSnapshot ELSE snapshot
  /\ nextId' = IF api = "nextId" THEN NoId ELSE nextId
  /\ settled' = (settled /\ api # "nextId")
  /\ api' = AfterClearing[api]
  /\ UNCHANGED <<brokerVars, wire, values, ended, transport, mapped, issued, workerVars, boundVars,
                 fresh, unlisted, gaveUp, held>>

\* The runtime is written and the thread reads on.
CallbackEnds ==
  /\ api = "reporting"
  /\ api' = "listening"
  /\ UNCHANGED <<brokerVars, wire, appVars, execVars, workerVars, boundVars, historyVars>>

\* A write raises: the exception ends app.run, which closes the socket.
CallbackRaises ==
  /\ api \in {"storing", "reporting"}
  /\ api' = "none" /\ transport' = FALSE
  /\ UNCHANGED <<brokerVars, wire, values, ended, nextId, execVars, workerVars, boundVars,
                 historyVars>>

-----------------------------------------------------------------------------
Worker ==
  \/ Connect \/ HandshakeDone \/ HandshakeFails
  \/ BeginRefresh \/ RefreshTimesOut \/ FinishRefresh \/ SnapshotRejected
  \/ BuildSnapshot \/ PublishSnapshot
  \/ \E o \in Orders : BeginSubmit(o)
  \/ InstrumentResolved \/ InstrumentUnresolved
  \/ ReadOrderId \/ SendOrder \/ ReadNextId \/ WriteNextId

ApiThread ==
  \/ DeliverMessage
  \/ ConnectivityError \/ ErrorIsStored \/ WithdrawReadiness \/ CallbackEnds \/ CallbackRaises

Tws ==
  \/ TwsAnswers
  \/ \E o \in Orders, filled \in BOOLEAN : OrderLeaves(o, filled)
  \/ \E o \in Orders : ForeignAppears(o)

Outside == ApiThread \/ Tws

Next == Worker \/ Outside

Spec == Init /\ [][Next]_vars

-----------------------------------------------------------------------------
(* Properties                                                              *)

\* README.md: disconnects and 1100, 1101 and 1102 discard readiness, and a
\* full reconciliation must follow before an order is allowed.  The code
\* discards it when the callback has written the error and cleared the last
\* field: until then, and with an id read before, an order still goes out.
\* After that none reaches the broker until a refresh has begun anew, wherever
\* in submit_order the worker was.
PlacedOnlyFresh ==
  [][(account'["orders"] \ account["orders"]) \cap Own # {} => fresh]_vars

\* Orders whose id no order of another client has.
Distinct == {o \in Orders : \A p \in Orders : number[p] = number[o] => p = o}

\* An order this program has at the broker is never forgotten by a completed
\* reconciliation: it is found among the open orders or, if it fills while
\* the requests are answered one after the other, among the executions.
\* _client_orders is what stops submit_order from placing it again.  An order
\* whose id another client has too can be overwritten in the list, and lost.
NoOrderLost ==
  ReadyToSubmit /\ ~ gaveUp =>
    (account["orders"] \cup account["executions"]) \cap Own \cap Distinct \subseteq mapped

\* "The adapter fails closed for every order it can observe": with an order of
\* another client at work nothing can be submitted, once that order was there
\* to be listed.  Two cases are left open and kept out: an order that came
\* after TWS answered the last reqAllOpenOrders, and one whose order id is also
\* that of an order of this program.
ForeignOrderBlocks ==
  ReadyToSubmit /\ ~ gaveUp => account["orders"] \cap Foreign \cap Distinct \subseteq unlisted

\* A position held when the reconciliation began is in the snapshot the gate
\* opens with.
HoldingsSeen ==
  ReadyToSubmit /\ ~ gaveUp => held \subseteq snapshot.positions

\* Strengthening that makes PlacedOnlyFresh inductive: what the worker holds
\* true of the socket is settled unless the callback has taken connected or the
\* order id away.  A number counted over a cleared id finds connected cleared;
\* a handshake that sets connected behind the callback finds nothing known, and
\* no refresh ends before the callback does.
Fresh ==
  /\ connected /\ nextId # NoId /\ (known \/ pc \in {"waiting", "priced", "publish"}) => settled
  /\ pc = "handshake" => ~ known
  /\ pc \in {"resolving", "placing"} /\ nextId # NoId => settled
  /\ pc = "sending" /\ orderId # NoId => fresh
  /\ pc \in Submitting \cup {"advancing", "counting"} /\ connected => settled
  /\ connected /\ api \in Cleared \ {"connected"} =>
       ~ known /\ (pc = "idle" \/ (pc = "waiting" /\ ~ AllEnded))

=============================================================================
