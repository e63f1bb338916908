--------------------------- MODULE OrderLifecycle ---------------------------
(***************************************************************************)
(* A decision cycle of src/src/runner.py and the orders it sends: run from *)
(* the first reconciliation to its last, _liquidate_all, _execute_order    *)
(* and the check before it submits, with the order half of                 *)
(* src/src/execution/ibkr.py, the rows of order_records, and the deferred  *)
(* intent by which the service runs a decision again.                      *)
(*                                                                         *)
(* TWS acts between any two steps: it fills an order whole or in parts,    *)
(* cancels it, refuses it, or warns about it.  The process may die at any  *)
(* step; the rows and the deferred intent stay.  A refresh has two steps,  *)
(* as TWS answers for the positions before it answers for the open orders  *)
(* and executions; a change of a position that it reports in between comes *)
(* to the same as a later answer.  Cash, prices and weights are left out:  *)
(* the size of an order is any that the shares held allow.                 *)
(* entry_engine_enabled is left open: a BUY may become an order at once,   *)
(* as it does without the entry engine, and a SELL may find no quote, as   *)
(* it may with it.  The pending entries of the engine are not modelled.    *)
(***************************************************************************)
EXTENDS Integers, Sequences, FiniteSets, OrderViews

CONSTANTS
  Symbols, NoSymbol,
  MaxShares,         \* bound on the shares of a BUY
  MaxDecisions,      \* bound on fresh decisions
  MaxRuns,           \* bound on cycles, those that take up a deferred decision included
  MaxOrders,         \* bound on orders placed
  MaxFailures        \* bound on deaths of the process and failures of the connection

ASSUME LifecycleAssumption ==
  /\ NoSymbol \notin Symbols
  /\ MaxShares \in Nat \ {0} /\ MaxDecisions \in Nat /\ MaxRuns \in Nat /\ MaxOrders \in Nat /\ MaxFailures \in Nat

Sides    == {"BUY", "SELL"}
Legs     == {"risk-halt", "cash", "switch-sell", "target"}
\* The client order id is a digest of these four, so that a leg of a decision
\* has the same id whenever it is tried.
OrderIds == [decision : 1..MaxDecisions, leg : Legs, symbol : Symbols, action : Sides]
Reports  == {"PENDING", "PARTIALLY_FILLED", "FILLED", "CANCELLED", "REJECTED", "ERROR", "TIMEOUT"}

Intents ==
  [action : {"CASH"}, symbol : {NoSymbol}, current : {NoSymbol}]
    \cup [action : {"BUY", "HOLD"}, symbol : Symbols, current : {NoSymbol}]
    \cup {i \in [action : {"SWITCH"}, symbol : Symbols, current : Symbols] : i.symbol # i.current}
NoIntent == [action |-> "none", symbol |-> NoSymbol, current |-> NoSymbol]

\* What the trading state machine allows, for the states of a cycle.
Transitions ==
  [RESEARCHING        |-> {"DECISION_READY", "ERROR"},
   DECISION_READY     |-> {"WAITING_FOR_MARKET", "WAITING_FOR_BROKER", "RISK_APPROVED",
                           "ORDER_PENDING", "RISK_HALTED", "REJECTED", "ERROR"},
   WAITING_FOR_MARKET |-> {"ERROR"},
   WAITING_FOR_BROKER |-> {"ERROR"},
   RISK_APPROVED      |-> {"ORDER_PENDING", "FILLED", "ERROR"},
   ORDER_PENDING      |-> {"PARTIALLY_FILLED", "FILLED", "REJECTED", "RISK_HALTED", "ERROR"},
   PARTIALLY_FILLED   |-> {"FILLED", "REJECTED", "ERROR"},
   FILLED             |-> {"RISK_APPROVED", "RISK_HALTED", "ERROR"},
   REJECTED           |-> {"ERROR"},
   RISK_HALTED        |-> {"ERROR"},
   ERROR              |-> {"RISK_HALTED"}]

VARIABLES
  (* the broker *)
  held,      \* shares of each symbol in the account
  orders,    \* every order placed; its index is the broker's order id
  (* the refresh under way *)
  between,   \* the positions are answered, the open orders and executions are not
  positions, \* position_values, while between
  late,      \* history: a BUY was filled between the answers of the last refresh
  (* what a restart leaves *)
  stored,    \* the rows of order_records, by client order id: active or settled
  deferred,  \* pending_execution_intent
  (* the cycle under way *)
  job,
  decisions, reruns, failures  \* counted, for the bounds and to tell decisions apart

refresh == <<between, positions, late>>
vars == <<held, orders, refresh, stored, deferred, job, decisions, reruns, failures>>

NoDeferral  == [decision |-> 0, intent |-> NoIntent]
NoPositions == [s \in Symbols |-> 0]
NoSnapshot  == [held |-> NoPositions, open |-> {}]
NoOrder    == [id |-> [decision |-> 0], qty |-> 0, expected |-> 0]

Idle ==
  [pc |-> "idle", decision |-> 0, intent |-> NoIntent, resumed |-> FALSE, leg |-> "none",
   machine |-> "IDLE", snapshot |-> NoSnapshot, todo |-> {}, at |-> 0,
   order |-> NoOrder, report |-> "none"]

Init ==
  /\ \E s \in Symbols, n \in {0, MaxShares} : held = [t \in Symbols |-> IF t = s THEN n ELSE 0]
  /\ orders = <<>>
  /\ between = FALSE /\ positions = NoPositions /\ late = FALSE
  /\ stored = [id \in {} |-> "none"]
  /\ deferred = NoDeferral
  /\ job = Idle
  /\ decisions = 0 /\ reruns = 0 /\ failures = 0

-----------------------------------------------------------------------------
(* What the parts of a cycle share.                                         *)

Fails == failures < MaxFailures /\ failures' = failures + 1

Refreshed ==
  [i \in DOMAIN orders |->
    [orders[i] EXCEPT !.seen = Rebuilt(orders[i]), !.concealed = @ \/ Conceals(orders[i])]]

\* What _validate_position_mandate accepts: no short position, one symbol.
Mandate == /\ \A s \in Symbols : positions[s] >= 0
           /\ Cardinality({s \in Symbols : positions[s] > 0}) <= 1

\* The places of a cycle that begin with a refresh.
Refreshing == \/ job.pc \in {"idle", "liquidating", "cancelled", "checking"}
              \/ job.pc = "executed" /\ job.leg # "target"

PositionsAnswered ==
  /\ Refreshing /\ ~ between
  /\ job.pc = "idle" => decisions + reruns < MaxRuns
  /\ between' = TRUE /\ positions' = held /\ late' = FALSE
  /\ UNCHANGED <<held, orders, stored, deferred, job, decisions, reruns, failures>>

\* The positions as they were answered, the orders as they are now.
SnapshotNow ==
  [held |-> positions, open |-> {i \in DOMAIN orders : Rebuilt(orders[i]) = "Submitted"}]

RefreshEnds == between' = FALSE /\ positions' = NoPositions /\ UNCHANGED late

\* reconcile succeeds; its snapshot goes to the job.
Reconciles == between /\ Mandate /\ orders' = Refreshed /\ RefreshEnds

\* The orders _client_orders knows by this id.
Mapped(id) == {i \in DOMAIN orders : orders[i].id = id /\ orders[i].seen # "absent"}

\* Of a row only this is ever asked: is it there, is its status active.
ActiveRow(id) == id \in DOMAIN stored /\ stored[id] = "active"
Saved(id, status) ==
  [r \in DOMAIN stored \cup {id} |->
    IF r # id THEN stored[r] ELSE IF status \in Active THEN "active" ELSE "settled"]

\* The state machine: an illegal move raises, and run records ERROR.
Moved(j, to) ==
  IF to = j.machine \/ to \in Transitions[j.machine]
  THEN [Idle EXCEPT !.pc = "ending", !.machine = to, !.decision = j.decision,
                    !.intent = j.intent, !.resumed = j.resumed, !.leg = j.leg]
  ELSE [Idle EXCEPT !.pc = "failing", !.machine = "ERROR"]

\* What _record_execution_state makes of a report; PENDING leaves the state.
ExecutionState(machine, report) ==
  IF report \in {"PARTIALLY_FILLED", "REJECTED"} THEN report
  ELSE IF report = "PENDING" THEN machine ELSE "ERROR"

-----------------------------------------------------------------------------
(* The decision: from the start of run to its branch.                       *)

\* A fresh decision, or the deferred intent of an earlier one.
Started(decision) ==
  [Idle EXCEPT !.pc = "deciding", !.decision = decision, !.machine = "RESEARCHING",
               !.snapshot = SnapshotNow]

StartRun ==
  /\ job.pc = "idle" /\ decisions < MaxDecisions /\ decisions + reruns < MaxRuns
  /\ Reconciles
  /\ job' = Started(decisions + 1)
  /\ decisions' = decisions + 1
  /\ UNCHANGED <<held, stored, deferred, reruns, failures>>

RunAgain ==
  /\ job.pc = "idle" /\ decisions + reruns < MaxRuns /\ deferred # NoDeferral
  /\ Reconciles
  /\ job' = [Started(deferred.decision) EXCEPT !.intent = deferred.intent, !.resumed = TRUE]
  /\ reruns' = reruns + 1
  /\ UNCHANGED <<held, stored, deferred, decisions, failures>>

Choices     == IF job.resumed THEN {job.intent} ELSE Intents
HeldSymbols == {s \in Symbols : job.snapshot.held[s] > 0}

\* Orders of the first snapshot that block every decision but CASH.  The
\* adapter's orders carry no decision_id, so the decision's own block too.
NoActiveOrders == {}   \* no open order blocks
ActiveOrders == job.snapshot.open

\* RiskEngine compares the position with what the intent supposes.
Matches(i) ==
  /\ i.action = "HOLD" => i.symbol \in HeldSymbols
  /\ i.action = "SWITCH" => i.current \in HeldSymbols

Decides(i, next) ==
  /\ job.pc = "deciding" /\ i \in Choices
  /\ job' = next
  /\ UNCHANGED <<held, orders, refresh, stored, deferred, decisions, reruns, failures>>

Decided(i) == [job EXCEPT !.intent = i, !.machine = "DECISION_READY"]

\* The quote of the symbol is not to be had; CASH has no symbol.
WaitForBroker(i) ==
  i.action # "CASH" /\ Decides(i, Moved(Decided(i), "WAITING_FOR_BROKER"))

BlockedByOrder(i) ==
  /\ i.action # "CASH" /\ ActiveOrders # {}
  /\ Decides(i, Moved(Decided(i), "ERROR"))

NotApproved(i) ==
  /\ i.action # "CASH" /\ ActiveOrders = {}
  /\ \E to \in {"WAITING_FOR_MARKET", "REJECTED"} : Decides(i, Moved(Decided(i), to))

\* A hard drawdown halts whatever was decided, unless it was not for this
\* position at all.
HaltRisk(i) ==
  Matches(i) /\ Decides(i, [Decided(i) EXCEPT !.pc = "liquidating", !.leg = "risk-halt"])

ApproveCash(i) ==
  /\ i.action = "CASH"
  /\ Decides(i, [Decided(i) EXCEPT !.pc = "liquidating", !.leg = "cash",
                                   !.machine = "RISK_APPROVED"])

ApproveSwitch(i) ==
  /\ i.action = "SWITCH" /\ Matches(i) /\ ActiveOrders = {}
  /\ Decides(i, [Decided(i) EXCEPT !.pc = "liquidating", !.leg = "switch-sell",
                                   !.machine = "RISK_APPROVED"])

\* BUY or HOLD.  A BUY of another symbol than the held one raises.
ApproveTarget(i) ==
  /\ i.action \in {"BUY", "HOLD"} /\ Matches(i) /\ ActiveOrders = {}
  /\ Decides(i, [Decided(i) EXCEPT !.machine = "RISK_APPROVED", !.leg = "target",
                                   !.pc = IF HeldSymbols \subseteq {i.symbol}
                                          THEN "sizing" ELSE "failing"])

Decide ==
  \E i \in Intents :
    \/ WaitForBroker(i) \/ BlockedByOrder(i) \/ NotApproved(i) \/ HaltRisk(i)
    \/ ApproveCash(i) \/ ApproveSwitch(i) \/ ApproveTarget(i)

-----------------------------------------------------------------------------
(* _liquidate_all: cancel the BUYs, one by one, then sell.                  *)

worldAndRows == <<held, stored, deferred, decisions, reruns, failures>>

BeginLiquidation ==
  /\ job.pc = "liquidating" /\ Reconciles
  /\ job' = [job EXCEPT !.pc = "clearing", !.snapshot = SnapshotNow,
                        !.todo = {i \in SnapshotNow.open : orders[i].id.action = "BUY"}]
  /\ UNCHANGED worldAndRows

\* save_execution updates the row, if there is one.
Updated(id, status) == IF id \in DOMAIN stored THEN Saved(id, status) ELSE stored

CancelReports(i, report) ==
  /\ job' = [job EXCEPT !.pc = "cancelled", !.at = i, !.report = report]
  /\ stored' = Updated(orders[i].id, report)
  /\ UNCHANGED <<held, orders, refresh, deferred, decisions, reruns, failures>>

RequestCancel(i) ==
  /\ job.pc = "clearing" /\ i \in job.todo /\ orders[i].seen # "absent"
  /\ job' = [job EXCEPT !.pc = "cancelling", !.at = i]
  /\ UNCHANGED <<orders, refresh, worldAndRows>>

\* The order left the book since it was listed.
CancelUnknown(i) ==
  /\ job.pc = "clearing" /\ i \in job.todo /\ orders[i].seen = "absent"
  /\ CancelReports(i, "REJECTED")

CancelReported ==
  /\ job.pc = "cancelling"
  /\ CancelReports(job.at, AwaitReport(orders[job.at]))

\* A cancellation that timed out is taken for done.
CancelConfirmedAnyway(report) == report \in {"CANCELLED", "FILLED", "TIMEOUT"}

CancelConfirmed(report) == report \in {"CANCELLED", "FILLED"}

SettleCancel ==
  /\ job.pc = "cancelled" /\ Reconciles
  /\ job' = [job EXCEPT !.snapshot = SnapshotNow, !.todo = @ \ {job.at}, !.at = 0,
                        !.pc = IF CancelConfirmed(job.report) THEN "clearing" ELSE "liquidated"]
  /\ UNCHANGED worldAndRows

\* The order is sized, and what it expects to find noted, from the snapshot.
BuildSell ==
  /\ job.pc = "clearing" /\ job.todo = {}
  /\ \E s \in HeldSymbols :
       job' = [job EXCEPT !.pc = "ordering",
                 !.order = [id |-> [decision |-> job.decision, leg |-> job.leg,
                                    symbol |-> s, action |-> "SELL"],
                            qty |-> job.snapshot.held[s], expected |-> job.snapshot.held[s]]]
  /\ UNCHANGED <<orders, refresh, worldAndRows>>

\* With the entry engine a SELL is priced by a quote; when there is none while
\* the machine still is where the decision left it, the cycle waits.
NoQuoteToSell ==
  /\ job.pc = "clearing" /\ job.todo = {} /\ HeldSymbols # {}
  /\ job.machine = "DECISION_READY"
  /\ job' = Moved(job, "WAITING_FOR_BROKER")
  /\ UNCHANGED <<orders, refresh, worldAndRows>>

NothingToSell ==
  /\ job.pc = "clearing" /\ job.todo = {} /\ HeldSymbols = {}
  /\ job' = [job EXCEPT !.pc = "liquidated", !.report = "none"]
  /\ UNCHANGED <<orders, refresh, worldAndRows>>

Succeeded(report) == report = "FILLED"

SettleSell ==
  /\ job.pc = "executed" /\ job.leg # "target" /\ Reconciles
  /\ job' = [job EXCEPT !.pc = "liquidated", !.snapshot = SnapshotNow,
                        !.report = IF Succeeded(@) THEN "none" ELSE @]
  /\ UNCHANGED worldAndRows

Liquidated(next) ==
  /\ job.pc = "liquidated"
  /\ job' = next
  /\ UNCHANGED <<orders, refresh, worldAndRows>>

LiquidationFailed ==
  /\ job.report # "none"
  /\ Liquidated(Moved(job, ExecutionState(job.machine, job.report)))

PositionsRemain ==
  /\ job.report = "none" /\ HeldSymbols # {}
  /\ Liquidated(Moved(job, "ERROR"))

LiquidationConfirmed ==
  /\ job.report = "none" /\ HeldSymbols = {} /\ job.leg \in {"risk-halt", "cash"}
  /\ Liquidated(Moved(job, IF job.leg = "cash" THEN "FILLED" ELSE "RISK_HALTED"))

\* Through FILLED, "Switch sell leg confirmed flat", to the approval of the
\* second leg.
SoldForSwitch ==
  /\ job.report = "none" /\ HeldSymbols = {} /\ job.leg = "switch-sell"
  /\ Liquidated([job EXCEPT !.pc = "sizing", !.leg = "target", !.machine = "RISK_APPROVED"])

Liquidate ==
  \/ BeginLiquidation \/ CancelReported \/ SettleCancel
  \/ \E i \in job.todo : RequestCancel(i) \/ CancelUnknown(i)
  \/ BuildSell \/ NoQuoteToSell \/ NothingToSell \/ SettleSell
  \/ LiquidationFailed \/ PositionsRemain \/ LiquidationConfirmed \/ SoldForSwitch

-----------------------------------------------------------------------------
(* The target leg, and the life of one order in _execute_order.             *)

Expected(s) == job.snapshot.held[s]

BuildTarget ==
  /\ job.pc = "sizing"
  /\ \E action \in Sides, qty \in 1..MaxShares :
       /\ action = "SELL" => qty <= Expected(job.intent.symbol)
       /\ job' = [job EXCEPT !.pc = "ordering",
                    !.order = [id |-> [decision |-> job.decision, leg |-> "target",
                                       symbol |-> job.intent.symbol, action |-> action],
                               qty |-> qty, expected |-> Expected(job.intent.symbol)]]
  /\ UNCHANGED <<orders, refresh, worldAndRows>>

\* The position matches already, or no whole share is affordable.
NoTargetOrder ==
  /\ job.pc = "sizing"
  /\ job' = Moved(job, "FILLED")
  /\ UNCHANGED <<orders, refresh, worldAndRows>>

Pending == [job EXCEPT !.machine = "ORDER_PENDING"]

\* The broker's word comes first.
FoundAtBroker ==
  /\ job.pc = "ordering"
  /\ \E i \in Mapped(job.order.id) :
       job' = [Pending EXCEPT !.pc = "reported", !.report = StatusReport(orders[i])]
  /\ UNCHANGED <<orders, refresh, worldAndRows>>

\* An order that is active in the table and gone from the broker.
BlockDuplicate ==
  /\ job.pc = "ordering"
  /\ Mapped(job.order.id) = {} /\ ActiveRow(job.order.id)
  /\ job' = [Pending EXCEPT !.pc = "reported", !.report = "ERROR"]
  /\ UNCHANGED <<orders, refresh, worldAndRows>>

\* The order is sent without a row.
SaveOrderNowhere ==
  /\ job.pc = "ordering"
  /\ Mapped(job.order.id) = {} /\ ~ ActiveRow(job.order.id)
  /\ job' = [Pending EXCEPT !.pc = "checking"]
  /\ UNCHANGED <<orders, refresh, worldAndRows>>

SaveOrder ==
  /\ job.pc = "ordering"
  /\ Mapped(job.order.id) = {} /\ ~ ActiveRow(job.order.id)
  /\ stored' = Saved(job.order.id, "PENDING")
  /\ job' = [Pending EXCEPT !.pc = "checking"]
  /\ UNCHANGED <<held, orders, refresh, deferred, decisions, reruns, failures>>

\* Fail closed if the holdings changed after the order was sized.
HoldingsAllow(order, now) ==
  /\ now[order.id.symbol] = order.expected
  /\ order.id.action = "SELL" => 0 < now[order.id.symbol] /\ order.qty <= now[order.id.symbol]
  /\ order.id.action = "BUY" => \A s \in Symbols \ {order.id.symbol} : now[s] <= 0

PassCheck ==
  /\ job.pc = "checking" /\ Reconciles
  /\ HoldingsAllow(job.order, positions)
  /\ job' = [job EXCEPT !.pc = "submitting", !.snapshot = SnapshotNow]
  /\ UNCHANGED worldAndRows

\* The holdings changed, or they could not be refreshed.
FailCheck ==
  /\ job.pc = "checking"
  /\ job' = [job EXCEPT !.pc = "reported", !.report = "REJECTED"]
  /\ \/ Reconciles /\ ~ HoldingsAllow(job.order, positions) /\ UNCHANGED failures
     \/ between /\ ~ Mandate /\ RefreshEnds /\ UNCHANGED <<orders, failures>>
     \/ Fails /\ RefreshEnds /\ UNCHANGED orders
  /\ stored' = Saved(job.order.id, "REJECTED")
  /\ UNCHANGED <<held, deferred, decisions, reruns>>

\* Disconnected, not reconciled, or no such instrument.
SubmitRefused ==
  /\ job.pc = "submitting" /\ Mapped(job.order.id) = {}
  /\ Fails
  /\ job' = [job EXCEPT !.pc = "reported", !.report = "ERROR"]
  /\ UNCHANGED <<held, orders, refresh, stored, deferred, decisions, reruns>>

\* An order the mappings know already would be reported, not placed.  That does
\* not happen: whatever has the id was found before the row was saved.
PlaceOrder ==
  /\ job.pc = "submitting" /\ Mapped(job.order.id) = {} /\ Len(orders) < MaxOrders
  /\ orders' = Append(orders, [id |-> job.order.id, qty |-> job.order.qty, filled |-> 0,
                               status |-> "working", seen |-> "Submitted", concealed |-> FALSE])
  /\ job' = [job EXCEPT !.pc = "awaiting"]
  /\ UNCHANGED <<refresh, worldAndRows>>

AwaitOrder ==
  /\ job.pc = "awaiting"
  /\ \E i \in Mapped(job.order.id) :
       job' = [job EXCEPT !.pc = "reported", !.report = AwaitReport(orders[i])]
  /\ UNCHANGED <<orders, refresh, worldAndRows>>

SaveExecution ==
  /\ job.pc = "reported"
  /\ stored' = Saved(job.order.id, job.report)
  /\ job' = [job EXCEPT !.pc = "executed", !.order = NoOrder]
  /\ UNCHANGED <<held, orders, refresh, deferred, decisions, reruns, failures>>

SettleTarget ==
  /\ job.pc = "executed" /\ job.leg = "target"
  /\ job' = Moved(job, IF Succeeded(job.report) THEN "FILLED"
                       ELSE ExecutionState(job.machine, job.report))
  /\ UNCHANGED <<orders, refresh, worldAndRows>>

Execute ==
  \/ BuildTarget \/ NoTargetOrder \/ FoundAtBroker \/ BlockDuplicate \/ SaveOrder
  \/ PassCheck \/ FailCheck \/ SubmitRefused \/ PlaceOrder
  \/ AwaitOrder \/ SaveExecution \/ SettleTarget

-----------------------------------------------------------------------------
(* How a cycle ends.  Nothing reads the view of the orders between cycles,  *)
(* each of which begins with a refresh.                                     *)

Unseen == [i \in DOMAIN orders |-> [orders[i] EXCEPT !.seen = "absent"]]

Retried == {"WAITING_FOR_MARKET", "WAITING_FOR_BROKER", "REJECTED"}

\* The service may keep a decision that waits, and one the risk engine
\* refused for want of market data, but a BUY only if it waits for the broker.
Deferrable ==
  /\ job.machine \in Retried
  /\ job.machine = "REJECTED" => job.leg = "none"
  /\ job.intent.action = "BUY" => job.machine = "WAITING_FOR_BROKER"

EndRun ==
  /\ job.pc = "ending"
  /\ \/ deferred' = IF job.resumed /\ job.machine \notin Retried THEN NoDeferral ELSE deferred
     \/ /\ Deferrable
        /\ deferred' = [decision |-> job.decision, intent |-> job.intent]
  /\ job' = Idle /\ orders' = Unseen
  /\ UNCHANGED <<held, refresh, stored, decisions, reruns, failures>>

\* run raises what it cannot do: an illegal move of the state machine, a BUY
\* of another symbol than the held one.
RunRaises ==
  /\ job.pc = "failing"
  /\ job' = Idle /\ orders' = Unseen
  /\ UNCHANGED <<refresh, worldAndRows>>

\* An exception, for a refresh or a quote that is not to be had, does the same
\* to the orders and the rows as the death of the process.
Crash ==
  /\ job.pc # "idle"
  /\ Fails /\ RefreshEnds
  /\ job' = Idle /\ orders' = Unseen
  /\ UNCHANGED <<held, stored, deferred, decisions, reruns>>

-----------------------------------------------------------------------------
(* TWS and its callbacks (external).                                        *)

Told(seen) == IF job.pc = "idle" THEN "absent" ELSE seen

Broker(i) ==
  /\ orders[i].status = "working"
  /\ UNCHANGED <<between, positions, stored, deferred, job, decisions, reruns, failures>>

Fill(i) ==
  /\ Broker(i)
  /\ late' = (late \/ (between /\ orders[i].id.action = "BUY"))
  /\ \E n \in 1..(orders[i].qty - orders[i].filled) :
       LET done == orders[i].filled + n = orders[i].qty
           sign == IF orders[i].id.action = "BUY" THEN 1 ELSE -1
       IN  /\ orders' = [orders EXCEPT ![i].filled = @ + n,
                                       ![i].status = IF done THEN "filled" ELSE @,
                                       ![i].seen = Told(IF done THEN "Filled" ELSE "Submitted")]
           /\ held' = [held EXCEPT ![orders[i].id.symbol] = @ + sign * n]

\* The order status and error 202 arrive in either order.
CancelAtBroker(i) ==
  /\ Broker(i)
  /\ \E seen \in {"Cancelled", "Error"} :
       orders' = [orders EXCEPT ![i].status = "cancelled", ![i].seen = Told(seen)]
  /\ UNCHANGED <<held, late>>

\* Error 201.
RefuseAtBroker(i) ==
  /\ Broker(i) /\ orders[i].filled = 0
  /\ orders' = [orders EXCEPT ![i].status = "refused", ![i].seen = Told("Inactive")]
  /\ UNCHANGED <<held, late>>

\* Any other message with the number of the order is taken for an error.
WarnAboutOrder(i) ==
  /\ Broker(i)
  /\ orders' = [orders EXCEPT ![i].seen = Told("Error")]
  /\ UNCHANGED <<held, late>>

Next ==
  \/ PositionsAnswered \/ StartRun \/ RunAgain \/ Decide \/ Liquidate \/ Execute
  \/ EndRun \/ RunRaises \/ Crash
  \/ \E i \in DOMAIN orders :
       Fill(i) \/ CancelAtBroker(i) \/ RefuseAtBroker(i) \/ WarnAboutOrder(i)

Spec == Init /\ [][Next]_vars

-----------------------------------------------------------------------------
(* Properties.                                                              *)

Shares == 0..(MaxShares * (MaxDecisions + 1))   \* top-ups add up

Order == [id : OrderIds, qty : Shares, filled : Shares,
          status : {"working", "filled", "cancelled", "refused"},
          seen : {"absent", "Submitted", "Filled", "Cancelled", "Inactive", "Error"},
          concealed : BOOLEAN]

\* The state has its types: the account, the orders, the rows and the deferred
\* intent that the cycle of run reads and writes.
TypeOK ==
  /\ held \in [Symbols -> Int]
  /\ \A i \in DOMAIN orders : orders[i] \in Order
  /\ between \in BOOLEAN /\ positions \in [Symbols -> Int] /\ late \in BOOLEAN
  /\ DOMAIN stored \subseteq OrderIds /\ \A id \in DOMAIN stored : stored[id] \in {"active", "settled"}
  /\ deferred \in [decision : 0..MaxDecisions, intent : Intents \cup {NoIntent}]
  /\ DOMAIN job = DOMAIN Idle
  /\ job.machine \in DOMAIN Transitions \cup {"IDLE"}
  /\ job.leg \in Legs \cup {"none"}
  /\ job.todo \subseteq DOMAIN orders /\ job.snapshot.open \subseteq DOMAIN orders

\* A leg of a decision is sent again, when the decision runs again after a
\* deferral, an exception or a crash, only if the first order is dead and
\* bought or sold nothing: the client order id, the row and the broker's
\* executions together keep _execute_order from trading a leg twice.
LegSentOnce ==
  \A i, j \in DOMAIN orders :
    i < j /\ orders[i].id = orders[j].id => orders[i].status # "working" /\ orders[i].filled = 0

\* Whatever the broker works on has a row, so that after a crash in
\* _execute_order the refresh does not meet an unknown open order, which would
\* block the account.
SentIsStored == \A i \in DOMAIN orders : orders[i].id \in DOMAIN stored

\* The account never holds two symbols, however late the fills of earlier
\* decisions come, unless a refresh has mistaken a working order for a filled
\* one: max_positions is one, and the adapter cannot reconcile two.
OneSymbol ==
  (\A i \in DOMAIN orders : ~ orders[i].concealed)
    => Cardinality({s \in Symbols : held[s] > 0}) <= 1

Confirms == job.pc = "liquidated" /\ job'.machine \in {"FILLED", "RISK_HALTED"} \ {job.machine}

NoBuyWorks == \A i \in DOMAIN orders : ~ (orders[i].status = "working" /\ orders[i].id.action = "BUY")

\* When run records a confirmed cash target or a risk halt, no BUY is left to
\* fill, with the same proviso, and the account is flat if besides no BUY was
\* filled between the answers of the refresh that confirmed it: the
\* cancellations are awaited and the positions read after them.
CashIsFlat ==
  [][(Confirms /\ \A i \in DOMAIN orders : ~ orders[i].concealed)
       => NoBuyWorks /\ (~ late => \A s \in Symbols : held[s] <= 0)]_vars

=============================================================================
