-------------------------- MODULE EntryExecution --------------------------
(***************************************************************************)
(* The pending entries: capture, process_pending_entries of                *)
(* src/src/runner.py and the engine of src/src/entry_execution.py it       *)
(* drives, from the list of waiting entries to the order, its cancellation *)
(* and the requotes.                                                       *)
(*                                                                         *)
(* A share costs one, so that the equity is Capital and the cash what is   *)
(* not held.  A quote is what the engine makes of it: fresh and quiet, to  *)
(* be reviewed, or useless; the market is open or not when it is asked.    *)
(* TWS acts between any two steps, the process may die at any of them, and *)
(* the entries stay in SQLite.  A refresh is one step: what fills between  *)
(* two of its answers is in OrderLifecycle only.  The rows of              *)
(* order_records are left out: the entries never ask them anything.        *)
(***************************************************************************)
EXTENDS Integers, Sequences, FiniteSets, Functions, OrderViews

CONSTANTS
  Symbols, NoSymbol,
  MaxEntries,        \* bound on BUY decisions captured
  Capital,           \* the equity, in shares
  MaxRequotes,       \* max_entry_requotes
  MaxOrders,         \* bound on orders placed
  MaxFailures        \* bound on deaths of the process and failed refreshes

ASSUME EntryAssumption ==
  /\ IsFiniteSet(Symbols) /\ NoSymbol \notin Symbols
  /\ MaxEntries \in Nat \ {0} /\ Capital \in Nat \ {0}
  /\ MaxRequotes \in Nat /\ MaxOrders \in Nat /\ MaxFailures \in Nat

Entries == 1..MaxEntries

Waiting  == {"PENDING_ENTRY", "ENTRY_REVIEW_REQUIRED"}   \* what the list asks for
Trying   == {"ENTRY_VALID", "ENTRY_SUBMITTED"}
Settled  == {"ENTRY_PARTIALLY_FILLED", "ENTRY_FILLED", "ENTRY_CANCELLED", "ENTRY_FAILED"}
Statuses == {"none"} \cup Waiting \cup Trying \cup Settled

VARIABLES
  (* the broker *)
  held,      \* shares of each symbol
  orders,    \* every order placed
  (* SQLite *)
  entries,   \* the rows of pending_entries, in the order of their creation
  (* process_pending_entries *)
  job,
  failures

vars == <<held, orders, entries, job, failures>>

NoEntry    == [symbol |-> NoSymbol, status |-> "none", aged |-> FALSE]
NoHoldings == [s \in Symbols |-> 0]

Idle == [pc |-> "idle", todo |-> {}, at |-> 0, target |-> 0, index |-> 0, qty |-> 0,
         snapshot |-> NoHoldings, beside |-> FALSE, report |-> "none", bought |-> "none"]

Init ==
  /\ held = NoHoldings /\ orders = <<>>
  /\ entries = [e \in Entries |-> NoEntry]
  /\ job = Idle /\ failures = 0

-----------------------------------------------------------------------------
Symbol(e) == entries[e].symbol
Here      == job.at

Total(f)  == FoldFunction(+, 0, f)
Cash(h)   == Capital - Total(h)
Others(h) == {s \in Symbols \ {Symbol(Here)} : h[s] > 0}

Works == {i \in DOMAIN orders : orders[i].status = "working"}
Fails == failures < MaxFailures /\ failures' = failures + 1

\* The client order id is a digest of the decision and "entry-<requote>".
SameId(i) == orders[i].entry = Here /\ orders[i].index = job.index

\* Of the adapter's view only the order of the try under way is kept: nothing
\* asks for another one, and every try is preceded by a refresh.
Refreshed == [i \in DOMAIN orders |->
               [orders[i] EXCEPT !.seen = IF SameId(i) THEN Rebuilt(orders[i]) ELSE "absent"]]
Unseen    == [i \in DOMAIN orders |-> [orders[i] EXCEPT !.seen = "absent"]]
ThisTry   == {i \in DOMAIN orders : orders[i].seen # "absent"}

\* _validate_position_mandate: one symbol.
Mandate == Cardinality({s \in Symbols : held[s] > 0}) <= 1

Marked(status) == [entries EXCEPT ![Here].status = status]

\* On to the next entry of the list.
NextEntry == [Idle EXCEPT !.pc = "next", !.todo = job.todo \ {Here}]

world == <<held, failures>>

-----------------------------------------------------------------------------
(* capture, and the pass over the entries.                                  *)

\* run captures a BUY unless another symbol is held.
Capture(e) ==
  /\ job.pc = "idle" /\ entries[e].status = "none"
  /\ e > 1 => entries[e - 1].status # "none"
  /\ \E s \in Symbols :
       /\ \A t \in Symbols \ {s} : held[t] = 0
       /\ entries' = [entries EXCEPT ![e] = [symbol |-> s, status |-> "PENDING_ENTRY",
                                             aged |-> FALSE]]
  /\ UNCHANGED <<orders, job, world>>

\* Entries that were filled in part as well.
ListedForMore == {e \in Entries : entries[e].status \in Waiting \cup {"ENTRY_PARTIALLY_FILLED"}}

Listed == {e \in Entries : entries[e].status \in Waiting}

\* The list is read once.
ProcessEntries ==
  /\ job.pc = "idle" /\ Listed # {}
  /\ job' = [Idle EXCEPT !.pc = "next", !.todo = Listed]
  /\ UNCHANGED <<orders, entries, world>>

First(e) == job.pc = "next" /\ e \in job.todo /\ \A f \in job.todo : e <= f

\* The market is closed, or has opened less than the delay ago.
SkipEntry(e) ==
  /\ First(e)
  /\ job' = [job EXCEPT !.todo = @ \ {e}]
  /\ UNCHANGED <<orders, entries, world>>

TooOld(e) == entries[e].aged

\* The age is that of the decision; it is asked only in an open market.
ExpireEntry(e) ==
  /\ First(e) /\ TooOld(e)
  /\ entries' = [entries EXCEPT ![e].status = "ENTRY_CANCELLED"]
  /\ job' = [job EXCEPT !.todo = @ \ {e}]
  /\ UNCHANGED <<orders, world>>

TakeUp(e) ==
  /\ First(e) /\ ~ TooOld(e)
  /\ job' = [job EXCEPT !.pc = "reconciling", !.at = e]
  /\ UNCHANGED <<orders, entries, world>>

PassDone ==
  /\ job.pc = "next" /\ job.todo = {}
  /\ job' = Idle
  /\ UNCHANGED <<orders, entries, world>>

ReconcileEntry ==
  /\ job.pc = "reconciling" /\ Mandate
  /\ job' = [job EXCEPT !.pc = "quoting", !.snapshot = held]
  /\ UNCHANGED <<orders, entries, world>>

\* The exception handler writes the entry it listed, whatever has become of it.
FailEntry ==
  /\ entries' = Marked("ENTRY_FAILED")
  /\ job' = NextEntry

EntryRaises ==
  /\ job.pc \in {"reconciling", "quoting", "reviewing", "risking", "building",
                 "placed", "awaiting", "cancelling", "requoting", "settling"}
  /\ \/ Fails
     \/ /\ job.pc \in {"reconciling", "settling"} /\ ~ Mandate
        /\ UNCHANGED failures
  /\ FailEntry /\ orders' = Unseen
  /\ UNCHANGED held

-----------------------------------------------------------------------------
(* revalidate, quick_entry_review and the risk engine.                      *)

\* What revalidate makes of a quote, and of a market that has closed; it
\* persists the outcome.
Outcomes == {"ENTRY_VALID", "ENTRY_REVIEW_REQUIRED", "ENTRY_FAILED", "PENDING_ENTRY"}

AfterRevalidation ==
  [ENTRY_VALID           |-> [job EXCEPT !.pc = "risking"],
   ENTRY_REVIEW_REQUIRED |-> [job EXCEPT !.pc = "reviewing"],
   ENTRY_FAILED          |-> NextEntry,
   PENDING_ENTRY         |-> NextEntry]

Revalidate ==
  /\ job.pc = "quoting"
  /\ \E status \in Outcomes :
       entries' = Marked(status) /\ job' = AfterRevalidation[status]
  /\ UNCHANGED <<orders, world>>

\* BUY_NOW, WAIT (also when Sol cannot be asked), CANCEL_ENTRY.
QuickReview ==
  /\ job.pc = "reviewing"
  /\ \/ entries' = Marked("ENTRY_VALID") /\ job' = [job EXCEPT !.pc = "risking"]
     \/ UNCHANGED entries /\ job' = NextEntry
     \/ entries' = Marked("ENTRY_CANCELLED") /\ job' = NextEntry
  /\ UNCHANGED <<orders, world>>

\* The engine caps the weight; it does not ask what else is held.
RiskApproves ==
  /\ job.pc = "risking"
  /\ \E target \in 1..Capital : job' = [job EXCEPT !.pc = "building", !.target = target]
  /\ UNCHANGED <<orders, entries, world>>

RiskRefuses == job.pc = "risking" /\ FailEntry /\ UNCHANGED <<orders, world>>

-----------------------------------------------------------------------------
(* build_order and the order's way to the broker and back.                  *)

Lower(a, b) == IF a < b THEN a ELSE b

\* The missing part of the target, as far as the cash goes.
Affordable(target, h) == Lower(Cash(h), target - h[Symbol(Here)])

\* "Gross exposure above 100% is blocked".
WithinEquity == Total(job.snapshot) - job.snapshot[Symbol(Here)] + job.target <= Capital

Buyable == WithinEquity /\ Affordable(job.target, job.snapshot) > 0

BuildOrder ==
  /\ job.pc = "building" /\ Buyable
  /\ job' = [job EXCEPT !.pc = "checking", !.qty = Affordable(job.target, job.snapshot)]
  /\ UNCHANGED <<orders, entries, world>>

\* "Margin borrowing is blocked or the approved target has no positive buy
\* delta"; also a price that ran away.
NothingToBuy ==
  /\ job.pc = "building" /\ ~ Buyable
  /\ FailEntry
  /\ UNCHANGED <<orders, world>>

\* Any holding will do.
AllowAnyHolding(now) == Others(now) = {}

\* Any other holding will do.
AllowBeside(now) == now[Symbol(Here)] = job.snapshot[Symbol(Here)]

\* _pre_submit_position_check of a BUY: no other symbol, and the holding the
\* order was sized by.
HoldingsAllow(now) ==
  Others(now) = {} /\ now[Symbol(Here)] = job.snapshot[Symbol(Here)]

Reports(report) == [Idle EXCEPT !.pc = "reported", !.todo = job.todo, !.at = Here, !.report = report]

PassCheck ==
  /\ job.pc = "checking" /\ Mandate /\ HoldingsAllow(held)
  /\ orders' = Refreshed
  /\ job' = [job EXCEPT !.pc = "submitting", !.snapshot = held, !.beside = Works # {}]
  /\ UNCHANGED <<entries, world>>

FailCheck ==
  /\ job.pc = "checking"
  /\ \/ Fails /\ UNCHANGED orders
     \/ ~ Mandate /\ UNCHANGED <<orders, failures>>
     \/ Mandate /\ ~ HoldingsAllow(held) /\ orders' = Refreshed /\ UNCHANGED failures
  /\ job' = Reports("REJECTED")
  /\ UNCHANGED <<held, entries>>

\* An earlier pass sent this try, and the broker still knows the order: the
\* adapter reports it and places nothing.
FoundAtBroker ==
  /\ job.pc = "submitting"
  /\ \E i \in ThisTry :
       LET report == StatusReport(orders[i])
       IN  job' = IF report = "PENDING" THEN [job EXCEPT !.pc = "placed"]
                  ELSE [Reports(report) EXCEPT !.bought = Bought(orders[i])]
  /\ UNCHANGED <<orders, entries, world>>

SubmitRefused ==
  /\ job.pc = "submitting" /\ ThisTry = {}
  /\ \/ Fails
     \/ Len(orders) = MaxOrders /\ UNCHANGED failures
  /\ job' = Reports("ERROR")
  /\ UNCHANGED <<held, orders, entries>>

PlaceOrder ==
  /\ job.pc = "submitting" /\ ThisTry = {} /\ Len(orders) < MaxOrders
  /\ orders' = Append(orders, [entry |-> Here, index |-> job.index, qty |-> job.qty, filled |-> 0,
                               status |-> "working", seen |-> "Submitted", beside |-> job.beside])
  /\ job' = [job EXCEPT !.pc = "placed", !.qty = 0, !.beside = FALSE]
  /\ UNCHANGED <<entries, world>>

\* apply_execution of the report PENDING.
MarkSubmitted ==
  /\ job.pc = "placed"
  /\ entries' = Marked("ENTRY_SUBMITTED")
  /\ job' = [job EXCEPT !.pc = "awaiting"]
  /\ UNCHANGED <<orders, world>>

\* A TIMEOUT asks the broker to cancel.
AwaitOrder ==
  /\ job.pc = "awaiting"
  /\ \E i \in ThisTry :
       LET report == AwaitReport(orders[i])
       IN  job' = IF report = "TIMEOUT" THEN [job EXCEPT !.pc = "cancelling"]
                  ELSE [Reports(report) EXCEPT !.bought = Bought(orders[i])]
  /\ UNCHANGED <<orders, entries, world>>

\* Whatever the cancellation reports, an order without a fill is followed by
\* the next requote, if there is one left.
AwaitCancel ==
  /\ job.pc = "cancelling"
  /\ orders' = Unseen
  /\ \E i \in ThisTry :
       job' = IF Bought(orders[i]) = "none" /\ job.index < MaxRequotes
              THEN [job EXCEPT !.pc = "requoting"]
              ELSE [Reports(AwaitReport(orders[i])) EXCEPT !.bought = Bought(orders[i])]
  /\ UNCHANGED <<entries, world>>

Requote ==
  /\ job.pc = "requoting"
  /\ \E status \in Outcomes :
       /\ entries' = Marked(status)
       /\ job' = IF status = "ENTRY_VALID" THEN [job EXCEPT !.pc = "building", !.index = @ + 1]
                 ELSE Reports("ERROR")
  /\ UNCHANGED <<orders, world>>

\* apply_execution: what was bought decides before the status does.
SettledAs ==
  CASE job.bought = "all"  -> "ENTRY_FILLED"
    [] job.bought = "part" -> "ENTRY_PARTIALLY_FILLED"
    [] OTHER -> [PENDING          |-> "ENTRY_SUBMITTED",
                 PARTIALLY_FILLED |-> "ENTRY_PARTIALLY_FILLED",
                 FILLED           |-> "ENTRY_FILLED",
                 CANCELLED        |-> "ENTRY_REVIEW_REQUIRED",
                 TIMEOUT          |-> "ENTRY_REVIEW_REQUIRED",
                 REJECTED         |-> "ENTRY_FAILED",
                 ERROR            |-> "ENTRY_FAILED"][job.report]

SettleEntry ==
  /\ job.pc = "reported"
  /\ entries' = Marked(SettledAs)
  /\ job' = IF job.bought = "none" THEN NextEntry
            ELSE [Idle EXCEPT !.pc = "settling", !.todo = job.todo, !.at = Here]
  /\ orders' = Unseen
  /\ UNCHANGED world

\* The last reconcile, which shows the position to be managed.
ReconcileFill ==
  /\ job.pc = "settling" /\ Mandate
  /\ job' = NextEntry
  /\ UNCHANGED <<orders, entries, world>>

Crash ==
  /\ job.pc # "idle" /\ Fails
  /\ job' = Idle /\ orders' = Unseen
  /\ UNCHANGED <<held, entries>>

Worker ==
  \/ ProcessEntries \/ PassDone \/ ReconcileEntry \/ Revalidate \/ QuickReview
  \/ RiskApproves \/ RiskRefuses \/ BuildOrder \/ NothingToBuy \/ PassCheck \/ FailCheck
  \/ FoundAtBroker \/ SubmitRefused \/ PlaceOrder \/ MarkSubmitted \/ AwaitOrder \/ AwaitCancel
  \/ Requote \/ SettleEntry \/ ReconcileFill \/ EntryRaises
  \/ \E e \in job.todo : SkipEntry(e) \/ ExpireEntry(e) \/ TakeUp(e)

-----------------------------------------------------------------------------
(* The world: TWS (external), the clock, another client of the account.     *)

Told(i, seen) == IF i \in ThisTry THEN seen ELSE "absent"

Broker(i) == orders[i].status = "working" /\ UNCHANGED <<entries, job, failures>>

Fill(i) ==
  /\ Broker(i)
  /\ \E n \in 1..(orders[i].qty - orders[i].filled) :
       LET done == orders[i].filled + n = orders[i].qty
       IN  /\ orders' = [orders EXCEPT ![i].filled = @ + n,
                                       ![i].status = IF done THEN "filled" ELSE @,
                                       ![i].seen = Told(i, IF done THEN "Filled" ELSE "Submitted")]
           /\ held' = [held EXCEPT ![Symbol(orders[i].entry)] = @ + n]

CancelAtBroker(i) ==
  /\ Broker(i)
  /\ \E seen \in {"Cancelled", "Error"} :
       orders' = [orders EXCEPT ![i].status = "cancelled", ![i].seen = Told(i, seen)]
  /\ UNCHANGED held

RefuseAtBroker(i) ==
  /\ Broker(i) /\ orders[i].filled = 0
  /\ orders' = [orders EXCEPT ![i].status = "refused", ![i].seen = Told(i, "Inactive")]
  /\ UNCHANGED held

WarnAboutOrder(i) ==
  /\ Broker(i)
  /\ orders' = [orders EXCEPT ![i].seen = Told(i, "Error")]
  /\ UNCHANGED held

\* The decision cycle sells between two passes.
Sell ==
  /\ job.pc = "idle"
  /\ \E s \in Symbols : held[s] > 0 /\ held' = [held EXCEPT ![s] = 0]
  /\ UNCHANGED <<orders, entries, job, failures>>

\* The age is read when a pass comes to the entry; it may as well have grown
\* before the pass.
Age(e) ==
  /\ job.pc = "idle" /\ entries[e].status \in Waiting /\ ~ entries[e].aged
  /\ entries' = [entries EXCEPT ![e].aged = TRUE]
  /\ UNCHANGED <<held, orders, job, failures>>

Next ==
  \/ Worker \/ Crash \/ Sell
  \/ \E e \in Entries : Capture(e) \/ Age(e)
  \/ \E i \in DOMAIN orders :
       Fill(i) \/ CancelAtBroker(i) \/ RefuseAtBroker(i) \/ WarnAboutOrder(i)

Spec == Init /\ [][Next]_vars

-----------------------------------------------------------------------------
(* Properties.                                                              *)

Pcs == {"idle", "next", "reconciling", "quoting", "reviewing", "risking", "building", "checking",
        "submitting", "placed", "awaiting", "cancelling", "requoting", "reported", "settling"}

\* The state has its types: the rows of pending_entries, the broker's orders
\* and the pass of process_pending_entries.
TypeOK ==
  /\ entries \in [Entries -> [symbol : Symbols \cup {NoSymbol}, status : Statuses, aged : BOOLEAN]]
  /\ \A i \in DOMAIN orders : orders[i].entry \in Entries /\ orders[i].index \in 0..MaxRequotes
  /\ job.pc \in Pcs /\ job.todo \subseteq Entries /\ job.at \in 0..MaxEntries
  /\ job.index \in 0..MaxRequotes
  /\ job.pc \notin {"idle", "next"} => Here \in Entries

Alone == \A i \in DOMAIN orders : ~ orders[i].beside

\* The account never owes: what is held and what may still be bought stay
\* within the equity, through partial fills, requotes and orders of earlier
\* passes that fill at last - unless an order passed the check of the holdings
\* while another one worked, which nothing here prevents.
NoMargin ==
  Alone => Total(held)
           + FoldFunction(+, 0, [i \in DOMAIN orders |->
               IF i \in Works THEN orders[i].qty - orders[i].filled ELSE 0]) <= Capital

\* Under the same proviso, the entries never buy a second symbol beside the one
\* held or still being bought: capture, the risk engine and the check before
\* submission see different states of the account.
OneSymbolBought ==
  Alone => Cardinality({s \in Symbols :
             held[s] > 0 \/ \E i \in Works : Symbol(orders[i].entry) = s}) <= 1

\* A try of an entry, requote by requote, goes to the broker again only if the
\* order of the earlier pass is dead and bought nothing.
EntryTrySentOnce ==
  \A i, j \in DOMAIN orders :
    i < j /\ orders[i].entry = orders[j].entry /\ orders[i].index = orders[j].index
      => orders[i].status # "working" /\ orders[i].filled = 0

Phase(status) ==
  IF status = "none" THEN "none" ELSE IF status \in Waiting THEN "waiting"
  ELSE IF status \in Trying THEN "trying" ELSE "done"

Ledger == INSTANCE EntryLedger WITH
  phase <- [e \in Entries |-> Phase(entries[e].status)],
  sent  <- [e \in Entries |-> Cardinality({i \in DOMAIN orders : orders[i].entry = e})]

\* The entries keep the promise of EntryLedger: an order goes out only for an
\* entry that is being tried, and what is settled is never tried again.
RefinesLedger == Ledger!Spec

=============================================================================
