----------------------------- MODULE OrderViews -----------------------------
(***************************************************************************)
(* What the adapter of src/src/execution/ibkr.py says of an order at the   *)
(* broker: how a refresh rebuilds order_values, and what order_status and  *)
(* await_order report.  An order is a record with the fields status (the   *)
(* broker's), seen (the status in order_values, "absent" if it has none),  *)
(* qty and filled.                                                         *)
(***************************************************************************)
EXTENDS Naturals

Active == {"PENDING", "PARTIALLY_FILLED"}

\* An order without an execution is known from the open orders alone.
SeenAsOpen(o) == IF o.status = "working" THEN "Submitted" ELSE "absent"

\* An execution makes the rebuilt order "Filled", whatever is left of it.
Rebuilt(o) == IF o.filled > 0 THEN "Filled" ELSE SeenAsOpen(o)

Conceals(o) == o.status = "working" /\ Rebuilt(o) = "Filled"

StatusReport(o) ==
  [Submitted |-> IF o.filled > 0 THEN "PARTIALLY_FILLED" ELSE "PENDING",
   Filled    |-> "FILLED",
   Cancelled |-> "CANCELLED",
   Inactive  |-> "REJECTED",
   Error     |-> "ERROR",
   absent    |-> "PENDING"][o.seen]

\* await_order ends with a settled order or, after its time, with TIMEOUT.
AwaitReport(o) == IF StatusReport(o) \in Active THEN "TIMEOUT" ELSE StatusReport(o)

\* filled_quantity and remaining_quantity of a report: an order shown as filled
\* has nothing remaining.
Bought(o) == IF o.filled = 0 THEN "none" ELSE IF o.seen = "Filled" THEN "all" ELSE "part"

=============================================================================
