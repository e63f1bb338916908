------------------------ MODULE OrderLifecycleProofs ------------------------
(***************************************************************************)
(* Proofs about OrderLifecycle, for any symbols, shares, decisions, cycles,*)
(* orders and failures: no leg of a decision is traded twice, every order  *)
(* has its row, the account holds one symbol, and a confirmed liquidation  *)
(* is flat.                                                                *)
(*                                                                         *)
(* The order of the argument: the types (TypeInv), also of what each place *)
(* of the cycle relies on; what a refresh does to one order (RefreshedIs)  *)
(* and what a step that is none leaves alone (Rests); that an order which  *)
(* is lost to sight is dead and traded nothing (ViewInv), from which a leg *)
(* is sent once; the rows (RowInv).  For the account, Inv says where in    *)
(* the cycle no BUY works (Quiet), where the snapshot bounds what is held  *)
(* (Counted), what the positions of a refresh under way say of it          *)
(* (GapInv), and that one symbol at most is held or being bought           *)
(* (OneExposed): as long as no refresh has mistaken a working order for a  *)
(* filled one (Clear).                                                     *)
(***************************************************************************)
EXTENDS OrderLifecycle, FiniteSetTheorems, TLAPS

-----------------------------------------------------------------------------
(* Types.                                                                      *)

OrderRecords ==
  [id : OrderIds, qty : Nat, filled : Nat,
   status : {"working", "filled", "cancelled", "refused"},
   seen : {"absent", "Submitted", "Filled", "Cancelled", "Inactive", "Error"},
   concealed : BOOLEAN]

Views == {"absent", "Submitted", "Filled", "Cancelled", "Inactive", "Error"}

Pcs == {"idle", "deciding", "liquidating", "clearing", "cancelling", "cancelled", "liquidated",
        "sizing", "ordering", "checking", "submitting", "awaiting", "reported", "executed",
        "ending", "failing"}

Machines == {"IDLE", "RESEARCHING", "DECISION_READY", "WAITING_FOR_MARKET", "WAITING_FOR_BROKER",
             "RISK_APPROVED", "ORDER_PENDING", "PARTIALLY_FILLED", "FILLED", "REJECTED",
             "RISK_HALTED", "ERROR"}

Snapshots == [held : [Symbols -> Int], open : SUBSET Nat]
Sent      == [id : OrderIds, qty : Nat, expected : Int]

JobRecords ==
  [pc : Pcs, decision : 0 .. MaxDecisions, intent : Intents \cup {NoIntent}, resumed : BOOLEAN,
   leg : Legs \cup {"none"}, machine : Machines, snapshot : Snapshots, todo : SUBSET Nat,
   at : Nat, order : Sent \cup {NoOrder}, report : Reports \cup {"none"}]

\* Where the cycle is about an order, and where it liquidates.
OrderPlaces == {"ordering", "checking", "submitting", "awaiting", "reported"}
Clearing    == {"clearing", "cancelling", "cancelled"}

JobTyped ==
  /\ job \in JobRecords
  /\ job.pc \notin {"idle", "failing"} => job.decision # 0
  /\ job.pc \notin {"idle", "failing", "deciding"} => job.intent \in Intents
  /\ job.pc \notin {"idle", "failing", "deciding", "ending"} => job.leg \in Legs
  /\ job.pc = "sizing" => job.leg = "target" /\ job.intent.symbol \in Symbols
  /\ job.leg = "switch-sell" /\ job.pc \notin {"ending", "failing"} => job.intent.symbol \in Symbols
  /\ job.pc \in OrderPlaces => job.order \in Sent
  /\ job.pc \in {"cancelled", "reported"} => job.report \in Reports
  /\ job.pc \in Clearing => job.todo \subseteq DOMAIN orders
  /\ job.pc \in {"cancelling", "cancelled"} => job.at \in DOMAIN orders

OrdersTyped ==
  /\ orders \in Seq(OrderRecords)
  /\ \A i \in DOMAIN orders : orders[i].filled <= orders[i].qty

RefreshTyped ==
  between \in BOOLEAN /\ positions \in [Symbols -> Int] /\ late \in BOOLEAN

TypeInv ==
  /\ held \in [Symbols -> Int] /\ RefreshTyped
  /\ OrdersTyped /\ JobTyped
  /\ deferred = NoDeferral
     \/ deferred \in [decision : 1 .. MaxDecisions, intent : Intents]
  /\ decisions \in 0 .. MaxDecisions

LEMMA ElementIn ==
  ASSUME NEW S, NEW s \in Seq(S), NEW i \in DOMAIN s
  PROVE  s[i] \in S
OBVIOUS

\* The job record, field by field.
LEMMA WithPc ==
  ASSUME NEW j \in JobRecords, NEW x \in Pcs
  PROVE  LET k == [j EXCEPT !.pc = x]
         IN  /\ k \in JobRecords /\ k.pc = x
             /\ k.decision = j.decision /\ k.intent = j.intent /\ k.leg = j.leg /\ k.machine = j.machine
             /\ k.snapshot = j.snapshot /\ k.todo = j.todo /\ k.at = j.at /\ k.order = j.order
             /\ k.report = j.report
BY DEF JobRecords

LEMMA WithDecision ==
  ASSUME NEW j \in JobRecords, NEW x \in 0 .. MaxDecisions
  PROVE  LET k == [j EXCEPT !.decision = x]
         IN  /\ k \in JobRecords /\ k.decision = x
             /\ k.pc = j.pc /\ k.intent = j.intent /\ k.leg = j.leg /\ k.machine = j.machine
             /\ k.snapshot = j.snapshot /\ k.todo = j.todo /\ k.at = j.at /\ k.order = j.order
             /\ k.report = j.report
BY DEF JobRecords

LEMMA WithIntent ==
  ASSUME NEW j \in JobRecords, NEW x \in Intents \cup {NoIntent}
  PROVE  LET k == [j EXCEPT !.intent = x]
         IN  /\ k \in JobRecords /\ k.intent = x
             /\ k.pc = j.pc /\ k.decision = j.decision /\ k.leg = j.leg /\ k.machine = j.machine
             /\ k.snapshot = j.snapshot /\ k.todo = j.todo /\ k.at = j.at /\ k.order = j.order
             /\ k.report = j.report
BY DEF JobRecords

LEMMA WithResumed ==
  ASSUME NEW j \in JobRecords, NEW x \in BOOLEAN
  PROVE  LET k == [j EXCEPT !.resumed = x]
         IN  /\ k \in JobRecords /\ k.resumed = x
             /\ k.pc = j.pc /\ k.decision = j.decision /\ k.intent = j.intent /\ k.leg = j.leg
             /\ k.machine = j.machine /\ k.snapshot = j.snapshot /\ k.todo = j.todo /\ k.at = j.at
             /\ k.order = j.order /\ k.report = j.report
BY DEF JobRecords

LEMMA WithLeg ==
  ASSUME NEW j \in JobRecords, NEW x \in Legs \cup {"none"}
  PROVE  LET k == [j EXCEPT !.leg = x]
         IN  /\ k \in JobRecords /\ k.leg = x
             /\ k.pc = j.pc /\ k.decision = j.decision /\ k.intent = j.intent /\ k.machine = j.machine
             /\ k.snapshot = j.snapshot /\ k.todo = j.todo /\ k.at = j.at /\ k.order = j.order
             /\ k.report = j.report
BY DEF JobRecords

LEMMA WithMachine ==
  ASSUME NEW j \in JobRecords, NEW x \in Machines
  PROVE  LET k == [j EXCEPT !.machine = x]
         IN  /\ k \in JobRecords /\ k.machine = x
             /\ k.pc = j.pc /\ k.decision = j.decision /\ k.intent = j.intent /\ k.leg = j.leg
             /\ k.snapshot = j.snapshot /\ k.todo = j.todo /\ k.at = j.at /\ k.order = j.order
             /\ k.report = j.report
BY DEF JobRecords

LEMMA WithSnapshot ==
  ASSUME NEW j \in JobRecords, NEW x \in Snapshots
  PROVE  LET k == [j EXCEPT !.snapshot = x]
         IN  /\ k \in JobRecords /\ k.snapshot = x
             /\ k.pc = j.pc /\ k.decision = j.decision /\ k.intent = j.intent /\ k.leg = j.leg
             /\ k.machine = j.machine /\ k.todo = j.todo /\ k.at = j.at /\ k.order = j.order
             /\ k.report = j.report
BY DEF JobRecords

LEMMA WithTodo ==
  ASSUME NEW j \in JobRecords, NEW x \in SUBSET Nat
  PROVE  LET k == [j EXCEPT !.todo = x]
         IN  /\ k \in JobRecords /\ k.todo = x
             /\ k.pc = j.pc /\ k.decision = j.decision /\ k.intent = j.intent /\ k.leg = j.leg
             /\ k.machine = j.machine /\ k.snapshot = j.snapshot /\ k.at = j.at /\ k.order = j.order
             /\ k.report = j.report
BY DEF JobRecords

LEMMA WithAt ==
  ASSUME NEW j \in JobRecords, NEW x \in Nat
  PROVE  LET k == [j EXCEPT !.at = x]
         IN  /\ k \in JobRecords /\ k.at = x
             /\ k.pc = j.pc /\ k.decision = j.decision /\ k.intent = j.intent /\ k.leg = j.leg
             /\ k.machine = j.machine /\ k.snapshot = j.snapshot /\ k.todo = j.todo /\ k.order = j.order
             /\ k.report = j.report
BY DEF JobRecords

LEMMA WithOrder ==
  ASSUME NEW j \in JobRecords, NEW x \in Sent \cup {NoOrder}
  PROVE  LET k == [j EXCEPT !.order = x]
         IN  /\ k \in JobRecords /\ k.order = x
             /\ k.pc = j.pc /\ k.decision = j.decision /\ k.intent = j.intent /\ k.leg = j.leg
             /\ k.machine = j.machine /\ k.snapshot = j.snapshot /\ k.todo = j.todo /\ k.at = j.at
             /\ k.report = j.report
BY DEF JobRecords

LEMMA WithReport ==
  ASSUME NEW j \in JobRecords, NEW x \in Reports \cup {"none"}
  PROVE  LET k == [j EXCEPT !.report = x]
         IN  /\ k \in JobRecords /\ k.report = x
             /\ k.pc = j.pc /\ k.decision = j.decision /\ k.intent = j.intent /\ k.leg = j.leg
             /\ k.machine = j.machine /\ k.snapshot = j.snapshot /\ k.todo = j.todo /\ k.at = j.at
             /\ k.order = j.order
BY DEF JobRecords

LEMMA NoPositionsIs == NoPositions \in [Symbols -> Int]
BY DEF NoPositions

LEMMA IdleIs ==
  /\ Idle \in JobRecords /\ Idle.pc = "idle" /\ Idle.leg = "none" /\ Idle.machine = "IDLE"
<1>1. NoSnapshot \in Snapshots
  BY NoPositionsIs DEF NoSnapshot, Snapshots
<1>2. "idle" \in Pcs /\ "IDLE" \in Machines /\ 0 \in 0 .. MaxDecisions /\ {} \in SUBSET Nat
  BY LifecycleAssumption DEF Pcs, Machines
<1> QED BY <1>1, <1>2 DEF Idle, JobRecords

LEMMA SnapshotIs ==
  ASSUME TypeInv
  PROVE  /\ SnapshotNow \in Snapshots /\ SnapshotNow.held = positions
         /\ SnapshotNow.open = {i \in DOMAIN orders : Rebuilt(orders[i]) = "Submitted"}
<1>1. {i \in DOMAIN orders : Rebuilt(orders[i]) = "Submitted"} \in SUBSET Nat
  BY DEF TypeInv, OrdersTyped
<1>2. positions \in [Symbols -> Int]
  BY DEF TypeInv, RefreshTyped
<1> QED BY <1>1, <1>2 DEF SnapshotNow, Snapshots

LEMMA StartedIs ==
  ASSUME TypeInv, NEW d \in 1 .. MaxDecisions
  PROVE  /\ Started(d) \in JobRecords /\ Started(d).pc = "deciding" /\ Started(d).decision = d
         /\ Started(d).snapshot = SnapshotNow /\ Started(d).leg = "none"
<1> DEFINE j == [Idle EXCEPT !.pc = "deciding"]
           k == [j EXCEPT !.decision = d]
           m == [k EXCEPT !.machine = "RESEARCHING"]
           n == [m EXCEPT !.snapshot = SnapshotNow]
<1>1. Started(d) = n
  BY DEF Started
<1>2. "deciding" \in Pcs /\ "RESEARCHING" \in Machines /\ d \in 0 .. MaxDecisions
  BY LifecycleAssumption DEF Pcs, Machines
<1>3. j \in JobRecords /\ j.pc = "deciding" /\ j.leg = "none"
  BY <1>2, IdleIs, WithPc
<1>4. k \in JobRecords /\ k.pc = "deciding" /\ k.leg = "none" /\ k.decision = d
  <2> HIDE DEF j
  <2> QED BY <1>2, <1>3, WithDecision
<1>5. m \in JobRecords /\ m.pc = "deciding" /\ m.leg = "none" /\ m.decision = d
  <2> HIDE DEF k
  <2> QED BY <1>2, <1>4, WithMachine
<1>6. /\ n \in JobRecords /\ n.pc = "deciding" /\ n.leg = "none" /\ n.decision = d
      /\ n.snapshot = SnapshotNow
  <2> HIDE DEF m
  <2> QED BY <1>5, SnapshotIs, WithSnapshot
<1> HIDE DEF n
<1> QED BY <1>1, <1>6

\* A cycle that ends, in the state it moves to or because it may not.
Ends(j, k, to) ==
  /\ k \in JobRecords
  /\ \/ /\ k.pc = "ending" /\ k.machine = to
        /\ k.decision = j.decision /\ k.intent = j.intent
     \/ k.pc = "failing" /\ k.machine = "ERROR"

LEMMA MovedIs ==
  ASSUME NEW j \in JobRecords, NEW to \in Machines
  PROVE  Ends(j, Moved(j, to), to)
<1>1. CASE to = j.machine \/ to \in Transitions[j.machine]
  <2> DEFINE a == [Idle EXCEPT !.pc = "ending"]
             b == [a EXCEPT !.machine = to]
             c == [b EXCEPT !.decision = j.decision]
             d == [c EXCEPT !.intent = j.intent]
             e == [d EXCEPT !.resumed = j.resumed]
             f == [e EXCEPT !.leg = j.leg]
  <2>1. Moved(j, to) = f
    BY <1>1 DEF Moved
  <2>2. /\ "ending" \in Pcs /\ j.decision \in 0 .. MaxDecisions /\ j.intent \in Intents \cup {NoIntent}
        /\ j.resumed \in BOOLEAN /\ j.leg \in Legs \cup {"none"}
    BY DEF Pcs, JobRecords
  <2>3. a \in JobRecords /\ a.pc = "ending"
    BY <2>2, IdleIs, WithPc
  <2>4. b \in JobRecords /\ b.pc = "ending" /\ b.machine = to
    <3> HIDE DEF a
    <3> QED BY <2>3, WithMachine
  <2>5. c \in JobRecords /\ c.pc = "ending" /\ c.machine = to /\ c.decision = j.decision
    <3> HIDE DEF b
    <3> QED BY <2>2, <2>4, WithDecision
  <2>6. /\ d \in JobRecords /\ d.pc = "ending" /\ d.machine = to /\ d.decision = j.decision
        /\ d.intent = j.intent
    <3> HIDE DEF c
    <3> QED BY <2>2, <2>5, WithIntent
  <2>7. /\ e \in JobRecords /\ e.pc = "ending" /\ e.machine = to /\ e.decision = j.decision
        /\ e.intent = j.intent
    <3> HIDE DEF d
    <3> QED BY <2>2, <2>6, WithResumed
  <2>8. /\ f \in JobRecords /\ f.pc = "ending" /\ f.machine = to /\ f.decision = j.decision
        /\ f.intent = j.intent
    <3> HIDE DEF e
    <3> QED BY <2>2, <2>7, WithLeg
  <2> HIDE DEF f
  <2> QED BY <2>1, <2>8 DEF Ends
<1>2. CASE ~ (to = j.machine \/ to \in Transitions[j.machine])
  <2> DEFINE a == [Idle EXCEPT !.pc = "failing"]
             b == [a EXCEPT !.machine = "ERROR"]
  <2>1. Moved(j, to) = b
    BY <1>2 DEF Moved
  <2>2. "failing" \in Pcs /\ "ERROR" \in Machines
    BY DEF Pcs, Machines
  <2>3. a \in JobRecords /\ a.pc = "failing"
    BY <2>2, IdleIs, WithPc
  <2>4. b \in JobRecords /\ b.pc = "failing" /\ b.machine = "ERROR"
    <3> HIDE DEF a
    <3> QED BY <2>2, <2>3, WithMachine
  <2> HIDE DEF b
  <2> QED BY <2>1, <2>4 DEF Ends
<1> QED BY <1>1, <1>2

-----------------------------------------------------------------------------
(* What a step makes of the cycle.                                             *)

\* The cycle comes to p with the same decision and the same leg.
Stays(p) ==
  /\ job' \in JobRecords /\ job'.pc = p
  /\ job'.decision = job.decision /\ job'.intent = job.intent /\ job'.leg = job.leg

Others == <<held, orders, stored, deferred, decisions, reruns, failures>>

\* The decision: it ends the cycle, or names a leg.
LEMMA DecideIs ==
  ASSUME TypeInv, Decide
  PROVE  /\ job.pc = "deciding" /\ UNCHANGED Others /\ job' \in JobRecords
         /\ \/ job'.pc = "failing"
            \/ job'.pc = "ending" /\ job'.decision = job.decision /\ job'.intent \in Intents
            \/ /\ job'.decision = job.decision /\ job'.intent \in Intents
               /\ \/ job'.pc = "liquidating" /\ job'.leg \in {"risk-halt", "cash"}
                  \/ job'.pc = "liquidating" /\ job'.leg = "switch-sell" /\ job'.intent.symbol \in Symbols
                  \/ /\ job'.pc = "sizing" /\ job'.leg = "target" /\ job'.intent.symbol \in Symbols
                     /\ job.snapshot.open = {}
<1>1. PICK i \in Intents :
        \/ WaitForBroker(i) \/ BlockedByOrder(i) \/ NotApproved(i) \/ HaltRisk(i)
        \/ ApproveCash(i) \/ ApproveSwitch(i) \/ ApproveTarget(i)
  BY DEF Decide
<1>2. job.pc = "deciding" /\ UNCHANGED Others
  BY <1>1 DEF Others, WaitForBroker, BlockedByOrder, NotApproved, HaltRisk, ApproveCash, ApproveSwitch,
     ApproveTarget, Decides
<1> DEFINE a == [job EXCEPT !.intent = i]
           b == [a EXCEPT !.machine = "DECISION_READY"]
<1>3. /\ job \in JobRecords /\ i \in Intents \cup {NoIntent}
      /\ {"DECISION_READY", "RISK_APPROVED", "WAITING_FOR_BROKER", "WAITING_FOR_MARKET", "REJECTED",
          "ERROR"} \subseteq Machines
      /\ {"liquidating", "sizing", "failing"} \subseteq Pcs
      /\ {"risk-halt", "cash", "switch-sell", "target"} \subseteq Legs \cup {"none"}
  BY DEF TypeInv, JobTyped, Machines, Pcs, Legs
<1>4. a \in JobRecords /\ a.intent = i /\ a.decision = job.decision
  BY <1>3, WithIntent
<1>5. b \in JobRecords /\ b.intent = i /\ b.decision = job.decision
  <2> HIDE DEF a
  <2> QED BY <1>3, <1>4, WithMachine
<1>6. Decided(i) = b
  BY DEF Decided
<1> HIDE DEF b
<1>7. CASE WaitForBroker(i) \/ BlockedByOrder(i) \/ NotApproved(i)
  <2>1. PICK to \in Machines : job' = Moved(b, to)
    BY <1>3, <1>6, <1>7 DEF WaitForBroker, BlockedByOrder, NotApproved, Decides
  <2>2. Ends(b, job', to)
    BY <1>5, <2>1, MovedIs
  <2> QED BY <1>2, <1>5, <2>2 DEF Ends
<1>8. ASSUME NEW p \in {"liquidating", "sizing", "failing"},
             NEW l \in {"risk-halt", "cash", "switch-sell", "target"},
             NEW m \in Machines, job' = [[[b EXCEPT !.pc = p] EXCEPT !.leg = l] EXCEPT !.machine = m]
      PROVE  /\ job' \in JobRecords /\ job'.pc = p /\ job'.leg = l /\ job'.intent = i
             /\ job'.decision = job.decision
  <2> DEFINE c == [b EXCEPT !.pc = p]
             d == [c EXCEPT !.leg = l]
             e == [d EXCEPT !.machine = m]
  <2>1. c \in JobRecords /\ c.pc = p /\ c.intent = i /\ c.decision = job.decision
    BY <1>3, <1>5, WithPc
  <2>2. d \in JobRecords /\ d.pc = p /\ d.leg = l /\ d.intent = i /\ d.decision = job.decision
    <3> HIDE DEF c
    <3> QED BY <1>3, <2>1, WithLeg
  <2>3. e \in JobRecords /\ e.pc = p /\ e.leg = l /\ e.intent = i /\ e.decision = job.decision
    <3> HIDE DEF d
    <3> QED BY <2>2, WithMachine
  <2>4. job' = e
    BY <1>8
  <2> HIDE DEF e
  <2> QED BY <2>3, <2>4
<1>9. b.machine \in Machines /\ [[b EXCEPT !.pc = "liquidating"] EXCEPT !.leg = "risk-halt"]
        = [[[b EXCEPT !.pc = "liquidating"] EXCEPT !.leg = "risk-halt"] EXCEPT !.machine = b.machine]
  <2>1. b.machine \in Machines
    BY <1>5 DEF JobRecords
  <2> QED BY <1>5, <2>1 DEF JobRecords
<1>10. CASE HaltRisk(i)
  <2>1. job' = [[b EXCEPT !.pc = "liquidating"] EXCEPT !.leg = "risk-halt"]
    BY <1>6, <1>10 DEF HaltRisk, Decides
  <2>2. job' = [[[b EXCEPT !.pc = "liquidating"] EXCEPT !.leg = "risk-halt"] EXCEPT !.machine = b.machine]
    BY <1>9, <2>1
  <2> QED BY <1>2, <1>8, <1>9, <2>2
<1>11. CASE ApproveCash(i)
  <2>1. job' = [[[b EXCEPT !.pc = "liquidating"] EXCEPT !.leg = "cash"] EXCEPT !.machine = "RISK_APPROVED"]
    BY <1>6, <1>11 DEF ApproveCash, Decides
  <2> QED BY <1>2, <1>3, <1>8, <2>1
<1>12. CASE ApproveSwitch(i)
  <2>1. job' = [[[b EXCEPT !.pc = "liquidating"] EXCEPT !.leg = "switch-sell"] EXCEPT !.machine = "RISK_APPROVED"]
    BY <1>6, <1>12 DEF ApproveSwitch, Decides
  <2>2. i.symbol \in Symbols
    BY <1>12 DEF ApproveSwitch, Intents
  <2> QED BY <1>2, <1>3, <1>8, <2>1, <2>2
<1>13. CASE ApproveTarget(i)
  <2>1. PICK p \in {"sizing", "failing"} :
          job' = [[[b EXCEPT !.pc = p] EXCEPT !.leg = "target"] EXCEPT !.machine = "RISK_APPROVED"]
    <3> DEFINE p == IF HeldSymbols \subseteq {i.symbol} THEN "sizing" ELSE "failing"
    <3>1. job' = [Decided(i) EXCEPT !.machine = "RISK_APPROVED", !.leg = "target", !.pc = p]
      BY <1>13 DEF ApproveTarget, Decides
    <3>2. p \in {"sizing", "failing"}
      OBVIOUS
    <3> HIDE DEF p
    <3>3. [b EXCEPT !.machine = "RISK_APPROVED", !.leg = "target", !.pc = p]
            = [[[b EXCEPT !.pc = p] EXCEPT !.leg = "target"] EXCEPT !.machine = "RISK_APPROVED"]
      BY <1>5 DEF JobRecords
    <3> QED BY <1>6, <3>1, <3>2, <3>3
  <2>2. i.symbol \in Symbols /\ job.snapshot.open = {}
    BY <1>13 DEF ApproveTarget, Intents, ActiveOrders
  <2> QED BY <1>2, <1>3, <1>8, <2>1, <2>2
<1> QED BY <1>1, <1>7, <1>10, <1>11, <1>12, <1>13

\* One field or several of the cycle, the rest stays.
LEMMA ToPlace ==
  ASSUME job \in JobRecords, NEW p \in Pcs, job' = [job EXCEPT !.pc = p]
  PROVE  /\ Stays(p) /\ job'.machine = job.machine /\ job'.snapshot = job.snapshot
         /\ job'.todo = job.todo /\ job'.at = job.at /\ job'.order = job.order
         /\ job'.report = job.report
BY WithPc DEF Stays

LEMMA BeginLiquidationIs ==
  ASSUME TypeInv, BeginLiquidation
  PROVE  /\ Stays("clearing") /\ job'.snapshot = SnapshotNow
         /\ job'.todo = {i \in SnapshotNow.open : orders[i].id.action = "BUY"}
<1> DEFINE t == {i \in SnapshotNow.open : orders[i].id.action = "BUY"}
           a == [job EXCEPT !.pc = "clearing"]
           b == [a EXCEPT !.snapshot = SnapshotNow]
           c == [b EXCEPT !.todo = t]
<1>1. job' = c
  BY DEF BeginLiquidation
<1>2. job \in JobRecords /\ "clearing" \in Pcs /\ SnapshotNow \in Snapshots
  BY SnapshotIs DEF TypeInv, JobTyped, Pcs
<1>3. t \in SUBSET Nat
  BY <1>2 DEF Snapshots
<1>4. /\ a \in JobRecords /\ a.pc = "clearing" /\ a.decision = job.decision /\ a.intent = job.intent
      /\ a.leg = job.leg
  BY <1>2, WithPc
<1> HIDE DEF t
<1>5. /\ b \in JobRecords /\ b.pc = "clearing" /\ b.decision = job.decision /\ b.intent = job.intent
      /\ b.leg = job.leg /\ b.snapshot = SnapshotNow
  <2> HIDE DEF a
  <2> QED BY <1>2, <1>4, WithSnapshot
<1>6. /\ c \in JobRecords /\ c.pc = "clearing" /\ c.decision = job.decision /\ c.intent = job.intent
      /\ c.leg = job.leg /\ c.snapshot = SnapshotNow /\ c.todo = t
  <2> HIDE DEF b
  <2> QED BY <1>3, <1>5, WithTodo
<1> HIDE DEF c
<1> QED BY <1>1, <1>6 DEF Stays, t

LEMMA RequestCancelIs ==
  ASSUME TypeInv, NEW i \in job.todo, RequestCancel(i)
  PROVE  Stays("cancelling") /\ job'.todo = job.todo /\ job'.at = i
<1> DEFINE a == [job EXCEPT !.pc = "cancelling"]
           b == [a EXCEPT !.at = i]
<1>1. job' = b
  BY DEF RequestCancel
<1>2. job \in JobRecords /\ "cancelling" \in Pcs /\ i \in Nat
  BY DEF TypeInv, JobTyped, Pcs, JobRecords
<1>3. /\ a \in JobRecords /\ a.pc = "cancelling" /\ a.decision = job.decision /\ a.intent = job.intent
      /\ a.leg = job.leg /\ a.todo = job.todo
  BY <1>2, WithPc
<1>4. /\ b \in JobRecords /\ b.pc = "cancelling" /\ b.decision = job.decision /\ b.intent = job.intent
      /\ b.leg = job.leg /\ b.todo = job.todo /\ b.at = i
  <2> HIDE DEF a
  <2> QED BY <1>2, <1>3, WithAt
<1> HIDE DEF b
<1> QED BY <1>1, <1>4 DEF Stays

LEMMA CancelReportsIs ==
  ASSUME TypeInv, NEW i \in Nat, NEW r \in Reports, CancelReports(i, r)
  PROVE  Stays("cancelled") /\ job'.todo = job.todo /\ job'.at = i /\ job'.report = r
<1> DEFINE a == [job EXCEPT !.pc = "cancelled"]
           b == [a EXCEPT !.at = i]
           c == [b EXCEPT !.report = r]
<1>1. job' = c
  BY DEF CancelReports
<1>2. job \in JobRecords /\ "cancelled" \in Pcs
  BY DEF TypeInv, JobTyped, Pcs
<1>3. /\ a \in JobRecords /\ a.pc = "cancelled" /\ a.decision = job.decision /\ a.intent = job.intent
      /\ a.leg = job.leg /\ a.todo = job.todo
  BY <1>2, WithPc
<1>4. /\ b \in JobRecords /\ b.pc = "cancelled" /\ b.decision = job.decision /\ b.intent = job.intent
      /\ b.leg = job.leg /\ b.todo = job.todo /\ b.at = i
  <2> HIDE DEF a
  <2> QED BY <1>3, WithAt
<1>5. /\ c \in JobRecords /\ c.pc = "cancelled" /\ c.decision = job.decision /\ c.intent = job.intent
      /\ c.leg = job.leg /\ c.todo = job.todo /\ c.at = i /\ c.report = r
  <2> HIDE DEF b
  <2> QED BY <1>4, WithReport
<1> HIDE DEF c
<1> QED BY <1>1, <1>5 DEF Stays

LEMMA SettleCancelIs ==
  ASSUME TypeInv, SettleCancel
  PROVE  /\ Stays(IF CancelConfirmed(job.report) THEN "clearing" ELSE "liquidated")
         /\ job'.snapshot = SnapshotNow /\ job'.todo = job.todo \ {job.at}
         /\ job'.report = job.report
<1> DEFINE p == IF CancelConfirmed(job.report) THEN "clearing" ELSE "liquidated"
           t == job.todo \ {job.at}
           a == [job EXCEPT !.snapshot = SnapshotNow]
           b == [a EXCEPT !.todo = t]
           c == [b EXCEPT !.at = 0]
           d == [c EXCEPT !.pc = p]
<1>1. job' = d
  BY DEF SettleCancel
<1>2. job \in JobRecords /\ p \in Pcs /\ SnapshotNow \in Snapshots
  BY SnapshotIs DEF TypeInv, JobTyped, Pcs
<1>3. t \in SUBSET Nat
  BY <1>2 DEF JobRecords
<1> HIDE DEF p, t
<1>4. /\ a \in JobRecords /\ a.decision = job.decision /\ a.intent = job.intent
      /\ a.leg = job.leg /\ a.snapshot = SnapshotNow /\ a.report = job.report
  BY <1>2, WithSnapshot
<1>5. /\ b \in JobRecords /\ b.decision = job.decision /\ b.intent = job.intent
      /\ b.leg = job.leg /\ b.snapshot = SnapshotNow /\ b.todo = t /\ b.report = job.report
  <2> HIDE DEF a
  <2> QED BY <1>3, <1>4, WithTodo
<1>6. /\ c \in JobRecords /\ c.decision = job.decision /\ c.intent = job.intent
      /\ c.leg = job.leg /\ c.snapshot = SnapshotNow /\ c.todo = t /\ c.report = job.report
  <2> HIDE DEF b
  <2> QED BY <1>5, WithAt
<1>7. /\ d \in JobRecords /\ d.decision = job.decision /\ d.intent = job.intent
      /\ d.leg = job.leg /\ d.snapshot = SnapshotNow /\ d.todo = t /\ d.report = job.report
      /\ d.pc = p
  <2> HIDE DEF c
  <2> QED BY <1>2, <1>6, WithPc
<1> HIDE DEF d
<1> QED BY <1>1, <1>7 DEF Stays, p, t

\* A leg is named by its decision, so that the order of a leg is its own.
Orders(s, side, n) ==
  /\ Stays("ordering") /\ job'.order \in Sent /\ job'.order.id \in OrderIds
  /\ job'.order.id.decision = job.decision /\ job'.order.id.leg = job.leg
  /\ job'.order.id.symbol = s /\ job'.order.id.action = side /\ job'.order.qty = n

LEMMA OrdersIs ==
  ASSUME TypeInv, job.pc \notin {"idle", "failing", "deciding", "ending"},
         NEW s \in Symbols, NEW side \in Sides, NEW n \in Nat, NEW x \in Int, NEW leg, leg = job.leg,
         job' = [job EXCEPT !.pc = "ordering",
                   !.order = [id |-> [decision |-> job.decision, leg |-> leg,
                                      symbol |-> s, action |-> side], qty |-> n, expected |-> x]]
  PROVE  Orders(s, side, n)
<1> DEFINE id == [decision |-> job.decision, leg |-> leg, symbol |-> s, action |-> side]
           o == [id |-> id, qty |-> n, expected |-> x]
           a == [job EXCEPT !.pc = "ordering"]
           b == [a EXCEPT !.order = o]
<1>1. job' = b
  OBVIOUS
<1>2. job \in JobRecords /\ "ordering" \in Pcs /\ job.decision \in 1 .. MaxDecisions /\ job.leg \in Legs
  BY LifecycleAssumption DEF TypeInv, JobTyped, Pcs, JobRecords
<1>3. /\ id \in OrderIds /\ id.decision = job.decision /\ id.leg = job.leg /\ id.symbol = s
      /\ id.action = side
  BY <1>2 DEF OrderIds
<1> HIDE DEF id
<1>4. o \in Sent /\ o.id = id /\ o.qty = n
  BY <1>3 DEF Sent
<1> HIDE DEF o
<1>5. /\ a \in JobRecords /\ a.pc = "ordering" /\ a.decision = job.decision /\ a.intent = job.intent
      /\ a.leg = job.leg
  BY <1>2, WithPc
<1>6. /\ b \in JobRecords /\ b.pc = "ordering" /\ b.decision = job.decision /\ b.intent = job.intent
      /\ b.leg = job.leg /\ b.order = o
  <2> HIDE DEF a
  <2> QED BY <1>4, <1>5, WithOrder
<1> HIDE DEF b
<1> QED BY <1>1, <1>3, <1>4, <1>6 DEF Stays, Orders

LEMMA BuildSellIs ==
  ASSUME TypeInv, BuildSell
  PROVE  \E s \in Symbols, n \in Nat : Orders(s, "SELL", n)
<1>1. PICK s \in HeldSymbols :
        job' = [job EXCEPT !.pc = "ordering",
                  !.order = [id |-> [decision |-> job.decision, leg |-> job.leg,
                                     symbol |-> s, action |-> "SELL"],
                             qty |-> job.snapshot.held[s], expected |-> job.snapshot.held[s]]]
  BY DEF BuildSell
<1>2. job.snapshot \in Snapshots
  BY DEF TypeInv, JobTyped, JobRecords
<1>3. s \in Symbols /\ job.snapshot.held[s] \in Int /\ job.snapshot.held[s] > 0
  BY <1>2 DEF HeldSymbols, Snapshots
<1>4. job.snapshot.held[s] \in Nat /\ "SELL" \in Sides
  BY <1>3 DEF Sides
<1>5. job.pc = "clearing"
  BY DEF BuildSell
<1> DEFINE n == job.snapshot.held[s]
<1>6. /\ n \in Nat /\ n \in Int
      /\ job' = [job EXCEPT !.pc = "ordering",
                  !.order = [id |-> [decision |-> job.decision, leg |-> job.leg,
                                     symbol |-> s, action |-> "SELL"],
                             qty |-> n, expected |-> n]]
  BY <1>1, <1>4
<1> HIDE DEF n
<1>7. Orders(s, "SELL", n)
  BY <1>3, <1>4, <1>5, <1>6, OrdersIs
<1> QED BY <1>3, <1>6, <1>7

LEMMA BuildTargetIs ==
  ASSUME TypeInv, BuildTarget
  PROVE  \E s \in Symbols, side \in Sides, n \in Nat : Orders(s, side, n)
<1>1. PICK side \in Sides, qty \in 1..MaxShares :
        job' = [job EXCEPT !.pc = "ordering",
                  !.order = [id |-> [decision |-> job.decision, leg |-> "target",
                                     symbol |-> job.intent.symbol, action |-> side],
                             qty |-> qty, expected |-> Expected(job.intent.symbol)]]
  BY DEF BuildTarget
<1>2. job.pc = "sizing" /\ job.leg = "target" /\ job.intent.symbol \in Symbols /\ job.snapshot \in Snapshots /\ qty \in Nat
  BY LifecycleAssumption DEF BuildTarget, TypeInv, JobTyped, JobRecords
<1> DEFINE s == job.intent.symbol
           x == Expected(s)
<1>3. x \in Int /\ s \in Symbols
  BY <1>2 DEF Expected, Snapshots
<1>4. job' = [job EXCEPT !.pc = "ordering",
                  !.order = [id |-> [decision |-> job.decision, leg |-> "target",
                                     symbol |-> s, action |-> side],
                             qty |-> qty, expected |-> x]]
  BY <1>1
<1> HIDE DEF s, x
<1>5. Orders(s, side, qty)
  BY <1>2, <1>3, <1>4, OrdersIs
<1> QED BY <1>2, <1>3, <1>5

LEMMA NothingToSellIs ==
  ASSUME TypeInv, NothingToSell
  PROVE  Stays("liquidated") /\ job'.snapshot = job.snapshot /\ job'.report = "none"
<1> DEFINE a == [job EXCEPT !.pc = "liquidated"]
           b == [a EXCEPT !.report = "none"]
<1>1. job' = b
  BY DEF NothingToSell
<1>2. job \in JobRecords /\ "liquidated" \in Pcs
  BY DEF TypeInv, JobTyped, Pcs
<1>3. /\ a \in JobRecords /\ a.pc = "liquidated" /\ a.decision = job.decision /\ a.intent = job.intent
      /\ a.leg = job.leg /\ a.snapshot = job.snapshot
  BY <1>2, WithPc
<1>4. /\ b \in JobRecords /\ b.pc = "liquidated" /\ b.decision = job.decision /\ b.intent = job.intent
      /\ b.leg = job.leg /\ b.snapshot = job.snapshot /\ b.report = "none"
  <2> HIDE DEF a
  <2> QED BY <1>3, WithReport
<1> HIDE DEF b
<1> QED BY <1>1, <1>4 DEF Stays

LEMMA SettleSellIs ==
  ASSUME TypeInv, SettleSell
  PROVE  Stays("liquidated") /\ job'.snapshot = SnapshotNow
<1> DEFINE r == IF Succeeded(job.report) THEN "none" ELSE job.report
           a == [job EXCEPT !.pc = "liquidated"]
           b == [a EXCEPT !.snapshot = SnapshotNow]
           c == [b EXCEPT !.report = r]
<1>1. job \in JobRecords /\ "liquidated" \in Pcs /\ SnapshotNow \in Snapshots
  BY SnapshotIs DEF TypeInv, JobTyped, Pcs
<1>2. r \in Reports \cup {"none"}
  BY <1>1 DEF JobRecords
<1>3. /\ a \in JobRecords /\ a.pc = "liquidated" /\ a.decision = job.decision /\ a.intent = job.intent
      /\ a.leg = job.leg /\ a.report = job.report
  BY <1>1, WithPc
<1>4. /\ b \in JobRecords /\ b.pc = "liquidated" /\ b.decision = job.decision /\ b.intent = job.intent
      /\ b.leg = job.leg /\ b.snapshot = SnapshotNow /\ b.report = job.report
  <2> HIDE DEF a
  <2> QED BY <1>1, <1>3, WithSnapshot
<1>5. job' = c
  <2>1. job' = [job EXCEPT !.pc = "liquidated", !.snapshot = SnapshotNow,
                           !.report = IF Succeeded(job.report) THEN "none" ELSE job.report]
    BY DEF SettleSell
  <2> QED BY <2>1
<1>6. /\ c \in JobRecords /\ c.pc = "liquidated" /\ c.decision = job.decision /\ c.intent = job.intent
      /\ c.leg = job.leg /\ c.snapshot = SnapshotNow
  <2> HIDE DEF b, r
  <2> QED BY <1>2, <1>4, WithReport
<1> HIDE DEF c
<1> QED BY <1>5, <1>6 DEF Stays

LEMMA SoldForSwitchIs ==
  ASSUME TypeInv, SoldForSwitch
  PROVE  /\ job' \in JobRecords /\ job'.pc = "sizing" /\ job'.leg = "target"
         /\ job'.decision = job.decision /\ job'.intent = job.intent
         /\ job'.machine = "RISK_APPROVED"
<1> DEFINE a == [job EXCEPT !.pc = "sizing"]
           b == [a EXCEPT !.leg = "target"]
           c == [b EXCEPT !.machine = "RISK_APPROVED"]
<1>1. job' = c
  BY DEF SoldForSwitch, Liquidated
<1>2. job \in JobRecords /\ "sizing" \in Pcs /\ "target" \in Legs /\ "RISK_APPROVED" \in Machines
  BY DEF TypeInv, JobTyped, Pcs, Legs, Machines
<1>3. a \in JobRecords /\ a.pc = "sizing" /\ a.decision = job.decision /\ a.intent = job.intent
  BY <1>2, WithPc
<1>4. /\ b \in JobRecords /\ b.pc = "sizing" /\ b.decision = job.decision /\ b.intent = job.intent
      /\ b.leg = "target"
  <2> HIDE DEF a
  <2> QED BY <1>2, <1>3, WithLeg
<1>5. /\ c \in JobRecords /\ c.pc = "sizing" /\ c.decision = job.decision /\ c.intent = job.intent
      /\ c.leg = "target" /\ c.machine = "RISK_APPROVED"
  <2> HIDE DEF b
  <2> QED BY <1>2, <1>4, WithMachine
<1> HIDE DEF c
<1> QED BY <1>1, <1>5

\* A report about the order under way, with or without a move to ORDER_PENDING.
LEMMA ReportedIs ==
  ASSUME TypeInv, NEW r \in Reports, NEW j \in {job, Pending},
         job' = [j EXCEPT !.pc = "reported", !.report = r]
  PROVE  Stays("reported") /\ job'.order = job.order /\ job'.report = r
<1>1. job \in JobRecords /\ "reported" \in Pcs /\ "ORDER_PENDING" \in Machines
  BY DEF TypeInv, JobTyped, Pcs, Machines
<1>2. /\ j \in JobRecords /\ j.decision = job.decision /\ j.intent = job.intent
      /\ j.leg = job.leg /\ j.order = job.order
  <2>1. CASE j = job
    BY <1>1, <2>1
  <2>2. CASE j = [job EXCEPT !.machine = "ORDER_PENDING"]
    BY <1>1, <2>2, WithMachine
  <2> QED BY <2>1, <2>2 DEF Pending
<1> DEFINE a == [j EXCEPT !.pc = "reported"]
           b == [a EXCEPT !.report = r]
<1>3. /\ a \in JobRecords /\ a.pc = "reported" /\ a.decision = job.decision /\ a.intent = job.intent
      /\ a.leg = job.leg /\ a.order = job.order
  BY <1>1, <1>2, WithPc
<1>4. /\ b \in JobRecords /\ b.pc = "reported" /\ b.decision = job.decision /\ b.intent = job.intent
      /\ b.leg = job.leg /\ b.order = job.order /\ b.report = r
  <2> HIDE DEF a
  <2> QED BY <1>3, WithReport
<1>5. job' = b
  OBVIOUS
<1> HIDE DEF b
<1> QED BY <1>4, <1>5 DEF Stays

LEMMA SaveOrderIs ==
  ASSUME TypeInv, SaveOrder
  PROVE  Stays("checking") /\ job'.order = job.order
<1> DEFINE a == [job EXCEPT !.machine = "ORDER_PENDING"]
           b == [a EXCEPT !.pc = "checking"]
<1>1. job' = b
  BY DEF SaveOrder, Pending
<1>2. job \in JobRecords /\ "checking" \in Pcs /\ "ORDER_PENDING" \in Machines
  BY DEF TypeInv, JobTyped, Pcs, Machines
<1>3. /\ a \in JobRecords /\ a.decision = job.decision /\ a.intent = job.intent
      /\ a.leg = job.leg /\ a.order = job.order
  BY <1>2, WithMachine
<1>4. /\ b \in JobRecords /\ b.pc = "checking" /\ b.decision = job.decision /\ b.intent = job.intent
      /\ b.leg = job.leg /\ b.order = job.order
  <2> HIDE DEF a
  <2> QED BY <1>2, <1>3, WithPc
<1> HIDE DEF b
<1> QED BY <1>1, <1>4 DEF Stays

LEMMA PassCheckIs ==
  ASSUME TypeInv, PassCheck
  PROVE  Stays("submitting") /\ job'.order = job.order
<1> DEFINE a == [job EXCEPT !.pc = "submitting"]
           b == [a EXCEPT !.snapshot = SnapshotNow]
<1>1. job' = b
  BY DEF PassCheck
<1>2. job \in JobRecords /\ "submitting" \in Pcs /\ SnapshotNow \in Snapshots
  BY SnapshotIs DEF TypeInv, JobTyped, Pcs
<1>3. /\ a \in JobRecords /\ a.pc = "submitting" /\ a.decision = job.decision /\ a.intent = job.intent
      /\ a.leg = job.leg /\ a.order = job.order
  BY <1>2, WithPc
<1>4. /\ b \in JobRecords /\ b.pc = "submitting" /\ b.decision = job.decision /\ b.intent = job.intent
      /\ b.leg = job.leg /\ b.order = job.order
  <2> HIDE DEF a
  <2> QED BY <1>2, <1>3, WithSnapshot
<1> HIDE DEF b
<1> QED BY <1>1, <1>4 DEF Stays

LEMMA SaveExecutionIs ==
  ASSUME TypeInv, SaveExecution
  PROVE  Stays("executed")
<1> DEFINE a == [job EXCEPT !.pc = "executed"]
           b == [a EXCEPT !.order = NoOrder]
<1>1. job' = b
  BY DEF SaveExecution
<1>2. job \in JobRecords /\ "executed" \in Pcs
  BY DEF TypeInv, JobTyped, Pcs
<1>3. a \in JobRecords /\ a.pc = "executed" /\ a.decision = job.decision /\ a.intent = job.intent /\ a.leg = job.leg
  BY <1>2, WithPc
<1>4. b \in JobRecords /\ b.pc = "executed" /\ b.decision = job.decision /\ b.intent = job.intent /\ b.leg = job.leg
  <2> HIDE DEF a
  <2> QED BY <1>3, WithOrder
<1> HIDE DEF b
<1> QED BY <1>1, <1>4 DEF Stays

LEMMA ReportIs ==
  ASSUME NEW o \in OrderRecords
  PROVE  StatusReport(o) \in Reports /\ AwaitReport(o) \in Reports
<1>1. StatusReport(o) \in Reports
  <2>1. o.seen \in {"absent", "Submitted", "Filled", "Cancelled", "Inactive", "Error"}
    BY DEF OrderRecords
  <2> QED BY <2>1 DEF StatusReport, Reports
<1>2. "TIMEOUT" \in Reports
  BY DEF Reports
<1> QED BY <1>1, <1>2 DEF AwaitReport

-----------------------------------------------------------------------------
(* What a step makes of the orders.                                            *)

\* All of an order but what the adapter has seen of it.
SameOrder(p, o) ==
  p.id = o.id /\ p.qty = o.qty /\ p.filled = o.filled /\ p.status = o.status

Still ==
  /\ held' = held /\ OrdersTyped' /\ DOMAIN orders' = DOMAIN orders
  /\ \A i \in DOMAIN orders :
       SameOrder(orders'[i], orders[i]) /\ (orders[i].concealed => orders'[i].concealed)

Viewed(seen, con) ==
  [i \in DOMAIN orders |-> [orders[i] EXCEPT !.seen = seen[i], !.concealed = con[i]]]

LEMMA ViewedIs ==
  ASSUME OrdersTyped, NEW S, S = DOMAIN orders, NEW seen \in [S -> Views], NEW con \in [S -> BOOLEAN],
         orders' = Viewed(seen, con)
  PROVE  /\ OrdersTyped' /\ DOMAIN orders' = DOMAIN orders
         /\ \A i \in DOMAIN orders :
              /\ SameOrder(orders'[i], orders[i])
              /\ orders'[i].seen = seen[i] /\ orders'[i].concealed = con[i]
<1>1. \A i \in DOMAIN orders :
        /\ orders'[i] \in OrderRecords /\ SameOrder(orders'[i], orders[i])
        /\ orders'[i].seen = seen[i] /\ orders'[i].concealed = con[i]
  <2> SUFFICES ASSUME NEW i \in DOMAIN orders
               PROVE  /\ orders'[i] \in OrderRecords /\ SameOrder(orders'[i], orders[i])
                      /\ orders'[i].seen = seen[i] /\ orders'[i].concealed = con[i]
    OBVIOUS
  <2> DEFINE o == orders[i]
             v == seen[i]
             c == con[i]
             p == [o EXCEPT !.seen = v]
             q == [p EXCEPT !.concealed = c]
  <2>1. o \in OrderRecords /\ orders'[i] = q
    BY ElementIn DEF OrdersTyped, Viewed
  <2>2. v \in Views /\ c \in BOOLEAN
    OBVIOUS
  <2>3. p \in OrderRecords /\ SameOrder(p, o) /\ p.seen = v
    <3> HIDE DEF o, v, c
    <3> QED BY <2>1, <2>2 DEF OrderRecords, Views, SameOrder
  <2>4. q \in OrderRecords /\ SameOrder(q, p) /\ q.seen = v /\ q.concealed = c
    <3> HIDE DEF p, v, c
    <3> QED BY <2>2, <2>3 DEF OrderRecords, SameOrder
  <2>5. SameOrder(q, o)
    BY <2>3, <2>4 DEF SameOrder
  <2> HIDE DEF q
  <2> QED BY <2>1, <2>4, <2>5
<1>2. orders \in Seq(OrderRecords)
  BY DEF OrdersTyped
<1>3. orders' \in [DOMAIN orders -> OrderRecords]
  <2> DEFINE p(i) == [orders[i] EXCEPT !.seen = seen[i], !.concealed = con[i]]
  <2>1. orders' = [i \in DOMAIN orders |-> p(i)]
    BY DEF Viewed
  <2> HIDE DEF p
  <2>2. DOMAIN orders' = DOMAIN orders /\ orders' = [i \in DOMAIN orders' |-> orders'[i]]
    BY <2>1
  <2> QED BY <1>1, <2>2
<1>4. orders' \in Seq(OrderRecords) /\ DOMAIN orders' = DOMAIN orders
  <2>1. Len(orders) \in Nat /\ DOMAIN orders = 1 .. Len(orders)
    BY <1>2
  <2> QED BY <1>3, <2>1
<1>5. \A i \in DOMAIN orders : orders'[i].filled <= orders'[i].qty
  BY <1>1 DEF OrdersTyped, SameOrder
<1> QED BY <1>1, <1>4, <1>5 DEF OrdersTyped

LEMMA UnseenIs ==
  ASSUME OrdersTyped, orders' = Unseen, held' = held
  PROVE  Still /\ \A i \in DOMAIN orders : orders'[i].seen = "absent" /\ orders'[i].concealed = orders[i].concealed
<1> DEFINE seen == [i \in DOMAIN orders |-> "absent"]
           con == [i \in DOMAIN orders |-> orders[i].concealed]
<1>0. \A i \in DOMAIN orders : orders[i] \in OrderRecords
  BY ElementIn DEF OrdersTyped
<1>1. orders' = Viewed(seen, con)
  <2>1. \A i \in DOMAIN orders :
          [orders[i] EXCEPT !.seen = "absent"]
            = [orders[i] EXCEPT !.seen = "absent", !.concealed = orders[i].concealed]
    BY <1>0 DEF OrderRecords
  <2> QED BY <2>1 DEF Unseen, Viewed
<1>2. seen \in [DOMAIN orders -> Views] /\ con \in [DOMAIN orders -> BOOLEAN]
  BY <1>0 DEF Views, OrderRecords
<1>3. \A i \in DOMAIN orders : seen[i] = "absent" /\ con[i] = orders[i].concealed
  OBVIOUS
<1> HIDE DEF seen, con
<1>4. /\ OrdersTyped' /\ DOMAIN orders' = DOMAIN orders
      /\ \A i \in DOMAIN orders :
           /\ SameOrder(orders'[i], orders[i])
           /\ orders'[i].seen = seen[i] /\ orders'[i].concealed = con[i]
  BY <1>1, <1>2, ViewedIs
<1> QED BY <1>3, <1>4 DEF Still

LEMMA RefreshedIs ==
  ASSUME OrdersTyped, orders' = Refreshed, held' = held
  PROVE  Still /\ \A i \in DOMAIN orders :
           /\ orders'[i].seen = Rebuilt(orders[i])
           /\ orders'[i].concealed = (orders[i].concealed \/ Conceals(orders[i]))
<1> DEFINE seen == [i \in DOMAIN orders |-> Rebuilt(orders[i])]
           con == [i \in DOMAIN orders |-> orders[i].concealed \/ Conceals(orders[i])]
<1>0. \A i \in DOMAIN orders : orders[i] \in OrderRecords
  BY ElementIn DEF OrdersTyped
<1>1. orders' = Viewed(seen, con)
  BY DEF Refreshed, Viewed
<1>2. seen \in [DOMAIN orders -> Views] /\ con \in [DOMAIN orders -> BOOLEAN]
  BY <1>0 DEF Views, Rebuilt, SeenAsOpen, OrderRecords
<1>3. \A i \in DOMAIN orders :
        seen[i] = Rebuilt(orders[i]) /\ con[i] = (orders[i].concealed \/ Conceals(orders[i]))
  OBVIOUS
<1> HIDE DEF seen, con
<1>4. /\ OrdersTyped' /\ DOMAIN orders' = DOMAIN orders
      /\ \A i \in DOMAIN orders :
              /\ SameOrder(orders'[i], orders[i])
              /\ orders'[i].seen = seen[i] /\ orders'[i].concealed = con[i]
  BY <1>1, <1>2, ViewedIs
<1> QED BY <1>3, <1>4 DEF Still

Refreshes == orders' = Refreshed /\ held' = held
Rests     == UNCHANGED <<orders, held>> /\ (job.pc # "idle" \/ job' = job)
Forgets   == orders' = Unseen /\ held' = held /\ job' = Idle
AtBroker  == \E i \in DOMAIN orders :
               Fill(i) \/ CancelAtBroker(i) \/ RefuseAtBroker(i) \/ WarnAboutOrder(i)

LEMMA LiquidateKinds ==
  ASSUME Liquidate
  PROVE  (Refreshes \/ Rests) /\ job.pc # "idle"
<1>1. CASE BeginLiquidation \/ SettleCancel \/ SettleSell
  BY <1>1 DEF BeginLiquidation, SettleCancel, SettleSell, Reconciles, worldAndRows, Refreshes
<1>2. CASE CancelReported
  BY <1>2 DEF CancelReported, CancelReports, Rests
<1>3. CASE \E i \in job.todo : RequestCancel(i) \/ CancelUnknown(i)
  BY <1>3 DEF RequestCancel, CancelUnknown, CancelReports, worldAndRows, Rests
<1>4. CASE BuildSell \/ NoQuoteToSell \/ NothingToSell
  BY <1>4 DEF BuildSell, NoQuoteToSell, NothingToSell, worldAndRows, Rests
<1>5. CASE LiquidationFailed \/ PositionsRemain \/ LiquidationConfirmed \/ SoldForSwitch
  BY <1>5 DEF LiquidationFailed, PositionsRemain, LiquidationConfirmed, SoldForSwitch, Liquidated,
     worldAndRows, Rests
<1> QED BY <1>1, <1>2, <1>3, <1>4, <1>5 DEF Liquidate

LEMMA ExecuteKinds ==
  ASSUME Execute
  PROVE  (Refreshes \/ Rests \/ PlaceOrder) /\ job.pc # "idle"
<1>1. CASE BuildTarget \/ NoTargetOrder \/ FoundAtBroker \/ BlockDuplicate \/ SaveOrder
  BY <1>1 DEF BuildTarget, NoTargetOrder, FoundAtBroker, BlockDuplicate, SaveOrder, worldAndRows, Rests
<1>2. CASE PassCheck
  BY <1>2 DEF PassCheck, Reconciles, worldAndRows, Refreshes
<1>3. CASE FailCheck
  BY <1>3 DEF FailCheck, Reconciles, Refreshes, Rests
<1>4. CASE SubmitRefused \/ AwaitOrder \/ SaveExecution \/ SettleTarget
  BY <1>4 DEF SubmitRefused, AwaitOrder, SaveExecution, SettleTarget, worldAndRows, Rests
<1>5. CASE PlaceOrder
  BY <1>5 DEF PlaceOrder
<1> QED BY <1>1, <1>2, <1>3, <1>4, <1>5 DEF Execute

\* A step refreshes the view of the orders, leaves the orders alone, drops the
\* view, places an order, or is the broker's.
LEMMA Kinds ==
  ASSUME TypeInv, [Next]_vars
  PROVE  Refreshes \/ Rests \/ Forgets \/ PlaceOrder \/ AtBroker
<1>1. CASE StartRun \/ RunAgain
  BY <1>1 DEF StartRun, RunAgain, Reconciles, Refreshes
<1>2. CASE Decide
  BY <1>2, DecideIs DEF Others, Rests
<1>3. CASE Liquidate \/ Execute
  BY <1>3, LiquidateKinds, ExecuteKinds
<1>4. CASE EndRun \/ RunRaises \/ Crash
  BY <1>4 DEF EndRun, RunRaises, Crash, worldAndRows, Forgets
<1>5. CASE PositionsAnswered \/ UNCHANGED vars
  BY <1>5 DEF PositionsAnswered, vars, Rests
<1> QED BY <1>1, <1>2, <1>3, <1>4, <1>5 DEF Next, AtBroker

\* What the broker does to one order.
BrokerTouches(i) ==
  /\ job' = job /\ UNCHANGED <<stored, deferred, decisions>>
  /\ OrdersTyped' /\ DOMAIN orders' = DOMAIN orders
  /\ \A k \in DOMAIN orders \ {i} : orders'[k] = orders[k]
  /\ orders[i].status = "working"
  /\ orders'[i].id = orders[i].id /\ orders'[i].concealed = orders[i].concealed
  /\ job.pc # "idle" => orders'[i].seen # "absent"
  /\ ~ (orders'[i].status = "working" /\ orders'[i].seen \in {"Filled", "Cancelled"})
  /\ held' \in [Symbols -> Int]
  /\ \A s \in Symbols : s # orders[i].id.symbol => held'[s] = held[s]
  /\ orders[i].id.action # "BUY" => \A s \in Symbols : held'[s] <= held[s]
  /\ UNCHANGED <<between, positions>> /\ late' \in BOOLEAN /\ (late => late')
  /\ late' => late \/ (between /\ orders[i].id.action = "BUY")
  /\ between /\ ~ late' => \A s \in Symbols : held'[s] <= held[s]

LEMMA OneOrder ==
  ASSUME OrdersTyped, NEW i \in DOMAIN orders, NEW p \in OrderRecords, p.filled <= p.qty,
         orders' = [orders EXCEPT ![i] = p]
  PROVE  /\ OrdersTyped' /\ DOMAIN orders' = DOMAIN orders /\ orders'[i] = p
         /\ \A k \in DOMAIN orders \ {i} : orders'[k] = orders[k]
<1>1. orders \in Seq(OrderRecords) /\ \A k \in DOMAIN orders : orders[k].filled <= orders[k].qty
  BY DEF OrdersTyped
<1>2. /\ orders' \in Seq(OrderRecords) /\ DOMAIN orders' = DOMAIN orders /\ orders'[i] = p
      /\ \A k \in DOMAIN orders \ {i} : orders'[k] = orders[k]
  BY <1>1
<1>3. \A k \in DOMAIN orders' : orders'[k].filled <= orders'[k].qty
  BY <1>1, <1>2
<1> QED BY <1>2, <1>3 DEF OrdersTyped

LEMMA ToldIs ==
  ASSUME NEW v \in Views \ {"absent"}
  PROVE  Told(v) \in Views /\ Told(v) \in {v, "absent"} /\ (job.pc # "idle" => Told(v) # "absent")
BY DEF Told, Views

LEMMA FillIs ==
  ASSUME TypeInv, NEW i \in DOMAIN orders, Fill(i)
  PROVE  BrokerTouches(i)
<1> DEFINE o == orders[i]
<1>1. o \in OrderRecords /\ o.status = "working" /\ o.filled <= o.qty /\ OrdersTyped
  BY ElementIn DEF TypeInv, OrdersTyped, Fill, Broker
<1>2. o.qty \in Nat /\ o.filled \in Nat /\ o.id \in OrderIds
  BY <1>1 DEF OrderRecords
<1>3. PICK n \in 1 .. (o.qty - o.filled) :
        LET done == o.filled + n = o.qty
            sign == IF o.id.action = "BUY" THEN 1 ELSE -1
        IN  /\ orders' = [orders EXCEPT ![i].filled = @ + n,
                                        ![i].status = IF done THEN "filled" ELSE @,
                                        ![i].seen = Told(IF done THEN "Filled" ELSE "Submitted")]
            /\ held' = [held EXCEPT ![o.id.symbol] = @ + sign * n]
  BY DEF Fill
<1> DEFINE done == o.filled + n = o.qty
           f == o.filled + n
           st == IF done THEN "filled" ELSE o.status
           v == Told(IF done THEN "Filled" ELSE "Submitted")
           a == [o EXCEPT !.filled = f]
           b == [a EXCEPT !.status = st]
           c == [b EXCEPT !.seen = v]
           d == IF o.id.action = "BUY" THEN n ELSE -n
<1>4. n \in Nat /\ n > 0 /\ f \in Nat /\ f <= o.qty
  BY <1>1, <1>2
<1>5. orders' = [orders EXCEPT ![i] = c]
  BY <1>1, <1>3
<1>6. held' = [held EXCEPT ![o.id.symbol] = held[o.id.symbol] + d]
  <2>1. held \in [Symbols -> Int] /\ o.id.symbol \in Symbols
    BY <1>2 DEF TypeInv, OrderIds
  <2> DEFINE sign == IF o.id.action = "BUY" THEN 1 ELSE -1
             e == sign * n
  <2>2. held' = [held EXCEPT ![o.id.symbol] = @ + e]
    BY <1>3
  <2>3. e = d
    <3>1. 1 * n = n /\ (-1) * n = -n
      BY <1>4
    <3> QED BY <3>1
  <2> HIDE DEF e, d
  <2> QED BY <2>1, <2>2, <2>3
<1>7. /\ v \in Views /\ (job.pc # "idle" => v # "absent")
      /\ ~ done => v \in {"Submitted", "absent"}
  BY ToldIs DEF Views
<1>8. st \in {"working", "filled"} /\ (done => st = "filled") /\ (~ done => st = "working")
  BY <1>1
<1> HIDE DEF o, done, f, st, v, d
<1>9. a \in OrderRecords /\ a.id = o.id /\ a.qty = o.qty /\ a.filled = f /\ a.concealed = o.concealed
  BY <1>1, <1>4 DEF OrderRecords
<1>10. /\ b \in OrderRecords /\ b.id = o.id /\ b.qty = o.qty /\ b.filled = f
       /\ b.concealed = o.concealed /\ b.status = st
  <2> HIDE DEF a
  <2> QED BY <1>8, <1>9 DEF OrderRecords
<1>11. /\ c \in OrderRecords /\ c.id = o.id /\ c.qty = o.qty /\ c.filled = f
       /\ c.concealed = o.concealed /\ c.status = st /\ c.seen = v
  <2> HIDE DEF b
  <2> QED BY <1>7, <1>10 DEF OrderRecords, Views
<1> HIDE DEF c
<1>12. /\ OrdersTyped' /\ DOMAIN orders' = DOMAIN orders /\ orders'[i] = c
       /\ \A k \in DOMAIN orders \ {i} : orders'[k] = orders[k]
  BY <1>1, <1>4, <1>5, <1>11, OneOrder
<1>13. d \in Int /\ (o.id.action # "BUY" => d <= 0)
  BY <1>4 DEF d
<1>14. /\ held' \in [Symbols -> Int]
       /\ \A s \in Symbols : s # o.id.symbol => held'[s] = held[s]
       /\ o.id.action # "BUY" => \A s \in Symbols : held'[s] <= held[s]
  <2>1. held \in [Symbols -> Int] /\ o.id.symbol \in Symbols
    BY <1>2 DEF TypeInv, OrderIds
  <2> QED BY <1>6, <1>13, <2>1
<1>15. ~ (c.status = "working" /\ c.seen \in {"Filled", "Cancelled"})
  BY <1>7, <1>8, <1>11
<1>16. job' = job /\ UNCHANGED <<stored, deferred, decisions>>
  BY DEF Fill, Broker
<1>17. o = orders[i]
  BY DEF o
<1>18. /\ UNCHANGED <<between, positions>> /\ late' \in BOOLEAN /\ (late => late')
       /\ late' <=> late \/ (between /\ o.id.action = "BUY")
  BY <1>17 DEF Fill, Broker, TypeInv, RefreshTyped
<1> QED BY <1>1, <1>7, <1>11, <1>12, <1>14, <1>15, <1>16, <1>17, <1>18 DEF BrokerTouches

\* The broker ends an order, or says something of it.
LEMMA SaysIs ==
  ASSUME TypeInv, NEW i \in DOMAIN orders, Broker(i), held' = held, late' = late,
         NEW st \in {"working", "cancelled", "refused"},
         NEW v \in {"Cancelled", "Inactive", "Error"}, st = "working" => v = "Error",
         orders' = [orders EXCEPT ![i] = [[orders[i] EXCEPT !.status = st] EXCEPT !.seen = Told(v)]]
  PROVE  BrokerTouches(i)
<1> DEFINE o == orders[i]
           w == Told(v)
           a == [o EXCEPT !.status = st]
           b == [a EXCEPT !.seen = w]
<1>1. o \in OrderRecords /\ o.status = "working" /\ o.filled <= o.qty /\ OrdersTyped
  BY ElementIn DEF TypeInv, OrdersTyped, Broker
<1>2. w \in Views /\ w \in {v, "absent"} /\ (job.pc # "idle" => w # "absent")
  BY ToldIs DEF Views
<1>3. orders' = [orders EXCEPT ![i] = b]
  OBVIOUS
<1>4. o = orders[i]
  OBVIOUS
<1> HIDE DEF o, w
<1>5. /\ a \in OrderRecords /\ a.id = o.id /\ a.qty = o.qty /\ a.filled = o.filled
      /\ a.concealed = o.concealed /\ a.status = st
  BY <1>1 DEF OrderRecords
<1>6. /\ b \in OrderRecords /\ b.id = o.id /\ b.qty = o.qty /\ b.filled = o.filled
      /\ b.concealed = o.concealed /\ b.status = st /\ b.seen = w
  <2> HIDE DEF a
  <2> QED BY <1>2, <1>5 DEF OrderRecords, Views
<1> HIDE DEF b
<1>7. b.filled <= b.qty
  BY <1>1, <1>6
<1>8. /\ OrdersTyped' /\ DOMAIN orders' = DOMAIN orders /\ orders'[i] = b
      /\ \A k \in DOMAIN orders \ {i} : orders'[k] = orders[k]
  BY <1>1, <1>3, <1>6, <1>7, OneOrder
<1>9. /\ held' \in [Symbols -> Int]
      /\ \A s \in Symbols : s # o.id.symbol => held'[s] = held[s]
      /\ o.id.action # "BUY" => \A s \in Symbols : held'[s] <= held[s]
  BY DEF TypeInv
<1>10. ~ (b.status = "working" /\ b.seen \in {"Filled", "Cancelled"})
  BY <1>2, <1>6
<1>11. job' = job /\ UNCHANGED <<stored, deferred, decisions>>
  BY DEF Broker
<1>12. /\ UNCHANGED <<between, positions>> /\ late' \in BOOLEAN /\ late' = late
       /\ \A s \in Symbols : held'[s] <= held[s]
  BY DEF Broker, TypeInv, RefreshTyped
<1> QED BY <1>1, <1>2, <1>4, <1>6, <1>8, <1>9, <1>10, <1>11, <1>12 DEF BrokerTouches

LEMMA BrokerIs ==
  ASSUME TypeInv, AtBroker
  PROVE  \E i \in DOMAIN orders : BrokerTouches(i)
<1>1. PICK i \in DOMAIN orders :
        Fill(i) \/ CancelAtBroker(i) \/ RefuseAtBroker(i) \/ WarnAboutOrder(i)
  BY DEF AtBroker
<1>2. orders[i] \in OrderRecords /\ orders \in Seq(OrderRecords)
  BY ElementIn DEF TypeInv, OrdersTyped
<1>3. CASE Fill(i)
  BY <1>3, FillIs
<1>4. CASE CancelAtBroker(i)
  <2>1. PICK v \in {"Cancelled", "Error"} :
          orders' = [orders EXCEPT ![i].status = "cancelled", ![i].seen = Told(v)]
    BY <1>4 DEF CancelAtBroker
  <2>2. orders' = [orders EXCEPT ![i] = [[orders[i] EXCEPT !.status = "cancelled"] EXCEPT !.seen = Told(v)]]
    BY <1>2, <2>1
  <2> QED BY <1>4, <2>2, SaysIs DEF CancelAtBroker
<1>5. CASE RefuseAtBroker(i)
  <2>1. orders' = [orders EXCEPT ![i] = [[orders[i] EXCEPT !.status = "refused"] EXCEPT !.seen = Told("Inactive")]]
    BY <1>2, <1>5 DEF RefuseAtBroker
  <2> QED BY <1>5, <2>1, SaysIs DEF RefuseAtBroker
<1>6. CASE WarnAboutOrder(i)
  <2>1. orders' = [orders EXCEPT ![i] = [orders[i] EXCEPT !.seen = Told("Error")]]
    BY <1>2, <1>6 DEF WarnAboutOrder
  <2>2. orders[i].status = "working" /\ Broker(i) /\ held' = held /\ late' = late
    BY <1>6 DEF WarnAboutOrder, Broker
  <2>3. [[orders[i] EXCEPT !.status = "working"] EXCEPT !.seen = Told("Error")] = [orders[i] EXCEPT !.seen = Told("Error")]
    BY <1>2, <2>2 DEF OrderRecords
  <2>4. orders' = [orders EXCEPT ![i] = [[orders[i] EXCEPT !.status = "working"] EXCEPT !.seen = Told("Error")]]
    BY <2>1, <2>3
  <2> QED BY <2>2, <2>4, SaysIs
<1> QED BY <1>1, <1>3, <1>4, <1>5, <1>6

\* The order that is placed is the last one.
LEMMA PlaceIs ==
  ASSUME TypeInv, PlaceOrder
  PROVE  /\ OrdersTyped' /\ DOMAIN orders' = 1 .. Len(orders) + 1 /\ held' = held
         /\ \A i \in DOMAIN orders : i \in DOMAIN orders' /\ i < Len(orders) + 1 /\ orders'[i] = orders[i]
         /\ LET o == orders'[Len(orders) + 1]
            IN  /\ o.id = job.order.id /\ o.filled = 0 /\ o.status = "working"
                /\ o.seen = "Submitted" /\ ~ o.concealed
         /\ Stays("awaiting") /\ job'.order = job.order /\ UNCHANGED <<stored, deferred, decisions>>
<1> DEFINE o == [id |-> job.order.id, qty |-> job.order.qty, filled |-> 0,
                 status |-> "working", seen |-> "Submitted", concealed |-> FALSE]
<1>1. orders' = Append(orders, o) /\ job' = [job EXCEPT !.pc = "awaiting"] /\ job.pc = "submitting"
  BY DEF PlaceOrder
<1>2. job \in JobRecords /\ job.order \in Sent /\ "awaiting" \in Pcs
  BY <1>1 DEF TypeInv, JobTyped, OrderPlaces, Pcs
<1>3. o \in OrderRecords /\ o.filled <= o.qty
  BY <1>2 DEF Sent, OrderRecords
<1>4. /\ o.id = job.order.id /\ o.filled = 0 /\ o.status = "working"
      /\ o.seen = "Submitted" /\ ~ o.concealed
  OBVIOUS
<1>5. orders \in Seq(OrderRecords) /\ \A k \in DOMAIN orders : orders[k].filled <= orders[k].qty
  BY DEF TypeInv, OrdersTyped
<1> HIDE DEF o
<1>6. /\ orders' \in Seq(OrderRecords) /\ DOMAIN orders' = 1 .. Len(orders) + 1
      /\ orders'[Len(orders) + 1] = o
      /\ \A k \in DOMAIN orders : k \in DOMAIN orders' /\ k < Len(orders) + 1 /\ orders'[k] = orders[k]
  BY <1>1, <1>3, <1>5
<1>7. \A k \in DOMAIN orders' : k \in DOMAIN orders \/ k = Len(orders) + 1
  BY <1>5, <1>6
<1>8. OrdersTyped'
  BY <1>3, <1>5, <1>6, <1>7 DEF OrdersTyped
<1>9. Stays("awaiting") /\ job'.order = job.order
  BY <1>1, <1>2, ToPlace
<1> QED BY <1>4, <1>6, <1>8, <1>9 DEF PlaceOrder, worldAndRows

-----------------------------------------------------------------------------
(* The types hold.                                                             *)

LEMMA InitTyped == Init => TypeInv
<1> SUFFICES ASSUME Init PROVE TypeInv
  OBVIOUS
<1>1. PICK s \in Symbols, n \in {0, MaxShares} : held = [t \in Symbols |-> IF t = s THEN n ELSE 0]
  BY DEF Init
<1>2. held \in [Symbols -> Int]
  BY <1>1, LifecycleAssumption
<1>3. OrdersTyped
  BY DEF Init, OrdersTyped
<1>4. JobTyped
  BY IdleIs DEF Init, JobTyped, OrderPlaces, Clearing
<1>5. decisions \in 0 .. MaxDecisions /\ deferred = NoDeferral
  BY LifecycleAssumption DEF Init
<1>6. RefreshTyped
  BY NoPositionsIs DEF Init, RefreshTyped
<1> QED BY <1>2, <1>3, <1>4, <1>5, <1>6 DEF TypeInv

LEMMA OrdersNext ==
  ASSUME TypeInv, [Next]_vars
  PROVE  /\ held' \in [Symbols -> Int] /\ OrdersTyped'
         /\ DOMAIN orders \subseteq DOMAIN orders'
         /\ (~ PlaceOrder => DOMAIN orders' = DOMAIN orders)
<1>1. CASE Refreshes
  BY <1>1, RefreshedIs DEF Refreshes, Still, TypeInv
<1>2. CASE Rests
  BY <1>2 DEF Rests, TypeInv, OrdersTyped
<1>3. CASE Forgets
  BY <1>3, UnseenIs DEF Forgets, Still, TypeInv
<1>4. CASE PlaceOrder
  <2>1. OrdersTyped' /\ held' = held /\ \A i \in DOMAIN orders : i \in DOMAIN orders'
    BY <1>4, PlaceIs
  <2> QED BY <1>4, <2>1 DEF TypeInv
<1>5. CASE AtBroker
  BY <1>5, BrokerIs DEF BrokerTouches
<1> QED BY <1>1, <1>2, <1>3, <1>4, <1>5, Kinds

\* The refresh under way: the positions are answered, the refresh ends, or
\* the step is not at a place that refreshes, or is the broker's.
LEMMA RefreshKinds ==
  ASSUME TypeInv, [Next]_vars
  PROVE  \/ PositionsAnswered
         \/ RefreshEnds
         \/ UNCHANGED <<held, refresh>> /\ (job' = job \/ ~ Refreshing)
         \/ AtBroker
<1>1. CASE StartRun \/ RunAgain \/ BeginLiquidation \/ SettleCancel \/ SettleSell \/ PassCheck
  BY <1>1 DEF StartRun, RunAgain, BeginLiquidation, SettleCancel, SettleSell, PassCheck, Reconciles
<1>2. CASE FailCheck \/ Crash
  BY <1>2 DEF FailCheck, Crash, Reconciles
<1>3. CASE Decide
  BY <1>3 DEF Decide, WaitForBroker, BlockedByOrder, NotApproved, HaltRisk, ApproveCash, ApproveSwitch,
     ApproveTarget, Decides, Refreshing
<1>4. CASE CancelReported \/ \E i \in job.todo : RequestCancel(i) \/ CancelUnknown(i)
  BY <1>4 DEF CancelReported, CancelReports, RequestCancel, CancelUnknown, worldAndRows, Refreshing
<1>5. CASE BuildSell \/ NoQuoteToSell \/ NothingToSell
  BY <1>5 DEF BuildSell, NoQuoteToSell, NothingToSell, worldAndRows, Refreshing
<1>6. CASE LiquidationFailed \/ PositionsRemain \/ LiquidationConfirmed \/ SoldForSwitch
  BY <1>6 DEF LiquidationFailed, PositionsRemain, LiquidationConfirmed, SoldForSwitch, Liquidated,
     worldAndRows, Refreshing
<1>7. CASE BuildTarget \/ NoTargetOrder \/ FoundAtBroker \/ BlockDuplicate \/ SaveOrder
  BY <1>7 DEF BuildTarget, NoTargetOrder, FoundAtBroker, BlockDuplicate, SaveOrder, worldAndRows, Refreshing
<1>8. CASE SubmitRefused \/ PlaceOrder \/ AwaitOrder \/ SaveExecution \/ SettleTarget
  BY <1>8 DEF SubmitRefused, PlaceOrder, AwaitOrder, SaveExecution, SettleTarget, worldAndRows, Refreshing
<1>9. CASE EndRun \/ RunRaises
  BY <1>9 DEF EndRun, RunRaises, worldAndRows, Refreshing
<1>10. CASE UNCHANGED vars
  BY <1>10 DEF vars
<1> QED BY <1>1, <1>2, <1>3, <1>4, <1>5, <1>6, <1>7, <1>8, <1>9, <1>10
    DEF Next, Liquidate, Execute, AtBroker

LEMMA RefreshNext ==
  ASSUME TypeInv, [Next]_vars
  PROVE  RefreshTyped'
<1>1. CASE PositionsAnswered
  BY <1>1 DEF PositionsAnswered, TypeInv, RefreshTyped
<1>2. CASE RefreshEnds
  BY <1>2, NoPositionsIs DEF RefreshEnds, TypeInv, RefreshTyped
<1>3. CASE UNCHANGED refresh
  BY <1>3 DEF refresh, TypeInv, RefreshTyped
<1>4. CASE AtBroker
  BY <1>4, BrokerIs DEF BrokerTouches, TypeInv, RefreshTyped
<1> QED BY <1>1, <1>2, <1>3, <1>4, RefreshKinds DEF refresh

Busy == Pcs \ {"idle", "failing", "deciding", "ending"}

\* The cycle goes on to a place, with what that place is about.
LEMMA StaysTyped ==
  ASSUME TypeInv, job.pc \in Busy, NEW p \in Busy \ {"sizing"}, Stays(p),
         p \in OrderPlaces => job'.order \in Sent,
         p \in {"cancelled", "reported"} => job'.report \in Reports,
         p \in Clearing => job'.todo \subseteq DOMAIN orders',
         p \in {"cancelling", "cancelled"} => job'.at \in DOMAIN orders'
  PROVE  JobTyped'
BY DEF TypeInv, JobTyped, Stays, Busy

LEMMA EndsTyped ==
  ASSUME TypeInv, job.pc \in Busy, NEW to, Ends(job, job', to)
  PROVE  JobTyped'
BY DEF TypeInv, JobTyped, Ends, Busy, OrderPlaces, Clearing

\* The steps that end the cycle, and the steps that report on an order of it.
Ending    == \/ NoQuoteToSell \/ LiquidationFailed \/ PositionsRemain \/ LiquidationConfirmed
             \/ NoTargetOrder \/ SettleTarget
Reporting == FoundAtBroker \/ BlockDuplicate \/ FailCheck \/ SubmitRefused \/ AwaitOrder

LEMMA EndingIs ==
  ASSUME TypeInv, Ending
  PROVE  job.pc \in Busy /\ \E to \in Machines : Ends(job, job', to)
<1>1. job.pc \in {"clearing", "liquidated", "sizing", "executed"}
  BY DEF Ending, NoQuoteToSell, LiquidationFailed, PositionsRemain, LiquidationConfirmed, Liquidated,
     NoTargetOrder, SettleTarget
<1>2. PICK to \in Machines : job' = Moved(job, to)
  <2>1. {"WAITING_FOR_BROKER", "ERROR", "FILLED", "RISK_HALTED", "PARTIALLY_FILLED", "REJECTED"} \subseteq Machines
        /\ job.machine \in Machines
    BY DEF Machines, TypeInv, JobTyped, JobRecords
  <2>2. ExecutionState(job.machine, job.report) \in Machines
    BY <2>1 DEF ExecutionState
  <2>3. CASE NoTargetOrder \/ SettleTarget
    BY <2>1, <2>2, <2>3 DEF NoTargetOrder, SettleTarget
  <2>4. CASE NoQuoteToSell \/ LiquidationFailed \/ PositionsRemain \/ LiquidationConfirmed
    BY <2>1, <2>2, <2>4 DEF NoQuoteToSell, LiquidationFailed, PositionsRemain, LiquidationConfirmed, Liquidated
  <2> QED BY <2>3, <2>4 DEF Ending
<1>3. Ends(job, job', to)
  BY <1>2, MovedIs DEF TypeInv, JobTyped
<1> QED BY <1>1, <1>3 DEF Busy, Pcs

LEMMA ReportingIs ==
  ASSUME TypeInv, Reporting
  PROVE  /\ job.pc \in {"ordering", "checking", "submitting", "awaiting"}
         /\ Stays("reported") /\ job'.order = job.order /\ job'.report \in Reports
<1>1. job.pc \in {"ordering", "checking", "submitting", "awaiting"}
  BY DEF Reporting, FoundAtBroker, BlockDuplicate, FailCheck, SubmitRefused, AwaitOrder
<1>2. PICK r \in Reports, j \in {job, Pending} : job' = [j EXCEPT !.pc = "reported", !.report = r]
  <2>1. {"ERROR", "REJECTED"} \subseteq Reports
    BY DEF Reports
  <2>2. \A i \in DOMAIN orders : StatusReport(orders[i]) \in Reports /\ AwaitReport(orders[i]) \in Reports
    BY ElementIn, ReportIs DEF TypeInv, OrdersTyped
  <2>3. CASE FoundAtBroker
    BY <2>2, <2>3 DEF FoundAtBroker, Mapped
  <2>4. CASE AwaitOrder
    BY <2>2, <2>4 DEF AwaitOrder, Mapped
  <2>5. CASE BlockDuplicate \/ FailCheck \/ SubmitRefused
    BY <2>1, <2>5 DEF BlockDuplicate, FailCheck, SubmitRefused
  <2> QED BY <2>3, <2>4, <2>5 DEF Reporting
<1>3. Stays("reported") /\ job'.order = job.order /\ job'.report = r
  BY <1>2, ReportedIs
<1> QED BY <1>1, <1>3

\* A cancellation reports what its order is seen to be, or is refused.
LEMMA CancelIs ==
  ASSUME TypeInv, CancelReported \/ \E i \in job.todo : CancelUnknown(i)
  PROVE  /\ job.pc \in {"clearing", "cancelling"} /\ job.todo \subseteq DOMAIN orders
         /\ Stays("cancelled") /\ job'.todo = job.todo /\ job'.at \in DOMAIN orders
         /\ job'.report \in Reports /\ job'.report \in {AwaitReport(orders[job'.at]), "REJECTED"}
         /\ UNCHANGED <<held, orders>>
<1>1. /\ job.pc \in {"clearing", "cancelling"} /\ job.todo \subseteq DOMAIN orders
      /\ job.pc = "cancelling" => job.at \in DOMAIN orders
  BY DEF CancelUnknown, CancelReported, TypeInv, JobTyped, Clearing
<1>2. \E i \in DOMAIN orders, r \in Reports :
        CancelReports(i, r) /\ r \in {AwaitReport(orders[i]), "REJECTED"}
  <2>1. CASE CancelReported
    <3>1. job.at \in DOMAIN orders /\ CancelReports(job.at, AwaitReport(orders[job.at]))
      BY <1>1, <2>1 DEF CancelReported
    <3>2. orders[job.at] \in OrderRecords
      BY <3>1, ElementIn DEF TypeInv, OrdersTyped
    <3> QED BY <3>1, <3>2, ReportIs
  <2>2. CASE \E i \in job.todo : CancelUnknown(i)
    <3>1. "REJECTED" \in Reports
      BY DEF Reports
    <3> QED BY <1>1, <2>2, <3>1 DEF CancelUnknown
  <2> QED BY <2>1, <2>2
<1>3. PICK i \in DOMAIN orders, r \in Reports :
        CancelReports(i, r) /\ r \in {AwaitReport(orders[i]), "REJECTED"}
  BY <1>2
<1>4. i \in Nat
  BY DEF TypeInv, OrdersTyped
<1>5. Stays("cancelled") /\ job'.todo = job.todo /\ job'.at = i /\ job'.report = r
  BY <1>3, <1>4, CancelReportsIs
<1> QED BY <1>1, <1>3, <1>5 DEF CancelReports

LEMMA DecideTyped ==
  ASSUME TypeInv, Decide
  PROVE  JobTyped'
<1>1. job.decision # 0 /\ job.pc = "deciding"
  BY DecideIs DEF TypeInv, JobTyped
<1>2. "target" \in Legs /\ "risk-halt" \in Legs /\ "cash" \in Legs /\ "switch-sell" \in Legs
  BY DEF Legs
<1>3. job' \in JobRecords
  BY DecideIs
<1>4. CASE job'.pc = "failing"
  BY <1>3, <1>4 DEF JobTyped, OrderPlaces, Clearing
<1>5. CASE job'.pc = "ending" /\ job'.decision = job.decision /\ job'.intent \in Intents
  BY <1>1, <1>3, <1>5 DEF JobTyped, OrderPlaces, Clearing
<1>6. CASE job'.decision = job.decision /\ job'.intent \in Intents
           /\ job'.pc = "liquidating" /\ job'.leg \in {"risk-halt", "cash"}
  BY <1>1, <1>2, <1>3, <1>6 DEF JobTyped, OrderPlaces, Clearing
<1>7. CASE job'.decision = job.decision /\ job'.intent \in Intents /\ job'.pc = "liquidating"
           /\ job'.leg = "switch-sell" /\ job'.intent.symbol \in Symbols
  BY <1>1, <1>2, <1>3, <1>7 DEF JobTyped, OrderPlaces, Clearing
<1>8. CASE job'.decision = job.decision /\ job'.intent \in Intents
           /\ job'.pc = "sizing" /\ job'.leg = "target" /\ job'.intent.symbol \in Symbols
  BY <1>1, <1>2, <1>3, <1>8 DEF JobTyped, OrderPlaces, Clearing
<1> QED BY <1>4, <1>5, <1>6, <1>7, <1>8, DecideIs

LEMMA LiquidateTyped ==
  ASSUME TypeInv, Liquidate
  PROVE  JobTyped'
<1>0. /\ DOMAIN orders' = DOMAIN orders /\ [Next]_vars
      /\ {"clearing", "cancelling", "cancelled", "liquidated", "ordering"} \subseteq Busy \ {"sizing"}
      /\ {"liquidating", "clearing", "cancelling", "cancelled", "liquidated", "executed"} \subseteq Busy
  <2>1. [Next]_vars /\ ~ PlaceOrder
    BY DEF Next, PlaceOrder, Liquidate, BeginLiquidation, CancelReported, SettleCancel, RequestCancel,
       CancelUnknown, BuildSell, NoQuoteToSell, NothingToSell, SettleSell, LiquidationFailed,
       PositionsRemain, LiquidationConfirmed, SoldForSwitch, Liquidated
  <2> QED BY <2>1, OrdersNext DEF Busy, Pcs
<1> DEFINE o == orders
<1>1. CASE BeginLiquidation
  <2>1. job.pc = "liquidating"
    BY <1>1 DEF BeginLiquidation
  <2>2. Stays("clearing") /\ job'.todo \subseteq DOMAIN orders
    BY <1>1, BeginLiquidationIs, SnapshotIs
  <2> QED BY <1>0, <2>1, <2>2, StaysTyped DEF OrderPlaces
<1>2. CASE \E i \in job.todo : RequestCancel(i)
  <2>1. PICK i \in job.todo : RequestCancel(i)
    BY <1>2
  <2>2. job.pc = "clearing" /\ job.todo \subseteq DOMAIN orders
    BY <2>1 DEF RequestCancel, TypeInv, JobTyped, Clearing
  <2>3. Stays("cancelling") /\ job'.todo = job.todo /\ job'.at = i
    BY <2>1, RequestCancelIs
  <2> QED BY <1>0, <2>2, <2>3, StaysTyped DEF OrderPlaces
<1>3. CASE CancelReported \/ \E i \in job.todo : CancelUnknown(i)
  <2>1. /\ job.pc \in {"clearing", "cancelling"} /\ job.todo \subseteq DOMAIN orders
        /\ Stays("cancelled") /\ job'.todo = job.todo /\ job'.at \in DOMAIN orders
        /\ job'.report \in Reports
    BY <1>3, CancelIs
  <2> QED BY <1>0, <2>1, StaysTyped DEF OrderPlaces
<1>4. CASE SettleCancel
  <2>1. job.pc = "cancelled" /\ job.todo \subseteq DOMAIN orders
    BY <1>4 DEF SettleCancel, TypeInv, JobTyped, Clearing
  <2>2. PICK p \in {"clearing", "liquidated"} : Stays(p) /\ job'.todo = job.todo \ {job.at}
    BY <1>4, SettleCancelIs
  <2> QED BY <1>0, <2>1, <2>2, StaysTyped DEF OrderPlaces
<1>5. CASE BuildSell
  <2>1. job.pc = "clearing"
    BY <1>5 DEF BuildSell
  <2>2. Stays("ordering") /\ job'.order \in Sent
    BY <1>5, BuildSellIs DEF Orders
  <2> QED BY <1>0, <2>1, <2>2, StaysTyped DEF Clearing
<1>6. CASE NothingToSell \/ SettleSell
  <2>1. job.pc \in {"clearing", "executed"} /\ Stays("liquidated")
    BY <1>6, NothingToSellIs, SettleSellIs DEF NothingToSell, SettleSell
  <2> QED BY <1>0, <2>1, StaysTyped DEF Clearing, OrderPlaces
<1>7. CASE NoQuoteToSell \/ LiquidationFailed \/ PositionsRemain \/ LiquidationConfirmed
  BY <1>7, EndingIs, EndsTyped DEF Ending
<1>8. CASE SoldForSwitch
  <2>1. /\ job' \in JobRecords /\ job'.pc = "sizing" /\ job'.leg = "target"
        /\ job'.decision = job.decision /\ job'.intent = job.intent
    BY <1>8, SoldForSwitchIs
  <2>2. /\ job.pc = "liquidated" /\ job.leg = "switch-sell" /\ job.decision # 0
        /\ job.intent \in Intents /\ job.intent.symbol \in Symbols /\ "target" \in Legs
    BY <1>8 DEF SoldForSwitch, Liquidated, TypeInv, JobTyped, Legs
  <2> QED BY <2>1, <2>2 DEF JobTyped, OrderPlaces, Clearing
<1> QED BY <1>1, <1>2, <1>3, <1>4, <1>5, <1>6, <1>7, <1>8 DEF Liquidate

LEMMA ExecuteTyped ==
  ASSUME TypeInv, Execute
  PROVE  JobTyped'
<1>0. /\ {"ordering", "checking", "submitting", "awaiting", "reported", "executed"} \subseteq Busy \ {"sizing"}
      /\ {"sizing", "ordering", "checking", "submitting", "awaiting", "reported", "executed"} \subseteq Busy
  BY DEF Busy, Pcs
<1>1. job.pc \in OrderPlaces => job.order \in Sent
  BY DEF TypeInv, JobTyped
<1>2. CASE BuildTarget
  <2>1. job.pc = "sizing" /\ Stays("ordering") /\ job'.order \in Sent
    BY <1>2, BuildTargetIs DEF BuildTarget, Orders
  <2> QED BY <1>0, <2>1, StaysTyped DEF Clearing
<1>3. CASE SaveOrder \/ PassCheck \/ PlaceOrder
  <2>1. /\ job.pc \in {"ordering", "checking", "submitting"} /\ job'.order = job.order
        /\ Stays("checking") \/ Stays("submitting") \/ Stays("awaiting")
    BY <1>3, SaveOrderIs, PassCheckIs, PlaceIs DEF SaveOrder, PassCheck, PlaceOrder
  <2>2. job'.order \in Sent
    BY <1>1, <2>1 DEF OrderPlaces
  <2> QED BY <1>0, <2>1, <2>2, StaysTyped DEF Clearing
<1>4. CASE Reporting
  <2>1. /\ job.pc \in {"ordering", "checking", "submitting", "awaiting"}
        /\ Stays("reported") /\ job'.order = job.order /\ job'.report \in Reports
    BY <1>4, ReportingIs
  <2>2. job'.order \in Sent
    BY <1>1, <2>1 DEF OrderPlaces
  <2> QED BY <1>0, <2>1, <2>2, StaysTyped DEF Clearing
<1>5. CASE SaveExecution
  <2>1. job.pc = "reported" /\ Stays("executed")
    BY <1>5, SaveExecutionIs DEF SaveExecution
  <2> QED BY <1>0, <2>1, StaysTyped DEF OrderPlaces, Clearing
<1>6. CASE NoTargetOrder \/ SettleTarget
  BY <1>6, EndingIs, EndsTyped DEF Ending
<1> QED BY <1>2, <1>3, <1>4, <1>5, <1>6 DEF Execute, Reporting

\* A cycle begins with the snapshot of its first refresh.
LEMMA StartIs ==
  ASSUME TypeInv, StartRun \/ RunAgain
  PROVE  /\ job' \in JobRecords /\ job'.pc = "deciding" /\ job'.decision \in 1 .. MaxDecisions
         /\ job'.leg = "none" /\ job'.snapshot = SnapshotNow
<1>1. PICK d \in 1 .. MaxDecisions :
        \/ job' = Started(d)
        \/ /\ job' = [Started(d) EXCEPT !.intent = deferred.intent, !.resumed = TRUE]
           /\ deferred.intent \in Intents
  <2>1. CASE StartRun
    <3>1. decisions + 1 \in 1 .. MaxDecisions
      BY <2>1, LifecycleAssumption DEF StartRun, TypeInv
    <3> QED BY <2>1, <3>1 DEF StartRun
  <2>2. CASE RunAgain
    <3>1. deferred.decision \in 1 .. MaxDecisions /\ deferred.intent \in Intents
      BY <2>2 DEF RunAgain, TypeInv
    <3> QED BY <2>2, <3>1 DEF RunAgain
  <2> QED BY <2>1, <2>2
<1>2. /\ Started(d) \in JobRecords /\ Started(d).pc = "deciding" /\ Started(d).decision = d
      /\ Started(d).leg = "none" /\ Started(d).snapshot = SnapshotNow
  BY StartedIs
<1>3. /\ job' \in JobRecords /\ job'.pc = "deciding" /\ job'.decision = d /\ job'.leg = "none"
      /\ job'.snapshot = SnapshotNow
  <2>1. CASE job' = Started(d)
    BY <1>2, <2>1
  <2>2. CASE /\ job' = [Started(d) EXCEPT !.intent = deferred.intent, !.resumed = TRUE]
             /\ deferred.intent \in Intents
    <3> DEFINE a == [Started(d) EXCEPT !.intent = deferred.intent]
               b == [a EXCEPT !.resumed = TRUE]
    <3>1. /\ a \in JobRecords /\ a.pc = "deciding" /\ a.decision = d /\ a.leg = "none"
          /\ a.snapshot = SnapshotNow
      BY <1>2, <2>2, WithIntent
    <3>2. job' = b
      BY <2>2
    <3> HIDE DEF a
    <3> QED BY <3>1, <3>2, WithResumed
  <2> QED BY <1>1, <2>1, <2>2
<1> QED BY <1>3

LEMMA JobNext ==
  ASSUME TypeInv, [Next]_vars
  PROVE  JobTyped'
<1>0. DOMAIN orders \subseteq DOMAIN orders'
  BY OrdersNext
<1>1. CASE StartRun \/ RunAgain
  <2>1. /\ job' \in JobRecords /\ job'.pc = "deciding" /\ job'.decision \in 1 .. MaxDecisions
        /\ job'.leg = "none"
    BY <1>1, StartIs
  <2> QED BY <2>1 DEF JobTyped, OrderPlaces, Clearing
<1>2. CASE Decide
  BY <1>2, DecideTyped
<1>3. CASE Liquidate \/ Execute
  BY <1>3, LiquidateTyped, ExecuteTyped
<1>4. CASE EndRun \/ RunRaises \/ Crash
  <2>1. job' = Idle
    BY <1>4 DEF EndRun, RunRaises, Crash
  <2> QED BY <2>1, IdleIs DEF JobTyped, OrderPlaces, Clearing
<1>5. CASE AtBroker
  <2>1. job' = job /\ DOMAIN orders' = DOMAIN orders
    BY <1>5, BrokerIs DEF BrokerTouches
  <2> QED BY <2>1 DEF TypeInv, JobTyped
<1>6. CASE PositionsAnswered \/ UNCHANGED vars
  BY <1>6 DEF TypeInv, JobTyped, PositionsAnswered, vars
<1> QED BY <1>1, <1>2, <1>3, <1>4, <1>5, <1>6 DEF Next, AtBroker

\* Only EndRun defers a decision, and only a start of run counts one.
LEMMA DeferralNext ==
  ASSUME TypeInv, [Next]_vars
  PROVE  /\ \/ deferred' = NoDeferral
            \/ deferred' \in [decision : 1 .. MaxDecisions, intent : Intents]
         /\ decisions' \in 0 .. MaxDecisions
<1>1. CASE EndRun
  <2>1. job.decision \in 1 .. MaxDecisions /\ job.intent \in Intents
    BY <1>1, LifecycleAssumption DEF EndRun, TypeInv, JobTyped, JobRecords
  <2>2. [decision |-> job.decision, intent |-> job.intent] \in [decision : 1 .. MaxDecisions, intent : Intents]
    BY <2>1
  <2> QED BY <1>1, <2>2 DEF EndRun, TypeInv
<1>2. CASE StartRun
  BY <1>2, LifecycleAssumption DEF StartRun, TypeInv
<1>3. CASE ~ EndRun /\ ~ StartRun
  <2>1. deferred' = deferred /\ decisions' = decisions
    <3>1. CASE RunAgain \/ RunRaises \/ Crash
      BY <3>1 DEF RunAgain, RunRaises, Crash, worldAndRows
    <3>2. CASE Decide
      BY <3>2, DecideIs DEF Others
    <3>3. CASE Liquidate
      BY <3>3 DEF Liquidate, BeginLiquidation, CancelReported, SettleCancel, RequestCancel, CancelUnknown,
         CancelReports, BuildSell, NoQuoteToSell, NothingToSell, SettleSell, LiquidationFailed,
         PositionsRemain, LiquidationConfirmed, SoldForSwitch, Liquidated, worldAndRows
    <3>4. CASE Execute
      BY <3>4 DEF Execute, BuildTarget, NoTargetOrder, FoundAtBroker, BlockDuplicate, SaveOrder, PassCheck,
         FailCheck, SubmitRefused, PlaceOrder, AwaitOrder, SaveExecution, SettleTarget, worldAndRows
    <3>5. CASE AtBroker
      BY <3>5, BrokerIs DEF BrokerTouches
    <3>6. CASE PositionsAnswered \/ UNCHANGED vars
      BY <3>6 DEF PositionsAnswered, vars
    <3> QED BY <1>3, <3>1, <3>2, <3>3, <3>4, <3>5, <3>6 DEF Next, AtBroker
  <2> QED BY <2>1 DEF TypeInv
<1> QED BY <1>1, <1>2, <1>3

\* The account, the orders, the cycle and the deferred decision always have
\* their types: the fields of the broker's records and of the job run keeps,
\* and what each place of the cycle may rely on.
THEOREM TypesHold == Spec => []TypeInv
<1>1. TypeInv /\ [Next]_vars => TypeInv'
  BY OrdersNext, RefreshNext, JobNext, DeferralNext DEF TypeInv
<1> QED BY InitTyped, <1>1, PTL DEF Spec

-----------------------------------------------------------------------------
(* Where a step of the cycle comes from.                                       *)

\* The action that brings the cycle to each of its places.
LEMMA Arrivals ==
  ASSUME TypeInv, [Next]_vars, job' # job
  PROVE  /\ job'.pc = "deciding"   => (StartRun \/ RunAgain) /\ job'.snapshot = SnapshotNow
         /\ job'.pc = "clearing"   => BeginLiquidation \/ SettleCancel
         /\ job'.pc = "cancelling" => \E i \in job.todo : RequestCancel(i)
         /\ job'.pc = "cancelled"  => CancelReported \/ \E i \in job.todo : CancelUnknown(i)
         /\ job'.pc = "liquidated" => SettleCancel \/ NothingToSell \/ SettleSell
         /\ job'.pc = "sizing"     => Decide \/ SoldForSwitch
         /\ job'.pc = "ordering"   => BuildSell \/ BuildTarget
         /\ job'.pc = "checking"   => SaveOrder
         /\ job'.pc = "submitting" => PassCheck
         /\ job'.pc = "awaiting"   => PlaceOrder
         /\ job'.pc = "reported"   => Reporting
         /\ job'.pc = "executed"   => SaveExecution
<1>1. CASE StartRun \/ RunAgain
  <2>1. job'.pc = "deciding" /\ job'.snapshot = SnapshotNow
    BY <1>1, StartIs
  <2> QED BY <1>1, <2>1
<1>2. CASE Decide
  BY <1>2, DecideIs
<1>3. CASE Liquidate
  <2>1. CASE Ending
    BY <2>1, EndingIs DEF Ends
  <2>2. CASE BeginLiquidation
    BY <2>2, BeginLiquidationIs DEF Stays
  <2>3. CASE CancelReported \/ \E i \in job.todo : CancelUnknown(i)
    BY <2>3, CancelIs DEF Stays
  <2>4. CASE SettleCancel
    BY <2>4, SettleCancelIs DEF Stays
  <2>5. CASE \E i \in job.todo : RequestCancel(i)
    BY <2>5, RequestCancelIs DEF Stays
  <2>6. CASE BuildSell
    BY <2>6, BuildSellIs DEF Orders, Stays
  <2>7. CASE NothingToSell \/ SettleSell
    BY <2>7, NothingToSellIs, SettleSellIs DEF Stays
  <2>8. CASE SoldForSwitch
    BY <2>8, SoldForSwitchIs
  <2> QED BY <1>3, <2>1, <2>2, <2>3, <2>4, <2>5, <2>6, <2>7, <2>8 DEF Liquidate, Ending
<1>4. CASE Execute
  <2>1. CASE Ending
    BY <2>1, EndingIs DEF Ends
  <2>2. CASE Reporting
    BY <2>2, ReportingIs DEF Stays
  <2>3. CASE BuildTarget
    BY <2>3, BuildTargetIs DEF Orders, Stays
  <2>4. CASE SaveOrder
    BY <2>4, SaveOrderIs DEF Stays
  <2>5. CASE PassCheck
    BY <2>5, PassCheckIs DEF Stays
  <2>6. CASE PlaceOrder
    BY <2>6, PlaceIs DEF Stays
  <2>7. CASE SaveExecution
    BY <2>7, SaveExecutionIs DEF Stays
  <2> QED BY <1>4, <2>1, <2>2, <2>3, <2>4, <2>5, <2>6, <2>7 DEF Execute, Ending, Reporting
<1>5. CASE EndRun \/ RunRaises \/ Crash
  <2>1. job'.pc = "idle"
    BY <1>5, IdleIs DEF EndRun, RunRaises, Crash
  <2> QED BY <2>1
<1>6. ~ AtBroker /\ ~ PositionsAnswered /\ ~ UNCHANGED vars
  BY BrokerIs DEF AtBroker, BrokerTouches, PositionsAnswered, vars
<1> QED BY <1>1, <1>2, <1>3, <1>4, <1>5, <1>6 DEF Next, AtBroker

-----------------------------------------------------------------------------
(* A leg is sent once.                                                         *)

Works(i) == orders[i].status = "working"

\* During a cycle the adapter has lost sight only of orders that are dead and
\* bought or sold nothing.
ViewInv ==
  job.pc # "idle" =>
    \A i \in DOMAIN orders : orders[i].seen = "absent" => ~ Works(i) /\ orders[i].filled = 0

LEMMA ViewNext ==
  ASSUME TypeInv, ViewInv, [Next]_vars
  PROVE  ViewInv'
<1>1. CASE Refreshes
  <2>1. OrdersTyped /\ \A i \in DOMAIN orders : orders[i].filled \in Nat
    <3>1. OrdersTyped /\ \A i \in DOMAIN orders : orders[i] \in OrderRecords
      BY ElementIn DEF TypeInv, OrdersTyped
    <3> QED BY <3>1 DEF OrderRecords
  <2>2. /\ DOMAIN orders' = DOMAIN orders
        /\ \A i \in DOMAIN orders : /\ SameOrder(orders'[i], orders[i])
                                    /\ orders'[i].seen = Rebuilt(orders[i])
    BY <1>1, <2>1, RefreshedIs DEF Refreshes, Still
  <2> QED BY <2>1, <2>2 DEF ViewInv, Works, SameOrder, Rebuilt, SeenAsOpen
<1>2. CASE Rests
  BY <1>2 DEF Rests, ViewInv, Works
<1>3. CASE Forgets
  BY <1>3, IdleIs DEF Forgets, ViewInv
<1>4. CASE PlaceOrder
  <2>1. /\ DOMAIN orders' = 1 .. Len(orders) + 1
        /\ \A i \in DOMAIN orders : orders'[i] = orders[i]
        /\ orders'[Len(orders) + 1].seen = "Submitted"
    BY <1>4, PlaceIs
  <2>2. \A i \in DOMAIN orders' : i \in DOMAIN orders \/ i = Len(orders) + 1
    BY <2>1 DEF TypeInv, OrdersTyped
  <2>3. job.pc # "idle"
    BY <1>4 DEF PlaceOrder
  <2> QED BY <2>1, <2>2, <2>3 DEF ViewInv, Works
<1>5. CASE AtBroker
  <2>1. PICK i \in DOMAIN orders : BrokerTouches(i)
    BY <1>5, BrokerIs DEF AtBroker
  <2> QED BY <2>1 DEF BrokerTouches, ViewInv, Works
<1> QED BY <1>1, <1>2, <1>3, <1>4, <1>5, Kinds

LEMMA SentOnceNext ==
  ASSUME TypeInv, ViewInv, LegSentOnce, [Next]_vars
  PROVE  LegSentOnce'
<1>1. CASE Refreshes \/ Forgets
  <2>1. Still
    BY <1>1, RefreshedIs, UnseenIs DEF Refreshes, Forgets, TypeInv
  <2> QED BY <2>1 DEF Still, SameOrder, LegSentOnce
<1>2. CASE Rests
  BY <1>2 DEF Rests, LegSentOnce
<1>3. CASE PlaceOrder
  <2> DEFINE n == Len(orders) + 1
  <2>1. /\ DOMAIN orders' = 1 .. n /\ orders'[n].id = job.order.id
        /\ \A i \in DOMAIN orders : orders'[i] = orders[i] /\ i < n
    BY <1>3, PlaceIs
  <2>2. \A i \in DOMAIN orders' : i \in Nat /\ (i \in DOMAIN orders \/ i = n)
    BY <2>1 DEF TypeInv, OrdersTyped
  <2>3. \A i \in DOMAIN orders : orders[i].id = job.order.id => ~ Works(i) /\ orders[i].filled = 0
    BY <1>3 DEF PlaceOrder, Mapped, ViewInv
  <2>4. n \in Nat /\ \A i \in DOMAIN orders : i \in Nat
    BY DEF TypeInv, OrdersTyped
  <2> HIDE DEF n
  <2>5. SUFFICES ASSUME NEW i \in DOMAIN orders', NEW k \in DOMAIN orders', i < k,
                        orders'[i].id = orders'[k].id
                 PROVE  orders'[i].status # "working" /\ orders'[i].filled = 0
    BY DEF LegSentOnce
  <2>6. i \in DOMAIN orders
    <3>1. ~ n < k
      BY <2>1, <2>2, <2>4
    <3> QED BY <2>2, <2>5, <3>1
  <2>7. CASE k \in DOMAIN orders
    BY <2>1, <2>5, <2>6, <2>7 DEF LegSentOnce
  <2>8. CASE k = n
    BY <2>1, <2>3, <2>5, <2>6, <2>8 DEF Works
  <2> QED BY <2>2, <2>7, <2>8
<1>4. CASE AtBroker
  <2>1. PICK b \in DOMAIN orders : BrokerTouches(b)
    BY <1>4, BrokerIs DEF AtBroker
  <2>2. SUFFICES ASSUME NEW i \in DOMAIN orders', NEW k \in DOMAIN orders', i < k,
                        orders'[i].id = orders'[k].id
                 PROVE  orders'[i].status # "working" /\ orders'[i].filled = 0
    BY DEF LegSentOnce
  <2>3. /\ i \in DOMAIN orders /\ k \in DOMAIN orders
        /\ orders[i].id = orders'[i].id /\ orders[k].id = orders'[k].id
    BY <2>1 DEF BrokerTouches
  <2>4. orders[i].status # "working" /\ orders[i].filled = 0
    BY <2>2, <2>3 DEF LegSentOnce
  <2>5. i # b
    BY <2>1, <2>4 DEF BrokerTouches
  <2> QED BY <2>1, <2>3, <2>4, <2>5 DEF BrokerTouches
<1> QED BY <1>1, <1>2, <1>3, <1>4, Kinds

\* A leg of a decision, tried again after a deferral, an exception or a crash,
\* is sent again only if the first order is dead and traded nothing.  What
\* makes it so: run begins every cycle with a refresh, _execute_order looks
\* the id up before it submits, and what a refresh does not show is dead and
\* unexecuted.
THEOREM LegIsSentOnce == Spec => []LegSentOnce
<1>1. Init => ViewInv /\ LegSentOnce
  BY DEF Init, ViewInv, LegSentOnce
<1>2. TypeInv /\ ViewInv /\ LegSentOnce /\ [Next]_vars => ViewInv' /\ LegSentOnce'
  BY ViewNext, SentOnceNext
<1> QED BY <1>1, <1>2, TypesHold, PTL DEF Spec

-----------------------------------------------------------------------------
(* What is sent has a row.                                                     *)

RowInv ==
  /\ SentIsStored
  /\ job.pc \in {"checking", "submitting"} => job.order.id \in DOMAIN stored

LEMMA RowsStay ==
  ASSUME [Next]_vars
  PROVE  DOMAIN stored \subseteq DOMAIN stored'
<1>1. ASSUME NEW id, NEW st, stored' = Saved(id, st) PROVE DOMAIN stored \subseteq DOMAIN stored'
  BY <1>1 DEF Saved
<1>2. ASSUME NEW id, NEW st, stored' = Updated(id, st) PROVE DOMAIN stored \subseteq DOMAIN stored'
  BY <1>1, <1>2 DEF Updated
<1>3. CASE UNCHANGED stored
  BY <1>3
<1>5. CASE Liquidate
  <2>1. UNCHANGED stored \/ \E id, st : stored' = Updated(id, st)
    BY <1>5 DEF Liquidate, BeginLiquidation, CancelReported, SettleCancel, RequestCancel, CancelUnknown,
       CancelReports, BuildSell, NoQuoteToSell, NothingToSell, SettleSell, LiquidationFailed,
       PositionsRemain, LiquidationConfirmed, SoldForSwitch, Liquidated, worldAndRows
  <2> QED BY <1>2, <1>3, <2>1
<1>6. CASE Execute
  <2>1. UNCHANGED stored \/ \E id, st : stored' = Saved(id, st)
    BY <1>6 DEF Execute, BuildTarget, NoTargetOrder, FoundAtBroker, BlockDuplicate, SaveOrder, PassCheck,
       FailCheck, SubmitRefused, PlaceOrder, AwaitOrder, SaveExecution, SettleTarget, worldAndRows
  <2> QED BY <1>1, <1>3, <2>1
<1>7. CASE ~ Liquidate /\ ~ Execute
  BY <1>3, <1>7 DEF Next, vars, PositionsAnswered, StartRun, RunAgain, Decide, WaitForBroker, BlockedByOrder, NotApproved,
     HaltRisk, ApproveCash, ApproveSwitch, ApproveTarget, Decides, EndRun, RunRaises, Crash, worldAndRows,
     Fill, CancelAtBroker, RefuseAtBroker, WarnAboutOrder, Broker
<1> QED BY <1>5, <1>6, <1>7

LEMMA RowNext ==
  ASSUME TypeInv, RowInv, [Next]_vars
  PROVE  RowInv'
<1>1. DOMAIN stored \subseteq DOMAIN stored'
  BY RowsStay
<1>2. SentIsStored'
  <2>1. CASE Refreshes \/ Forgets
    <3>1. Still
      BY <2>1, RefreshedIs, UnseenIs DEF Refreshes, Forgets, TypeInv
    <3> QED BY <1>1, <3>1 DEF Still, SameOrder, RowInv, SentIsStored
  <2>2. CASE Rests
    BY <1>1, <2>2 DEF Rests, RowInv, SentIsStored
  <2>3. CASE PlaceOrder
    <3>1. /\ DOMAIN orders' = 1 .. Len(orders) + 1 /\ orders'[Len(orders) + 1].id = job.order.id
          /\ \A i \in DOMAIN orders : orders'[i] = orders[i]
      BY <2>3, PlaceIs
    <3>2. \A i \in DOMAIN orders' : i \in DOMAIN orders \/ i = Len(orders) + 1
      BY <3>1 DEF TypeInv, OrdersTyped
    <3>3. job.order.id \in DOMAIN stored
      BY <2>3 DEF PlaceOrder, RowInv
    <3> QED BY <1>1, <3>1, <3>2, <3>3 DEF RowInv, SentIsStored
  <2>4. CASE AtBroker
    <3>1. PICK i \in DOMAIN orders : BrokerTouches(i)
      BY <2>4, BrokerIs DEF AtBroker
    <3> QED BY <1>1, <3>1 DEF BrokerTouches, RowInv, SentIsStored
  <2> QED BY <2>1, <2>2, <2>3, <2>4, Kinds
<1>3. ASSUME job'.pc \in {"checking", "submitting"} PROVE job'.order.id \in DOMAIN stored'
  <2>1. CASE job' = job
    BY <1>1, <1>3, <2>1 DEF RowInv
  <2>2. CASE SaveOrder
    <3>1. job'.order = job.order
      BY <2>2, SaveOrderIs
    <3>2. stored' = Saved(job.order.id, "PENDING")
      BY <2>2 DEF SaveOrder
    <3> QED BY <3>1, <3>2 DEF Saved
  <2>3. CASE PassCheck
    <3>1. job'.order = job.order /\ job.pc = "checking"
      BY <2>3, PassCheckIs DEF PassCheck
    <3> QED BY <1>1, <3>1 DEF RowInv
  <2> QED BY <1>3, <2>1, <2>2, <2>3, Arrivals
<1> QED BY <1>2, <1>3 DEF RowInv

\* Whatever the broker works on has its row in order_records: _execute_order
\* saves the order before the check that precedes the submission, and no step
\* takes a row away.
THEOREM SentHasRow == Spec => []SentIsStored
<1>1. Init => RowInv
  BY IdleIs DEF Init, RowInv, SentIsStored
<1>2. TypeInv /\ RowInv /\ [Next]_vars => RowInv'
  BY RowNext
<1>3. RowInv => SentIsStored
  BY DEF RowInv
<1> QED BY <1>1, <1>2, <1>3, TypesHold, PTL DEF Spec

-----------------------------------------------------------------------------
(* One symbol, and a flat account.                                             *)

Buys(i) == Works(i) /\ orders[i].id.action = "BUY"

\* No refresh has mistaken a working order for a filled one.
Clear == \A i \in DOMAIN orders : ~ orders[i].concealed

\* What the adapter shows as filled or cancelled is no longer at work.
ShownInv ==
  \A i \in DOMAIN orders :
    ~ orders[i].concealed /\ orders[i].seen \in {"Filled", "Cancelled"} => ~ Works(i)

Preparing == {"ordering", "checking", "submitting"}

\* A liquidation sends nothing but SELLs.
OrderInv ==
  job.pc \in Preparing /\ job.leg # "target" => job.order.id.action = "SELL"

\* Where the cycle has seen to it that no BUY is at work.
Quiet ==
  \/ job.pc \in Preparing \cup {"sizing"}
  \/ job.leg # "target" /\ job.pc \in {"awaiting", "reported", "executed"}
  \/ job.pc = "liquidated" /\ job.report = "none"

\* Where the snapshot of a liquidation bounds what is held.
Counted ==
  \/ job.pc = "clearing" /\ job.todo = {}
  \/ job.pc = "liquidated" /\ job.report = "none"

Exposed(s) == held[s] > 0 \/ \E i \in DOMAIN orders : Buys(i) /\ orders[i].id.symbol = s

AllOpenSeen == job.pc = "deciding" => \A i \in DOMAIN orders : Works(i) => i \in job.snapshot.open
BuysListed  == job.pc \in Clearing => \A i \in DOMAIN orders : Buys(i) => i \in job.todo
CancelDone  == job.pc = "cancelled" /\ CancelConfirmed(job.report) => ~ Works(job.at)
QuietInv    == Quiet => NoBuyWorks
CountedInv  == Counted /\ ~ late => \A s \in Symbols : held[s] <= job.snapshot.held[s]
OthersGone  == job.pc = "submitting" /\ job.order.id.action = "BUY"
                 => \A s \in Symbols \ {job.order.id.symbol} : held[s] <= 0
\* Between the two answers of a refresh the positions bound what is held, if no
\* BUY was filled since; before a submission none can be.
GapInv ==
  between => /\ Refreshing
             /\ ~ late => \A s \in Symbols : held[s] <= positions[s]
             /\ job.pc = "checking" => ~ late
OneExposed  == \A s, t \in Symbols : Exposed(s) /\ Exposed(t) => s = t

CycleInv ==
  AllOpenSeen /\ BuysListed /\ CancelDone /\ QuietInv /\ CountedInv /\ OthersGone /\ GapInv
  /\ OneExposed

Inv == TypeInv /\ ShownInv /\ OrderInv /\ (Clear => CycleInv)

\* No order starts to work again, and none that was concealed is cleared.
LEMMA WorksNext ==
  ASSUME TypeInv, [Next]_vars
  PROVE  /\ Clear' => Clear
         /\ DOMAIN orders \subseteq DOMAIN orders'
         /\ \A i \in DOMAIN orders :
              orders'[i].id = orders[i].id /\ (Works(i)' => Works(i)) /\ (Buys(i)' => Buys(i))
<1>1. CASE Refreshes \/ Forgets
  <2>1. Still
    BY <1>1, RefreshedIs, UnseenIs DEF Refreshes, Forgets, TypeInv
  <2> QED BY <2>1 DEF Still, SameOrder, Clear, Works, Buys
<1>2. CASE Rests
  BY <1>2 DEF Rests, Clear, Works, Buys
<1>3. CASE PlaceOrder
  <2>1. \A i \in DOMAIN orders : i \in DOMAIN orders' /\ orders'[i] = orders[i]
    BY <1>3, PlaceIs
  <2> QED BY <2>1 DEF Clear, Works, Buys
<1>4. CASE AtBroker
  <2>1. PICK b \in DOMAIN orders : BrokerTouches(b)
    BY <1>4, BrokerIs DEF AtBroker
  <2> QED BY <2>1 DEF BrokerTouches, Clear, Works, Buys
<1> QED BY <1>1, <1>2, <1>3, <1>4, Kinds

\* Nothing but a placed BUY starts to work, and only it can be filled upwards.
LEMMA QuietStays ==
  ASSUME TypeInv, [Next]_vars, NoBuyWorks, PlaceOrder => job.order.id.action # "BUY"
  PROVE  NoBuyWorks' /\ \A s \in Symbols : held'[s] <= held[s]
<1>0. \A s \in Symbols : held[s] \in Int
  BY DEF TypeInv
<1>1. CASE PlaceOrder
  <2>1. /\ DOMAIN orders' = 1 .. Len(orders) + 1 /\ orders'[Len(orders) + 1].id = job.order.id
        /\ held' = held
        /\ \A i \in DOMAIN orders : orders'[i] = orders[i]
    BY <1>1, PlaceIs
  <2>2. \A i \in DOMAIN orders' : i \in DOMAIN orders \/ i = Len(orders) + 1
    BY <2>1 DEF TypeInv, OrdersTyped
  <2> QED BY <1>0, <1>1, <2>1, <2>2 DEF NoBuyWorks
<1>2. CASE ~ PlaceOrder
  <2>1. NoBuyWorks'
    <3>1. DOMAIN orders' = DOMAIN orders
      BY <1>2, OrdersNext
    <3> QED BY <3>1, WorksNext DEF NoBuyWorks, Buys, Works
  <2>2. CASE AtBroker
    <3>1. PICK b \in DOMAIN orders : BrokerTouches(b)
      BY <2>2, BrokerIs DEF AtBroker
    <3>2. orders[b].id.action # "BUY"
      BY <3>1 DEF BrokerTouches, NoBuyWorks
    <3> QED BY <2>1, <3>1, <3>2 DEF BrokerTouches
  <2>3. CASE held' = held
    BY <1>0, <2>1, <2>3
  <2> QED BY <1>2, <2>2, <2>3, Kinds DEF Refreshes, Rests, Forgets
<1> QED BY <1>1, <1>2

LEMMA ShownNext ==
  ASSUME TypeInv, ShownInv, [Next]_vars
  PROVE  ShownInv'
<1>1. CASE Refreshes
  <2>1. /\ DOMAIN orders' = DOMAIN orders
        /\ \A i \in DOMAIN orders : /\ SameOrder(orders'[i], orders[i])
                                    /\ orders'[i].seen = Rebuilt(orders[i])
                                    /\ orders'[i].concealed = (orders[i].concealed \/ Conceals(orders[i]))
    BY <1>1, RefreshedIs DEF Refreshes, Still, TypeInv
  <2> QED BY <2>1 DEF ShownInv, Works, SameOrder, Rebuilt, SeenAsOpen, Conceals
<1>2. CASE Rests
  BY <1>2 DEF Rests, ShownInv, Works
<1>3. CASE Forgets
  <2>1. DOMAIN orders' = DOMAIN orders /\ \A i \in DOMAIN orders : orders'[i].seen = "absent"
    BY <1>3, UnseenIs DEF Forgets, Still, TypeInv
  <2> QED BY <2>1 DEF ShownInv
<1>4. CASE PlaceOrder
  <2>1. /\ DOMAIN orders' = 1 .. Len(orders) + 1
        /\ \A i \in DOMAIN orders : orders'[i] = orders[i]
        /\ orders'[Len(orders) + 1].seen = "Submitted"
    BY <1>4, PlaceIs
  <2>2. \A i \in DOMAIN orders' : i \in DOMAIN orders \/ i = Len(orders) + 1
    BY <2>1 DEF TypeInv, OrdersTyped
  <2> QED BY <2>1, <2>2 DEF ShownInv, Works
<1>5. CASE AtBroker
  <2>1. PICK i \in DOMAIN orders : BrokerTouches(i)
    BY <1>5, BrokerIs DEF AtBroker
  <2> QED BY <2>1 DEF BrokerTouches, ShownInv, Works
<1> QED BY <1>1, <1>2, <1>3, <1>4, <1>5, Kinds

LEMMA OrderNext ==
  ASSUME TypeInv, OrderInv, [Next]_vars
  PROVE  OrderInv'
<1>1. CASE job' = job
  BY <1>1 DEF OrderInv
<1>2. CASE BuildSell
  <2>1. job'.order.id.action = "SELL"
    BY <1>2, BuildSellIs DEF Orders
  <2> QED BY <2>1 DEF OrderInv
<1>3. CASE BuildTarget
  <2>1. job'.leg = job.leg /\ job.leg = "target"
    BY <1>3, BuildTargetIs DEF Orders, Stays, BuildTarget, TypeInv, JobTyped
  <2> QED BY <2>1 DEF OrderInv
<1>4. CASE SaveOrder \/ PassCheck
  <2>1. job.pc \in Preparing /\ job'.order = job.order /\ job'.leg = job.leg
    BY <1>4, SaveOrderIs, PassCheckIs DEF SaveOrder, PassCheck, Preparing, Stays
  <2> QED BY <2>1 DEF OrderInv
<1>5. CASE job'.pc \notin Preparing
  BY <1>5 DEF OrderInv
<1> QED BY <1>1, <1>2, <1>3, <1>4, <1>5, Arrivals DEF Preparing

\* A refresh that conceals nothing lists every order at work.
LEMMA AllListed ==
  ASSUME TypeInv, Refreshes, Clear'
  PROVE  /\ DOMAIN orders' = DOMAIN orders
         /\ \A i \in DOMAIN orders : Works(i)' => i \in SnapshotNow.open
<1>1. \A i \in DOMAIN orders : orders[i].filled \in Nat
  <2>1. \A i \in DOMAIN orders : orders[i] \in OrderRecords
    BY ElementIn DEF TypeInv, OrdersTyped
  <2> QED BY <2>1 DEF OrderRecords
<1>2. /\ DOMAIN orders' = DOMAIN orders
      /\ \A i \in DOMAIN orders : /\ SameOrder(orders'[i], orders[i])
                                  /\ orders'[i].concealed = (orders[i].concealed \/ Conceals(orders[i]))
  BY RefreshedIs DEF Refreshes, Still, TypeInv
<1>3. ASSUME NEW i \in DOMAIN orders, Works(i)' PROVE Rebuilt(orders[i]) = "Submitted"
  <2>1. orders[i].status = "working" /\ ~ Conceals(orders[i])
    BY <1>2, <1>3 DEF Works, SameOrder, Clear
  <2> QED BY <2>1 DEF Conceals, Rebuilt, SeenAsOpen
<1> QED BY <1>2, <1>3, SnapshotIs

LEMMA AllOpenNext ==
  ASSUME TypeInv, [Next]_vars, Clear', AllOpenSeen
  PROVE  AllOpenSeen'
<1>1. CASE job' = job
  <2>1. DOMAIN orders' = DOMAIN orders \/ job.pc = "submitting"
    BY OrdersNext DEF PlaceOrder
  <2> QED BY <1>1, <2>1, WorksNext DEF AllOpenSeen
<1>2. CASE StartRun \/ RunAgain
  <2>1. Refreshes /\ job'.snapshot = SnapshotNow
    BY <1>2, StartIs DEF StartRun, RunAgain, Reconciles, Refreshes
  <2>2. /\ DOMAIN orders' = DOMAIN orders
        /\ \A i \in DOMAIN orders : Works(i)' => i \in SnapshotNow.open
    BY <2>1, AllListed
  <2> QED BY <2>1, <2>2 DEF AllOpenSeen
<1>3. CASE job'.pc # "deciding"
  BY <1>3 DEF AllOpenSeen
<1> QED BY <1>1, <1>2, <1>3, Arrivals

LEMMA ListedNext ==
  ASSUME TypeInv, [Next]_vars, Clear', BuysListed, CancelDone
  PROVE  BuysListed'
<1>0. \A i \in DOMAIN orders : orders'[i].id = orders[i].id /\ (Buys(i)' => Buys(i))
  BY WorksNext
<1>1. CASE job' = job
  <2>1. DOMAIN orders' = DOMAIN orders \/ job.pc = "submitting"
    BY OrdersNext DEF PlaceOrder
  <2> QED BY <1>0, <1>1, <2>1 DEF BuysListed, Clearing
<1>2. CASE BeginLiquidation
  <2>1. Refreshes /\ job'.todo = {i \in SnapshotNow.open : orders[i].id.action = "BUY"}
    BY <1>2, BeginLiquidationIs DEF BeginLiquidation, Reconciles, worldAndRows, Refreshes
  <2>2. /\ DOMAIN orders' = DOMAIN orders
        /\ \A i \in DOMAIN orders : Works(i)' => i \in SnapshotNow.open
    BY <2>1, AllListed
  <2> QED BY <1>0, <2>1, <2>2 DEF BuysListed, Buys
<1>3. CASE SettleCancel
  <2>1. /\ DOMAIN orders' = DOMAIN orders /\ job'.todo = job.todo \ {job.at} /\ job.pc = "cancelled"
        /\ job'.pc = IF CancelConfirmed(job.report) THEN "clearing" ELSE "liquidated"
    BY <1>3, SettleCancelIs, RefreshedIs
       DEF Stays, SettleCancel, Reconciles, worldAndRows, Still, TypeInv
  <2>2. CASE CancelConfirmed(job.report)
    <3>1. ~ Buys(job.at)
      BY <2>1, <2>2 DEF CancelDone, Buys
    <3> QED BY <1>0, <2>1, <3>1 DEF BuysListed, Clearing
  <2>3. CASE ~ CancelConfirmed(job.report)
    BY <2>1, <2>3 DEF BuysListed, Clearing
  <2> QED BY <2>2, <2>3
<1>4. CASE \E i \in job.todo : RequestCancel(i)
  <2>1. job'.todo = job.todo /\ job.pc = "clearing" /\ orders' = orders
    BY <1>4, RequestCancelIs DEF RequestCancel
  <2> QED BY <1>0, <2>1 DEF BuysListed, Clearing
<1>5. CASE CancelReported \/ \E i \in job.todo : CancelUnknown(i)
  <2>1. job'.todo = job.todo /\ job.pc \in {"clearing", "cancelling"} /\ orders' = orders
    BY <1>5, CancelIs
  <2> QED BY <1>0, <2>1 DEF BuysListed, Clearing
<1>6. CASE job'.pc \notin Clearing
  BY <1>6 DEF BuysListed
<1> QED BY <1>1, <1>2, <1>3, <1>4, <1>5, <1>6, Arrivals DEF Clearing

LEMMA CancelNext ==
  ASSUME TypeInv, [Next]_vars, Clear, ShownInv, CancelDone
  PROVE  CancelDone'
<1>1. CASE job' = job
  <2>1. job.pc = "cancelled" => job.at \in DOMAIN orders
    BY DEF TypeInv, JobTyped
  <2>2. \A i \in DOMAIN orders : Works(i)' => Works(i)
    BY WorksNext
  <2> QED BY <1>1, <2>1, <2>2 DEF CancelDone, Works
<1>2. CASE CancelReported \/ \E i \in job.todo : CancelUnknown(i)
  <2>1. /\ job'.at \in DOMAIN orders /\ orders' = orders
        /\ job'.report \in {AwaitReport(orders[job'.at]), "REJECTED"}
    BY <1>2, CancelIs
  <2>2. ASSUME NEW i \in DOMAIN orders, AwaitReport(orders[i]) \in {"CANCELLED", "FILLED"}
        PROVE  ~ Works(i)
    <3>1. orders[i].seen \in Views
      <4>1. orders[i] \in OrderRecords
        BY ElementIn DEF TypeInv, OrdersTyped
      <4> QED BY <4>1 DEF OrderRecords, Views
    <3>2. StatusReport(orders[i]) \in {"CANCELLED", "FILLED"}
      BY <2>2 DEF AwaitReport
    <3>3. orders[i].seen \in {"Filled", "Cancelled"}
      BY <3>1, <3>2 DEF StatusReport, Views
    <3> QED BY <3>3 DEF Clear, ShownInv
  <2>3. CASE job'.report \in {"CANCELLED", "FILLED"}
    <3>1. ~ Works(job'.at)
      BY <2>1, <2>2, <2>3
    <3> QED BY <2>1, <3>1 DEF CancelDone, Works
  <2> QED BY <2>3 DEF CancelDone, CancelConfirmed
<1>3. CASE job'.pc # "cancelled"
  BY <1>3 DEF CancelDone
<1> QED BY <1>1, <1>2, <1>3, Arrivals

\* Before it comes to a place that is quiet the cycle was at one, or its first
\* snapshot, or its list of BUYs to cancel, had no order left.
LEMMA QuietNext ==
  ASSUME TypeInv, [Next]_vars, OrderInv, AllOpenSeen, BuysListed, QuietInv
  PROVE  QuietInv'
<1>1. ASSUME Quiet' PROVE NoBuyWorks /\ (PlaceOrder => job.order.id.action # "BUY")
  <2>1. CASE Quiet
    <3>1. PlaceOrder => job.order.id.action # "BUY"
      <4>1. CASE PlaceOrder
        <5>1. job.pc = "submitting" /\ Stays("awaiting")
          BY <4>1, PlaceIs DEF PlaceOrder
        <5>2. job.leg # "target"
          BY <1>1, <5>1 DEF Quiet, Stays, Preparing
        <5> QED BY <5>1, <5>2 DEF OrderInv, Preparing
      <4> QED BY <4>1
    <3> QED BY <2>1, <3>1 DEF QuietInv
  <2>2. CASE job.pc = "deciding" /\ job.snapshot.open = {}
    BY <2>2 DEF AllOpenSeen, NoBuyWorks, Works, PlaceOrder
  <2>3. CASE job.pc = "clearing" /\ job.todo = {}
    BY <2>3 DEF BuysListed, Clearing, NoBuyWorks, Buys, Works, PlaceOrder
  <2>4. Quiet \/ (job.pc = "deciding" /\ job.snapshot.open = {}) \/ (job.pc = "clearing" /\ job.todo = {})
    <3>1. CASE job' = job
      BY <1>1, <3>1 DEF Quiet
    <3>2. CASE Decide
      BY <1>1, <3>2, DecideIs DEF Quiet, Preparing
    <3>3. CASE SoldForSwitch \/ BuildSell \/ NothingToSell
      BY <3>3 DEF SoldForSwitch, Liquidated, BuildSell, NothingToSell, Quiet
    <3>4. CASE BuildTarget \/ SaveOrder \/ PassCheck \/ PlaceOrder
      BY <3>4 DEF BuildTarget, SaveOrder, PassCheck, PlaceOrder, Quiet, Preparing
    <3>5. CASE Reporting
      <4>1. job.pc \in {"ordering", "checking", "submitting", "awaiting"} /\ Stays("reported")
        BY <3>5, ReportingIs
      <4> QED BY <1>1, <4>1 DEF Quiet, Stays, Preparing
    <3>6. CASE SaveExecution
      <4>1. job.pc = "reported" /\ Stays("executed")
        BY <3>6, SaveExecutionIs DEF SaveExecution
      <4> QED BY <1>1, <4>1 DEF Quiet, Stays, Preparing
    <3>7. CASE SettleSell
      BY <3>7 DEF SettleSell, Quiet
    <3>8. CASE SettleCancel
      <4>1. job'.report = job.report /\ job.pc = "cancelled"
            /\ job'.pc \in {"clearing", "liquidated"}
        BY <3>8, SettleCancelIs DEF SettleCancel, Stays
      <4>2. job.report # "none"
        BY <4>1 DEF TypeInv, JobTyped, Reports
      <4> QED BY <1>1, <4>1, <4>2 DEF Quiet, Preparing
    <3> QED BY <1>1, <3>1, <3>2, <3>3, <3>4, <3>5, <3>6, <3>7, <3>8, Arrivals DEF Quiet, Preparing
  <2> QED BY <2>1, <2>2, <2>3, <2>4
<1> QED BY <1>1, QuietStays DEF QuietInv

LEMMA GapNext ==
  ASSUME TypeInv, [Next]_vars, QuietInv, GapInv
  PROVE  GapInv'
<1>0. \A s \in Symbols : held[s] \in Int /\ held'[s] \in Int /\ positions[s] \in Int
  BY OrdersNext DEF TypeInv, RefreshTyped
<1>1. CASE PositionsAnswered
  BY <1>0, <1>1 DEF PositionsAnswered, GapInv, Refreshing
<1>2. CASE RefreshEnds
  BY <1>2 DEF RefreshEnds, GapInv
<1>3. CASE UNCHANGED <<held, refresh>> /\ (job' = job \/ ~ Refreshing)
  BY <1>3 DEF refresh, GapInv, Refreshing
<1>4. CASE AtBroker
  <2>1. PICK b \in DOMAIN orders : BrokerTouches(b)
    BY <1>4, BrokerIs
  <2>2. /\ job' = job /\ between' = between /\ positions' = positions /\ (late => late')
        /\ between /\ ~ late' => \A s \in Symbols : held'[s] <= held[s]
    BY <2>1 DEF BrokerTouches
  <2>3. ASSUME between PROVE Refreshing' /\ (~ late' => \A s \in Symbols : held'[s] <= positions'[s])
    <3>1. Refreshing /\ (~ late => \A s \in Symbols : held[s] <= positions[s])
      BY <2>3 DEF GapInv
    <3> QED BY <1>0, <2>2, <2>3, <3>1 DEF Refreshing
  <2>4. ASSUME between, job.pc = "checking" PROVE ~ late'
    <3>1. ~ late /\ NoBuyWorks
      BY <2>4 DEF GapInv, QuietInv, Quiet, Preparing
    <3>2. orders[b].id.action # "BUY"
      BY <2>1, <3>1 DEF NoBuyWorks, BrokerTouches
    <3> QED BY <2>1, <3>1, <3>2 DEF BrokerTouches
  <2> QED BY <2>2, <2>3, <2>4 DEF GapInv
<1> QED BY <1>1, <1>2, <1>3, <1>4, RefreshKinds

LEMMA CountedNext ==
  ASSUME TypeInv, [Next]_vars, BuysListed, QuietInv, CountedInv, GapInv
  PROVE  CountedInv'
<1>0. \A s \in Symbols : held[s] \in Int /\ held'[s] \in Int
  BY OrdersNext DEF TypeInv
<1>1. CASE job' = job
  <2>1. CASE Counted
    <3>1. NoBuyWorks /\ ~ PlaceOrder
      BY <2>1 DEF Counted, BuysListed, Clearing, QuietInv, Quiet, NoBuyWorks, Buys, Works, PlaceOrder
    <3>2. \A s \in Symbols : held'[s] <= held[s]
      BY <3>1, QuietStays
    <3>3. \A s \in Symbols : job.snapshot.held[s] \in Int
      <4>1. job.snapshot \in Snapshots
        BY DEF TypeInv, JobTyped, JobRecords
      <4> QED BY <4>1 DEF Snapshots
    <3>4. late => late'
      <4>1. ~ PositionsAnswered
        BY <2>1 DEF Counted, PositionsAnswered, Refreshing
      <4> QED BY <4>1, RefreshKinds, BrokerIs DEF RefreshEnds, refresh, BrokerTouches
    <3> QED BY <1>0, <1>1, <2>1, <3>2, <3>3, <3>4 DEF CountedInv
  <2> QED BY <1>1, <2>1 DEF CountedInv, Counted
<1>2. CASE BeginLiquidation \/ SettleCancel \/ SettleSell
  <2>1. job'.snapshot = SnapshotNow /\ held' = held /\ between /\ late' = late
    BY <1>2, BeginLiquidationIs, SettleCancelIs, SettleSellIs
       DEF BeginLiquidation, SettleCancel, SettleSell, worldAndRows, Reconciles, RefreshEnds
  <2>2. ~ late' => \A s \in Symbols : held'[s] <= job'.snapshot.held[s]
    BY <2>1, SnapshotIs DEF GapInv
  <2> QED BY <2>2 DEF CountedInv
<1>3. CASE NothingToSell
  <2>1. job'.snapshot = job.snapshot /\ held' = held /\ late' = late /\ Counted
    BY <1>3, NothingToSellIs DEF NothingToSell, worldAndRows, refresh, Counted
  <2> QED BY <2>1 DEF CountedInv
<1>4. CASE job'.pc \notin {"clearing", "liquidated"}
  BY <1>4 DEF CountedInv, Counted
<1> QED BY <1>1, <1>2, <1>3, <1>4, Arrivals

LEMMA OthersNext ==
  ASSUME TypeInv, [Next]_vars, QuietInv, OthersGone, GapInv
  PROVE  OthersGone'
<1>0. \A s \in Symbols : held[s] \in Int /\ held'[s] \in Int
  BY OrdersNext DEF TypeInv
<1>1. CASE job' = job
  <2>1. CASE job.pc = "submitting"
    <3>1. NoBuyWorks /\ ~ PlaceOrder
      BY <1>1, <2>1, PlaceIs DEF QuietInv, Quiet, Preparing, Stays
    <3>2. \A s \in Symbols : held'[s] <= held[s]
      BY <3>1, QuietStays
    <3> QED BY <1>0, <1>1, <3>2 DEF OthersGone
  <2> QED BY <1>1, <2>1 DEF OthersGone
<1>2. CASE PassCheck
  <2>1. job'.order = job.order /\ held' = held /\ HoldingsAllow(job.order, positions)
    BY <1>2, PassCheckIs DEF PassCheck, worldAndRows
  <2>2. \A s \in Symbols : held[s] <= positions[s] /\ positions[s] \in Int
    BY <1>2 DEF PassCheck, Reconciles, GapInv, TypeInv, RefreshTyped
  <2> QED BY <1>0, <2>1, <2>2 DEF HoldingsAllow, OthersGone
<1>3. CASE job'.pc # "submitting"
  BY <1>3 DEF OthersGone
<1> QED BY <1>1, <1>2, <1>3, Arrivals

LEMMA ExposedNext ==
  ASSUME TypeInv, [Next]_vars, QuietInv, OthersGone, OneExposed
  PROVE  OneExposed'
<1>0. \A s \in Symbols : held[s] \in Int /\ held'[s] \in Int
  BY OrdersNext DEF TypeInv
<1>1. CASE PlaceOrder
  <2>1. /\ DOMAIN orders' = 1 .. Len(orders) + 1 /\ orders'[Len(orders) + 1].id = job.order.id
        /\ held' = held
        /\ \A i \in DOMAIN orders : orders'[i] = orders[i]
    BY <1>1, PlaceIs
  <2>2. \A i \in DOMAIN orders' : i \in DOMAIN orders \/ i = Len(orders) + 1
    BY <2>1 DEF TypeInv, OrdersTyped
  <2>3. NoBuyWorks /\ job.pc = "submitting"
    BY <1>1 DEF PlaceOrder, QuietInv, Quiet, Preparing
  <2>4. CASE job.order.id.action = "BUY"
    <3>1. ASSUME NEW s \in Symbols, Exposed(s)' PROVE s = job.order.id.symbol
      <4>1. CASE held'[s] > 0
        BY <1>0, <2>1, <2>3, <2>4, <4>1 DEF OthersGone
      <4>2. CASE \E i \in DOMAIN orders' : Buys(i)' /\ orders'[i].id.symbol = s
        <5>1. PICK i \in DOMAIN orders' : Buys(i)' /\ orders'[i].id.symbol = s
          BY <4>2
        <5>2. i \notin DOMAIN orders
          BY <2>1, <2>3, <5>1 DEF NoBuyWorks, Buys, Works
        <5> QED BY <2>1, <2>2, <5>1, <5>2
      <4> QED BY <3>1, <4>1, <4>2 DEF Exposed
    <3> QED BY <3>1 DEF OneExposed
  <2>5. CASE job.order.id.action # "BUY"
    <3>1. NoBuyWorks'
      BY <2>3, <2>5, QuietStays
    <3>2. ASSUME NEW s \in Symbols, Exposed(s)' PROVE Exposed(s)
      BY <2>1, <3>1, <3>2 DEF Exposed, NoBuyWorks, Buys, Works
    <3> QED BY <3>2 DEF OneExposed
  <2> QED BY <2>4, <2>5
<1>2. CASE ~ PlaceOrder
  <2>1. ASSUME NEW s \in Symbols, Exposed(s)' PROVE Exposed(s)
    <3>1. DOMAIN orders' = DOMAIN orders
      BY <1>2, OrdersNext
    <3>2. CASE \E i \in DOMAIN orders' : Buys(i)' /\ orders'[i].id.symbol = s
      BY <3>1, <3>2, WorksNext DEF Exposed
    <3>3. CASE held'[s] > 0 /\ ~ AtBroker
      <4>1. held' = held
        BY <1>2, <3>3, Kinds DEF Refreshes, Rests, Forgets
      <4> QED BY <3>3, <4>1 DEF Exposed
    <3>4. CASE held'[s] > 0 /\ AtBroker
      <4>1. PICK b \in DOMAIN orders : BrokerTouches(b)
        BY <3>4, BrokerIs DEF AtBroker
      <4>2. CASE orders[b].id.action = "BUY" /\ orders[b].id.symbol = s
        BY <4>1, <4>2 DEF BrokerTouches, Exposed, Buys, Works
      <4>3. CASE ~ (orders[b].id.action = "BUY" /\ orders[b].id.symbol = s)
        <5>1. held'[s] <= held[s]
          BY <1>0, <4>1, <4>3 DEF BrokerTouches
        <5> QED BY <1>0, <3>4, <5>1 DEF Exposed
      <4> QED BY <4>2, <4>3
    <3> QED BY <2>1, <3>2, <3>3, <3>4 DEF Exposed
  <2> QED BY <2>1 DEF OneExposed
<1> QED BY <1>1, <1>2

LEMMA InvInit == Init => Inv
<1> SUFFICES ASSUME Init PROVE Inv
  OBVIOUS
<1>1. orders = <<>> /\ job = Idle
  BY DEF Init
<1>2. DOMAIN orders = {}
  BY <1>1
<1>3. PICK s \in Symbols, n \in {0, MaxShares} : held = [t \in Symbols |-> IF t = s THEN n ELSE 0]
  BY DEF Init
<1>4. ShownInv /\ OrderInv
  BY <1>1, <1>2, IdleIs DEF ShownInv, OrderInv, Preparing
<1>5. AllOpenSeen /\ BuysListed /\ CancelDone /\ QuietInv /\ CountedInv /\ OthersGone
  BY <1>1, <1>2, IdleIs DEF AllOpenSeen, BuysListed, CancelDone, QuietInv, Quiet, Preparing, Clearing,
     CountedInv, Counted, OthersGone
<1>7. GapInv
  BY DEF Init, GapInv
<1>6. OneExposed
  BY <1>2, <1>3 DEF OneExposed, Exposed
<1> QED BY <1>4, <1>5, <1>6, <1>7, InitTyped DEF Inv, CycleInv

LEMMA InvNext == Inv /\ [Next]_vars => Inv'
<1> SUFFICES ASSUME Inv, [Next]_vars PROVE Inv'
  OBVIOUS
<1>1. TypeInv /\ ShownInv /\ OrderInv /\ (Clear => CycleInv)
  BY DEF Inv
<1>2. TypeInv' /\ ShownInv' /\ OrderInv'
  BY <1>1, OrdersNext, RefreshNext, JobNext, DeferralNext, ShownNext, OrderNext DEF TypeInv
<1>3. ASSUME Clear' PROVE CycleInv'
  <2>1. Clear /\ CycleInv
    BY <1>1, <1>3, WorksNext
  <2> QED BY <1>1, <1>3, <2>1, AllOpenNext, ListedNext, CancelNext, QuietNext, CountedNext, OthersNext,
        GapNext, ExposedNext DEF CycleInv
<1> QED BY <1>2, <1>3 DEF Inv

LEMMA InvAlways == Spec => []Inv
BY InvInit, InvNext, PTL DEF Spec

\* The account holds one symbol at most, as long as no refresh has mistaken a
\* working order for a filled one, however late the fills of earlier decisions
\* come: a BUY is sent only when no other BUY works and nothing else is held.
THEOREM AccountHoldsOneSymbol == Spec => []OneSymbol
<1>1. Inv => OneSymbol
  <2> SUFFICES ASSUME Inv, Clear PROVE Cardinality({s \in Symbols : held[s] > 0}) <= 1
    BY DEF OneSymbol, Clear
  <2> DEFINE H == {s \in Symbols : held[s] > 0}
  <2>1. \A s, t \in H : s = t
    BY DEF Inv, CycleInv, OneExposed, Exposed
  <2>2. CASE H = {}
    BY <2>2, FS_EmptySet
  <2>3. CASE H # {}
    <3>1. PICK s \in H : TRUE
      BY <2>3
    <3>2. H = {s}
      BY <2>1, <3>1
    <3>3. Cardinality(H) = 1
      BY <3>2, FS_Singleton
    <3> QED BY <3>3
  <2> QED BY <2>2, <2>3
<1> QED BY <1>1, InvAlways, PTL

LEMMA ConfirmedIsFlat ==
  ASSUME Inv, [Next]_vars, Confirms, Clear
  PROVE  NoBuyWorks /\ (~ late => \A s \in Symbols : held[s] <= 0)
<1>1. /\ job.pc = "liquidated" /\ job'.machine \in {"FILLED", "RISK_HALTED"} /\ job'.machine # job.machine
      /\ TypeInv /\ CycleInv
  BY DEF Confirms, Inv
<1>2. LiquidationConfirmed
  <2>1. CASE LiquidationFailed
    <3> DEFINE to == ExecutionState(job.machine, job.report)
    <3>1. to \in Machines /\ (to = job.machine \/ to \notin {"FILLED", "RISK_HALTED"})
      BY <1>1 DEF ExecutionState, Machines, TypeInv, JobTyped, JobRecords
    <3>2. Ends(job, job', to)
      BY <1>1, <2>1, <3>1, MovedIs DEF LiquidationFailed, Liquidated, TypeInv, JobTyped
    <3> QED BY <1>1, <3>1, <3>2 DEF Ends
  <2>2. CASE PositionsRemain
    <3>1. "ERROR" \in Machines
      BY DEF Machines
    <3>2. Ends(job, job', "ERROR")
      BY <1>1, <2>2, <3>1, MovedIs DEF PositionsRemain, Liquidated, TypeInv, JobTyped
    <3> QED BY <1>1, <3>2 DEF Ends
  <2>3. CASE SoldForSwitch
    BY <1>1, <2>3, SoldForSwitchIs
  <2>4. CASE Crash \/ EndRun \/ RunRaises
    <3>1. job'.machine = "IDLE"
      BY <2>4, IdleIs DEF Crash, EndRun, RunRaises
    <3> QED BY <1>1, <3>1
  <2>5. CASE AtBroker \/ PositionsAnswered \/ UNCHANGED vars
    <3>1. job' = job
      BY <1>1, <2>5, BrokerIs DEF AtBroker, BrokerTouches, PositionsAnswered, vars
    <3> QED BY <1>1, <3>1
  <2>6. ~ Execute /\ ~ StartRun /\ ~ RunAgain /\ ~ Decide
    <3>1. ~ StartRun /\ ~ RunAgain /\ ~ Decide
      BY <1>1, DecideIs DEF StartRun, RunAgain
    <3>2. ~ Execute
      BY <1>1 DEF Execute, BuildTarget, NoTargetOrder, FoundAtBroker, BlockDuplicate, SaveOrder, PassCheck,
         FailCheck, SubmitRefused, PlaceOrder, AwaitOrder, SaveExecution, SettleTarget
    <3> QED BY <3>1, <3>2
  <2>7. CASE Liquidate
    <3>1. LiquidationFailed \/ PositionsRemain \/ LiquidationConfirmed \/ SoldForSwitch
      BY <1>1, <2>7 DEF Liquidate, BeginLiquidation, CancelReported, SettleCancel, RequestCancel,
         CancelUnknown, BuildSell, NoQuoteToSell, NothingToSell, SettleSell
    <3> QED BY <2>1, <2>2, <2>3, <3>1
  <2> QED BY <2>4, <2>5, <2>6, <2>7 DEF Next, AtBroker
<1>3. Quiet /\ Counted /\ HeldSymbols = {}
  BY <1>2 DEF LiquidationConfirmed, Liquidated, Quiet, Counted
<1>4. \A s \in Symbols : held[s] \in Int /\ job.snapshot.held[s] \in Int
  <2>1. job.snapshot \in Snapshots /\ held \in [Symbols -> Int]
    BY <1>1 DEF TypeInv, JobTyped, JobRecords
  <2> QED BY <2>1 DEF Snapshots
<1>5. \A s \in Symbols : ~ job.snapshot.held[s] > 0
  BY <1>3 DEF HeldSymbols
<1> QED BY <1>1, <1>3, <1>4, <1>5 DEF CycleInv, QuietInv, CountedInv

\* When run records a cash target or a risk halt as confirmed, no BUY is left
\* to fill, with the same proviso, and the account is flat if no BUY was filled
\* between the positions and the open orders of the last refresh: no SELL is
\* sized before every BUY the refresh listed is confirmed dead, and what is
\* then held is read again after the SELL.
THEOREM ConfirmedMeansFlat == Spec => CashIsFlat
<1>1. Inv /\ [Next]_vars
        => [(Confirms /\ \A i \in DOMAIN orders : ~ orders[i].concealed)
              => NoBuyWorks /\ (~ late => \A s \in Symbols : held[s] <= 0)]_vars
  BY ConfirmedIsFlat DEF Clear
<1> QED BY <1>1, InvAlways, PTL DEF Spec, CashIsFlat
=============================================================================
