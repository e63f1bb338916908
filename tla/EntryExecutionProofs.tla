------------------------- MODULE EntryExecutionProofs -------------------------
(***************************************************************************)
(* Proofs about EntryExecution, for any symbols, number of entries,        *)
(* equity, requotes, orders and failures: the account never owes, it buys  *)
(* one symbol at a time, a try is sent once, and the entries keep the      *)
(* promise of EntryLedger.                                                 *)
(*                                                                         *)
(* During a pass only a working order changes the holdings: so what the    *)
(* check before submission saw holds until the order goes out if nothing   *)
(* worked at the check (CheckStillHolds), and the order is paid from the   *)
(* cash of the snapshot that sized it (SizedBySnapshot).  Where the pass   *)
(* is, the status of its entry is (EntryInv): from this the phases of the  *)
(* ledger follow.  Most steps leave the account alone (Calm); the lemmas   *)
(* say so of each, and CalmInv of all of them at once.                     *)
(***************************************************************************)
EXTENDS EntryExecution, FiniteSetTheorems, NaturalsInduction, WellFoundedInduction, TLAPS

-----------------------------------------------------------------------------
(* Types.                                                                      *)

OrderRecords ==
  [entry : Entries, index : 0 .. MaxRequotes, qty : Nat, filled : Nat,
   status : {"working", "filled", "cancelled", "refused"},
   seen : {"absent", "Submitted", "Filled", "Cancelled", "Inactive", "Error"}, beside : BOOLEAN]

EntryRecords == [symbol : Symbols \cup {NoSymbol}, status : Statuses, aged : BOOLEAN]

Reportable == {"PARTIALLY_FILLED", "FILLED", "CANCELLED", "TIMEOUT", "REJECTED", "ERROR", "PENDING"}

JobRecords ==
  [pc : Pcs, todo : SUBSET Entries, at : 0 .. MaxEntries, target : Nat, index : 0 .. MaxRequotes,
   qty : Nat, snapshot : [Symbols -> Nat], beside : BOOLEAN,
   report : Reportable \cup {"none"}, bought : {"none", "part", "all"}]

\* A job that holds an entry names it, and one that reports names the report.
JobTyped ==
  /\ job \in JobRecords
  /\ job.pc \notin {"idle", "next"} => Here \in Entries
  /\ job.pc = "reported" => job.report \in Reportable

OrdersTyped ==
  /\ orders \in Seq(OrderRecords)
  /\ \A i \in DOMAIN orders : orders[i].filled <= orders[i].qty

TypeInv ==
  /\ held \in [Symbols -> Nat] /\ entries \in [Entries -> EntryRecords]
  /\ OrdersTyped /\ JobTyped

LEMMA ElementIn ==
  ASSUME NEW S, NEW s \in Seq(S), NEW i \in DOMAIN s
  PROVE  s[i] \in S
OBVIOUS

\* The job record, field by field.
LEMMA WithPc ==
  ASSUME NEW j \in JobRecords, NEW p \in Pcs
  PROVE  LET k == [j EXCEPT !.pc = p]
         IN  /\ k \in JobRecords /\ k.pc = p /\ k.todo = j.todo /\ k.at = j.at
             /\ k.index = j.index /\ k.qty = j.qty /\ k.snapshot = j.snapshot
             /\ k.beside = j.beside /\ k.report = j.report /\ k.bought = j.bought
BY DEF JobRecords

LEMMA WithTodo ==
  ASSUME NEW j \in JobRecords, NEW t \in SUBSET Entries
  PROVE  LET k == [j EXCEPT !.todo = t]
         IN  /\ k \in JobRecords /\ k.todo = t /\ k.pc = j.pc /\ k.at = j.at
             /\ k.index = j.index /\ k.qty = j.qty /\ k.snapshot = j.snapshot
             /\ k.beside = j.beside /\ k.report = j.report /\ k.bought = j.bought
BY DEF JobRecords

LEMMA WithAt ==
  ASSUME NEW j \in JobRecords, NEW e \in 0 .. MaxEntries
  PROVE  LET k == [j EXCEPT !.at = e]
         IN  /\ k \in JobRecords /\ k.at = e /\ k.pc = j.pc /\ k.todo = j.todo
             /\ k.index = j.index /\ k.qty = j.qty /\ k.snapshot = j.snapshot
             /\ k.beside = j.beside /\ k.report = j.report /\ k.bought = j.bought
BY DEF JobRecords

LEMMA WithTarget ==
  ASSUME NEW j \in JobRecords, NEW t \in Nat
  PROVE  LET k == [j EXCEPT !.target = t]
         IN  /\ k \in JobRecords /\ k.pc = j.pc /\ k.todo = j.todo /\ k.at = j.at
             /\ k.index = j.index /\ k.qty = j.qty /\ k.snapshot = j.snapshot
             /\ k.beside = j.beside /\ k.report = j.report /\ k.bought = j.bought
BY DEF JobRecords

LEMMA WithIndex ==
  ASSUME NEW j \in JobRecords, NEW n \in 0 .. MaxRequotes
  PROVE  LET k == [j EXCEPT !.index = n]
         IN  /\ k \in JobRecords /\ k.index = n /\ k.pc = j.pc /\ k.todo = j.todo /\ k.at = j.at
             /\ k.qty = j.qty /\ k.snapshot = j.snapshot
             /\ k.beside = j.beside /\ k.report = j.report /\ k.bought = j.bought
BY DEF JobRecords

LEMMA WithQty ==
  ASSUME NEW j \in JobRecords, NEW n \in Nat
  PROVE  LET k == [j EXCEPT !.qty = n]
         IN  /\ k \in JobRecords /\ k.qty = n /\ k.pc = j.pc /\ k.todo = j.todo /\ k.at = j.at
             /\ k.index = j.index /\ k.snapshot = j.snapshot
             /\ k.beside = j.beside /\ k.report = j.report /\ k.bought = j.bought
BY DEF JobRecords

LEMMA WithSnapshot ==
  ASSUME NEW j \in JobRecords, NEW h \in [Symbols -> Nat]
  PROVE  LET k == [j EXCEPT !.snapshot = h]
         IN  /\ k \in JobRecords /\ k.snapshot = h /\ k.pc = j.pc /\ k.todo = j.todo /\ k.at = j.at
             /\ k.index = j.index /\ k.qty = j.qty
             /\ k.beside = j.beside /\ k.report = j.report /\ k.bought = j.bought
BY DEF JobRecords

LEMMA WithBeside ==
  ASSUME NEW j \in JobRecords, NEW b \in BOOLEAN
  PROVE  LET k == [j EXCEPT !.beside = b]
         IN  /\ k \in JobRecords /\ k.beside = b /\ k.pc = j.pc /\ k.todo = j.todo /\ k.at = j.at
             /\ k.index = j.index /\ k.qty = j.qty /\ k.snapshot = j.snapshot
             /\ k.report = j.report /\ k.bought = j.bought
BY DEF JobRecords

LEMMA WithReport ==
  ASSUME NEW j \in JobRecords, NEW r \in Reportable
  PROVE  LET k == [j EXCEPT !.report = r]
         IN  /\ k \in JobRecords /\ k.report = r /\ k.pc = j.pc /\ k.todo = j.todo /\ k.at = j.at
             /\ k.index = j.index /\ k.qty = j.qty /\ k.snapshot = j.snapshot
             /\ k.beside = j.beside /\ k.bought = j.bought
BY DEF JobRecords

LEMMA WithBought ==
  ASSUME NEW j \in JobRecords, NEW b \in {"none", "part", "all"}
  PROVE  LET k == [j EXCEPT !.bought = b]
         IN  /\ k \in JobRecords /\ k.bought = b /\ k.pc = j.pc /\ k.todo = j.todo /\ k.at = j.at
             /\ k.index = j.index /\ k.qty = j.qty /\ k.snapshot = j.snapshot
             /\ k.beside = j.beside /\ k.report = j.report
BY DEF JobRecords

LEMMA IdleIs ==
  /\ Idle \in JobRecords /\ Idle.pc = "idle" /\ Idle.todo = {} /\ Idle.at = 0
  /\ Idle.index = 0 /\ Idle.qty = 0 /\ Idle.snapshot = NoHoldings /\ ~ Idle.beside
  /\ Idle.report = "none" /\ Idle.bought = "none"
BY EntryAssumption DEF Idle, JobRecords, Pcs, NoHoldings, Reportable

LEMMA NextEntryIs ==
  ASSUME job \in JobRecords
  PROVE  /\ NextEntry \in JobRecords /\ NextEntry.pc = "next"
         /\ NextEntry.todo = job.todo \ {Here} /\ NextEntry.at = 0
<1> DEFINE t == job.todo \ {Here}
           j == [Idle EXCEPT !.pc = "next"]
           k == [j EXCEPT !.todo = t]
<1>1. NextEntry = k
  BY DEF NextEntry
<1>2. t \in SUBSET Entries /\ "next" \in Pcs
  BY DEF JobRecords, Pcs
<1>3. j \in JobRecords /\ j.pc = "next" /\ j.at = 0
  BY <1>2, IdleIs, WithPc
<1>4. k \in JobRecords /\ k.pc = "next" /\ k.todo = t /\ k.at = 0
  <2> HIDE DEF j, t
  <2> QED BY <1>2, <1>3, WithTodo
<1> QED BY <1>1, <1>4

LEMMA ReportsIs ==
  ASSUME job \in JobRecords, NEW r \in Reportable
  PROVE  /\ Reports(r) \in JobRecords /\ Reports(r).pc = "reported"
         /\ Reports(r).todo = job.todo /\ Reports(r).at = Here
         /\ Reports(r).report = r /\ Reports(r).bought = "none"
<1> DEFINE j == [Idle EXCEPT !.pc = "reported"]
           k == [j EXCEPT !.todo = job.todo]
           m == [k EXCEPT !.at = Here]
           q == [m EXCEPT !.report = r]
<1>1. Reports(r) = q
  BY DEF Reports
<1>2. job.todo \in SUBSET Entries /\ Here \in 0 .. MaxEntries /\ "reported" \in Pcs
  BY DEF JobRecords, Pcs, Here
<1>3. j \in JobRecords /\ j.pc = "reported" /\ j.bought = "none"
  BY <1>2, IdleIs, WithPc
<1>4. k \in JobRecords /\ k.pc = "reported" /\ k.todo = job.todo /\ k.bought = "none"
  <2> HIDE DEF j
  <2> QED BY <1>2, <1>3, WithTodo
<1>5. /\ m \in JobRecords /\ m.pc = "reported" /\ m.todo = job.todo /\ m.at = Here
      /\ m.bought = "none"
  <2> HIDE DEF k
  <2> QED BY <1>2, <1>4, WithAt
<1>6. /\ q \in JobRecords /\ q.pc = "reported" /\ q.todo = job.todo /\ q.at = Here
      /\ q.report = r /\ q.bought = "none"
  <2> HIDE DEF m
  <2> QED BY <1>5, WithReport
<1> QED BY <1>1, <1>6

-----------------------------------------------------------------------------
(* What a step makes of the pass, the rows and the orders.                     *)

\* The pass comes to p with the same entry and the same list.
Stays(p) ==
  /\ job' \in JobRecords /\ job'.pc = p /\ job'.todo = job.todo /\ job'.at = Here

LEMMA MovesIs ==
  ASSUME job \in JobRecords, NEW p \in Pcs, job' = [job EXCEPT !.pc = p]
  PROVE  /\ Stays(p) /\ job'.index = job.index /\ job'.qty = job.qty
         /\ job'.snapshot = job.snapshot /\ job'.beside = job.beside
BY WithPc DEF Stays, Here

LEMMA ReportedIs ==
  ASSUME job \in JobRecords, NEW r \in Reportable, NEW b \in {"none", "part", "all"},
         job' = [Reports(r) EXCEPT !.bought = b]
  PROVE  Stays("reported") /\ job'.report = r /\ job'.bought = b
<1> DEFINE q == Reports(r)
<1>1. /\ q \in JobRecords /\ q.pc = "reported" /\ q.todo = job.todo /\ q.at = Here /\ q.report = r
  BY ReportsIs
<1> HIDE DEF q
<1> DEFINE k == [q EXCEPT !.bought = b]
<1>2. job' = k
  BY DEF q
<1>3. /\ k \in JobRecords /\ k.pc = "reported" /\ k.todo = job.todo /\ k.at = Here /\ k.report = r
      /\ k.bought = b
  BY <1>1, WithBought
<1> HIDE DEF k
<1> QED BY <1>2, <1>3 DEF Stays

LEMMA PlainReportIs ==
  ASSUME job \in JobRecords, NEW r \in Reportable, job' = Reports(r)
  PROVE  Stays("reported") /\ job'.report = r /\ job'.bought = "none"
BY ReportsIs DEF Stays

LEMMA ProcessEntriesIs ==
  ASSUME TypeInv, ProcessEntries
  PROVE  /\ job' \in JobRecords /\ job'.pc = "next" /\ job'.todo = Listed
         /\ UNCHANGED <<held, orders, entries>>
<1> DEFINE j == [Idle EXCEPT !.pc = "next"]
           k == [j EXCEPT !.todo = Listed]
<1>1. job' = k
  BY DEF ProcessEntries
<1>2. Listed \in SUBSET Entries /\ "next" \in Pcs
  BY DEF Listed, Pcs
<1>3. j \in JobRecords /\ j.pc = "next"
  BY <1>2, IdleIs, WithPc
<1>4. k \in JobRecords /\ k.pc = "next" /\ k.todo = Listed
  <2> HIDE DEF j
  <2> QED BY <1>2, <1>3, WithTodo
<1> HIDE DEF k
<1> QED BY <1>1, <1>4 DEF ProcessEntries, world

\* An entry leaves the list.
LEMMA DropsIs ==
  ASSUME job \in JobRecords, NEW e, job.pc = "next", job' = [job EXCEPT !.todo = @ \ {e}]
  PROVE  job' \in JobRecords /\ job'.pc = "next" /\ job'.todo = job.todo \ {e}
<1> DEFINE t == job.todo \ {e}
<1>1. t \in SUBSET Entries
  BY DEF JobRecords
<1> DEFINE k == [job EXCEPT !.todo = t]
<1>2. job' = k
  OBVIOUS
<1>3. k \in JobRecords /\ k.pc = "next" /\ k.todo = t
  <2> HIDE DEF t
  <2> QED BY <1>1, WithTodo
<1> HIDE DEF k
<1> QED BY <1>2, <1>3

LEMMA TakeUpIs ==
  ASSUME TypeInv, NEW e \in job.todo, TakeUp(e)
  PROVE  /\ job' \in JobRecords /\ job'.pc = "reconciling" /\ job'.todo = job.todo /\ job'.at = e
         /\ e \in Entries /\ job.pc = "next"
         /\ UNCHANGED <<held, orders, entries>>
<1> DEFINE j == [job EXCEPT !.pc = "reconciling"]
           k == [j EXCEPT !.at = e]
<1>1. job' = k
  BY DEF TakeUp
<1>2. job \in JobRecords /\ e \in Entries /\ e \in 0 .. MaxEntries /\ "reconciling" \in Pcs
  BY EntryAssumption DEF TypeInv, JobTyped, JobRecords, Entries, Pcs
<1>3. j \in JobRecords /\ j.pc = "reconciling" /\ j.todo = job.todo
  BY <1>2, WithPc
<1>4. k \in JobRecords /\ k.pc = "reconciling" /\ k.todo = job.todo /\ k.at = e
  <2> HIDE DEF j
  <2> QED BY <1>2, <1>3, WithAt
<1> HIDE DEF k
<1> QED BY <1>1, <1>2, <1>4 DEF TakeUp, First, world

LEMMA ReconcileEntryIs ==
  ASSUME TypeInv, ReconcileEntry
  PROVE  Stays("quoting")
<1> DEFINE j == [job EXCEPT !.pc = "quoting"]
           k == [j EXCEPT !.snapshot = held]
<1>1. job' = k
  BY DEF ReconcileEntry
<1>2. job \in JobRecords /\ held \in [Symbols -> Nat] /\ "quoting" \in Pcs
  BY DEF TypeInv, JobTyped, Pcs
<1>3. j \in JobRecords /\ j.pc = "quoting" /\ j.todo = job.todo /\ j.at = Here
  BY <1>2, WithPc DEF Here
<1>4. k \in JobRecords /\ k.pc = "quoting" /\ k.todo = job.todo /\ k.at = Here
  <2> HIDE DEF j
  <2> QED BY <1>2, <1>3, WithSnapshot
<1> HIDE DEF k
<1> QED BY <1>1, <1>4 DEF Stays

LEMMA RiskApprovesIs ==
  ASSUME TypeInv, RiskApproves
  PROVE  Stays("building")
<1>1. PICK target \in 1 .. Capital : job' = [job EXCEPT !.pc = "building", !.target = target]
  BY DEF RiskApproves
<1> DEFINE j == [job EXCEPT !.pc = "building"]
           k == [j EXCEPT !.target = target]
<1>2. job \in JobRecords /\ target \in Nat /\ "building" \in Pcs
  BY EntryAssumption DEF TypeInv, JobTyped, Pcs
<1>3. j \in JobRecords /\ j.pc = "building" /\ j.todo = job.todo /\ j.at = Here
  BY <1>2, WithPc DEF Here
<1>4. k \in JobRecords /\ k.pc = "building" /\ k.todo = job.todo /\ k.at = Here
  <2> HIDE DEF j
  <2> QED BY <1>2, <1>3, WithTarget
<1>5. job' = k
  BY <1>1
<1> HIDE DEF k
<1> QED BY <1>4, <1>5 DEF Stays

LEMMA RequotedIs ==
  ASSUME TypeInv, job' = [job EXCEPT !.pc = "building", !.index = @ + 1],
         job.index + 1 \in 0 .. MaxRequotes
  PROVE  Stays("building")
<1> DEFINE j == [job EXCEPT !.pc = "building"]
           n == job.index + 1
           k == [j EXCEPT !.index = n]
<1>1. job \in JobRecords /\ "building" \in Pcs
  BY DEF TypeInv, JobTyped, Pcs
<1>2. job' = k
  BY <1>1, WithPc
<1>3. j \in JobRecords /\ j.pc = "building" /\ j.todo = job.todo /\ j.at = Here
  BY <1>1, WithPc DEF Here
<1>4. k \in JobRecords /\ k.pc = "building" /\ k.todo = job.todo /\ k.at = Here
  <2> HIDE DEF j, n
  <2>1. n \in 0 .. MaxRequotes
    BY DEF n
  <2> QED BY <1>3, <2>1, WithIndex
<1> HIDE DEF k
<1> QED BY <1>2, <1>4 DEF Stays

LEMMA SettlingIs ==
  ASSUME TypeInv, job' = [Idle EXCEPT !.pc = "settling", !.todo = job.todo, !.at = Here]
  PROVE  Stays("settling")
<1> DEFINE j == [Idle EXCEPT !.pc = "settling"]
           k == [j EXCEPT !.todo = job.todo]
           m == [k EXCEPT !.at = Here]
<1>1. job' = m
  OBVIOUS
<1>2. job.todo \in SUBSET Entries /\ Here \in 0 .. MaxEntries /\ "settling" \in Pcs
  BY DEF TypeInv, JobTyped, JobRecords, Pcs, Here
<1>3. j \in JobRecords /\ j.pc = "settling"
  BY <1>2, IdleIs, WithPc
<1>4. k \in JobRecords /\ k.pc = "settling" /\ k.todo = job.todo
  <2> HIDE DEF j
  <2> QED BY <1>2, <1>3, WithTodo
<1>5. m \in JobRecords /\ m.pc = "settling" /\ m.todo = job.todo /\ m.at = Here
  <2> HIDE DEF k
  <2> QED BY <1>2, <1>4, WithAt
<1> HIDE DEF m
<1> QED BY <1>1, <1>5 DEF Stays

\* A row that is marked keeps its symbol, and the others keep everything.
LEMMA MarkedIs ==
  ASSUME entries \in [Entries -> EntryRecords], NEW e \in Entries, NEW s \in Statuses,
         entries' = [entries EXCEPT ![e].status = s]
  PROVE  /\ entries' \in [Entries -> EntryRecords] /\ entries'[e].status = s
         /\ \A x \in Entries : entries'[x].symbol = entries[x].symbol
         /\ \A x \in Entries \ {e} : entries'[x] = entries[x]
<1> DEFINE r == [entries[e] EXCEPT !.status = s]
<1>1. r \in EntryRecords /\ r.status = s /\ r.symbol = entries[e].symbol
  BY DEF EntryRecords
<1>2. entries' = [entries EXCEPT ![e] = r]
  OBVIOUS
<1> HIDE DEF r
<1> QED BY <1>1, <1>2

\* All of an order but what the adapter has seen of it.
SameOrder(p, o) ==
  /\ p.entry = o.entry /\ p.index = o.index /\ p.qty = o.qty /\ p.filled = o.filled
  /\ p.status = o.status /\ p.beside = o.beside

SameOrders ==
  /\ OrdersTyped' /\ DOMAIN orders' = DOMAIN orders
  /\ \A i \in DOMAIN orders : SameOrder(orders'[i], orders[i])

LEMMA SeenIs ==
  ASSUME OrdersTyped, NEW S,
         NEW seen \in [S -> {"absent", "Submitted", "Filled", "Cancelled", "Inactive", "Error"}],
         S = DOMAIN orders, orders' = [i \in DOMAIN orders |-> [orders[i] EXCEPT !.seen = seen[i]]]
  PROVE  SameOrders /\ \A i \in DOMAIN orders : orders'[i].seen = seen[i]
<1>1. \A i \in DOMAIN orders :
        /\ orders'[i] \in OrderRecords /\ orders'[i].seen = seen[i]
        /\ SameOrder(orders'[i], orders[i])
  <2> SUFFICES ASSUME NEW i \in DOMAIN orders
               PROVE  /\ orders'[i] \in OrderRecords /\ orders'[i].seen = seen[i]
                      /\ SameOrder(orders'[i], orders[i])
    OBVIOUS
  <2> DEFINE p == [orders[i] EXCEPT !.seen = seen[i]]
  <2>1. orders[i] \in OrderRecords /\ orders'[i] = p
    BY ElementIn DEF OrdersTyped
  <2>2. seen[i] \in {"absent", "Submitted", "Filled", "Cancelled", "Inactive", "Error"}
    OBVIOUS
  <2>3. p \in OrderRecords /\ p.seen = seen[i] /\ SameOrder(p, orders[i])
    <3> DEFINE o == orders[i]
               v == seen[i]
    <3>1. o \in OrderRecords /\ v \in {"absent", "Submitted", "Filled", "Cancelled", "Inactive", "Error"}
      BY <2>1, <2>2
    <3>2. p = [o EXCEPT !.seen = v]
      OBVIOUS
    <3> HIDE DEF o, v
    <3>3. [o EXCEPT !.seen = v] \in OrderRecords
      BY <3>1 DEF OrderRecords
    <3>4. [o EXCEPT !.seen = v].seen = v /\ SameOrder([o EXCEPT !.seen = v], o)
      BY <3>1 DEF OrderRecords, SameOrder
    <3> HIDE DEF p
    <3> QED BY <3>2, <3>3, <3>4 DEF o, v
  <2> HIDE DEF p
  <2> QED BY <2>1, <2>3
<1>2. Len(orders) \in Nat /\ DOMAIN orders = 1 .. Len(orders)
  BY DEF OrdersTyped
<1>3. orders' \in [1 .. Len(orders) -> OrderRecords]
  BY <1>1, <1>2
<1>4. orders' \in Seq(OrderRecords) /\ DOMAIN orders' = DOMAIN orders
  BY <1>2, <1>3
<1> QED BY <1>1, <1>4 DEF SameOrders, OrdersTyped, SameOrder

LEMMA UnseenIs ==
  ASSUME OrdersTyped, orders' = Unseen
  PROVE  SameOrders
<1> DEFINE seen == [i \in DOMAIN orders |-> "absent"]
<1>1. orders' = [i \in DOMAIN orders |-> [orders[i] EXCEPT !.seen = seen[i]]]
  BY DEF Unseen
<1>2. seen \in [DOMAIN orders -> {"absent", "Submitted", "Filled", "Cancelled", "Inactive", "Error"}]
  OBVIOUS
<1> HIDE DEF seen
<1> QED BY <1>1, <1>2, SeenIs

LEMMA RefreshedIs ==
  ASSUME OrdersTyped, orders' = Refreshed
  PROVE  /\ SameOrders
         /\ \A i \in DOMAIN orders :
              SameId(i) /\ orders'[i].seen = "absent" => orders[i].status # "working"
                                                         /\ orders[i].filled = 0
<1> DEFINE seen == [i \in DOMAIN orders |-> IF SameId(i) THEN Rebuilt(orders[i]) ELSE "absent"]
<1>1. orders' = [i \in DOMAIN orders |-> [orders[i] EXCEPT !.seen = seen[i]]]
  BY DEF Refreshed
<1>2. seen \in [DOMAIN orders -> {"absent", "Submitted", "Filled", "Cancelled", "Inactive", "Error"}]
  BY DEF Rebuilt, SeenAsOpen
<1>3. \A i \in DOMAIN orders :
        SameId(i) /\ seen[i] = "absent" => orders[i].status # "working" /\ orders[i].filled = 0
  <2> SUFFICES ASSUME NEW i \in DOMAIN orders, Rebuilt(orders[i]) = "absent"
               PROVE  orders[i].status # "working" /\ orders[i].filled = 0
    OBVIOUS
  <2>0. orders[i] \in OrderRecords
    BY ElementIn DEF OrdersTyped
  <2>1. orders[i].filled \in Nat
    BY <2>0 DEF OrderRecords
  <2> QED BY <2>1 DEF Rebuilt, SeenAsOpen
<1> HIDE DEF seen
<1> QED BY <1>1, <1>2, <1>3, SeenIs
-----------------------------------------------------------------------------
(* Total, of any finite function: by induction on how many are summed.         *)

LEMMA Least ==
  ASSUME NEW T \in SUBSET Nat, T # {}
  PROVE  \E x \in T : \A y \in T : x <= y
<1>1. \A x, y \in Nat : <<y, x>> \in OpToRel(<, Nat) <=> y < x
  BY DEF OpToRel
<1>2. PICK x \in T : \A y \in T : ~ (<<y, x>> \in OpToRel(<, Nat))
  BY NatLessThanWellFounded, WFMin
<1>3. \A y \in T : x <= y
  <2> TAKE y \in T
  <2>1. ~ (<<y, x>> \in OpToRel(<, Nat))
    BY <1>2
  <2>2. x \in Nat /\ y \in Nat
    OBVIOUS
  <2>3. ~ (y < x)
    BY <1>1, <2>1, <2>2
  <2> QED BY <2>2, <2>3
<1> QED BY <1>3

\* Of the subsets that fail there is one none of whose parts fails.
LEMMA SmallestSubset ==
  ASSUME NEW T, IsFiniteSet(T), NEW Bad \in SUBSET (SUBSET T), Bad # {}
  PROVE  \E s \in Bad : \A x \in s : s \ {x} \notin Bad
<1> DEFINE N == {Cardinality(s) : s \in Bad}
<1>1. \A s \in Bad : IsFiniteSet(s) /\ Cardinality(s) \in Nat
  BY FS_Subset, FS_CardinalityType
<1>2. PICK n \in N : \A m \in N : n <= m
  <2>1. N \in SUBSET Nat /\ N # {}
    BY <1>1
  <2> HIDE DEF N
  <2> QED BY <2>1, Least
<1>3. PICK s \in Bad : Cardinality(s) = n
  BY <1>2
<1>4. \A x \in s : s \ {x} \notin Bad
  <2> SUFFICES ASSUME NEW x \in s, s \ {x} \in Bad PROVE FALSE
    OBVIOUS
  <2>1. Cardinality(s \ {x}) = Cardinality(s) - 1
    BY <1>1, FS_RemoveElement
  <2>2. Cardinality(s \ {x}) \in N
    OBVIOUS
  <2> HIDE DEF N
  <2> QED BY <1>1, <1>2, <1>3, <2>1, <2>2
<1> QED BY <1>4

\* The recursion behind FoldFunction, on the sets of at most n.
Pick(s)           == CHOOSE x \in s : TRUE
SumStep(f, G, s)  == IF s = {} THEN 0 ELSE f[Pick(s)] + G[s \ {Pick(s)}]
IsTable(f, G, S)  == G = [s \in S |-> SumStep(f, G, s)]
UpTo(T, n)        == {s \in SUBSET T : Cardinality(s) <= n}
Table(f, T)       == CHOOSE G : IsTable(f, G, SUBSET T)

LEMMA TotalIsTable ==
  ASSUME NEW f
  PROVE  Total(f) = Table(f, DOMAIN f)[DOMAIN f]
BY DEF Total, FoldFunction, FoldFunctionOnSet, MapThenFoldSet, Table, IsTable, SumStep, Pick

LEMMA PickIs ==
  ASSUME NEW s, s # {}
  PROVE  Pick(s) \in s
BY DEF Pick

LEMMA TableUpTo ==
  ASSUME NEW f, NEW T, IsFiniteSet(T), NEW n \in Nat
  PROVE  \E G : IsTable(f, G, UpTo(T, n))
<1> SUFFICES ASSUME ~ \E G : IsTable(f, G, UpTo(T, n)) PROVE FALSE
  OBVIOUS
<1> DEFINE Bad == {k \in Nat : ~ \E G : IsTable(f, G, UpTo(T, k))}
<1>1. PICK m \in Bad : \A k \in Bad : m <= k
  <2>1. Bad \in SUBSET Nat /\ Bad # {}
    OBVIOUS
  <2> HIDE DEF Bad
  <2> QED BY <2>1, Least
<1>2. \A s \in SUBSET T : IsFiniteSet(s) /\ Cardinality(s) \in Nat
  BY FS_Subset, FS_CardinalityType
<1>3. CASE m = 0
  <2> DEFINE H == [s \in UpTo(T, 0) |-> 0]
  <2>1. \A s \in UpTo(T, 0) : s = {}
    <3> TAKE s \in UpTo(T, 0)
    <3>1. IsFiniteSet(s) /\ Cardinality(s) = 0
      BY <1>2 DEF UpTo
    <3> QED BY <3>1, FS_EmptySet
  <2>2. \A s \in UpTo(T, 0) : SumStep(f, H, s) = 0
    BY <2>1 DEF SumStep
  <2>3. IsTable(f, H, UpTo(T, 0))
    BY <2>2 DEF IsTable
  <2> QED BY <1>3, <2>3
<1>4. CASE m # 0
  <2> DEFINE k == m - 1
  <2>1. m \in Nat /\ k \in Nat /\ k + 1 = m /\ ~ m <= k
    BY <1>4
  <2>2. PICK G : IsTable(f, G, UpTo(T, k))
    <3>1. k \notin Bad
      BY <1>1, <2>1
    <3> QED BY <2>1, <3>1
  <2> HIDE DEF k
  <2> DEFINE H == [s \in UpTo(T, m) |-> SumStep(f, G, s)]
  <2>3. \A s \in UpTo(T, k) : H[s] = G[s]
    <3> TAKE s \in UpTo(T, k)
    <3>1. s \in UpTo(T, m)
      BY <1>2, <2>1 DEF UpTo
    <3>2. G[s] = SumStep(f, G, s)
      BY <2>2 DEF IsTable
    <3> QED BY <3>1, <3>2
  <2> HIDE DEF H
  <2>4. \A s \in UpTo(T, m) : SumStep(f, H, s) = SumStep(f, G, s)
    <3> SUFFICES ASSUME NEW s \in UpTo(T, m), s # {}
                 PROVE  H[s \ {Pick(s)}] = G[s \ {Pick(s)}]
      BY DEF SumStep
    <3>1. s \in SUBSET T /\ Pick(s) \in s
      BY PickIs DEF UpTo
    <3>2. Cardinality(s \ {Pick(s)}) = Cardinality(s) - 1
      BY <1>2, <3>1, FS_RemoveElement
    <3>3. s \ {Pick(s)} \in UpTo(T, k)
      <4>1. Cardinality(s) <= m /\ Cardinality(s) \in Nat
        BY <1>2 DEF UpTo
      <4>2. Cardinality(s \ {Pick(s)}) <= k
        BY <2>1, <3>2, <4>1
      <4> QED BY <3>1, <4>2 DEF UpTo
    <3> QED BY <2>3, <3>3
  <2>5. IsTable(f, H, UpTo(T, m))
    BY <2>4 DEF IsTable, H
  <2> QED BY <1>1, <2>5
<1> QED BY <1>3, <1>4

LEMMA TableIs ==
  ASSUME NEW f, NEW T, IsFiniteSet(T)
  PROVE  \A s \in SUBSET T : Table(f, T)[s] = SumStep(f, Table(f, T), s)
<1>1. Cardinality(T) \in Nat
  BY FS_CardinalityType
<1>2. UpTo(T, Cardinality(T)) = SUBSET T
  BY FS_Subset DEF UpTo
<1>3. \E G : IsTable(f, G, SUBSET T)
  <2>1. \E G : IsTable(f, G, UpTo(T, Cardinality(T)))
    BY <1>1, TableUpTo
  <2> QED BY <1>2, <2>1
<1>4. IsTable(f, Table(f, T), SUBSET T)
  BY <1>3 DEF Table
<1> HIDE DEF Table
<1> QED BY <1>4 DEF IsTable

LEMMA TableIsNat ==
  ASSUME NEW T, IsFiniteSet(T), NEW f \in [T -> Nat]
  PROVE  \A s \in SUBSET T : Table(f, T)[s] \in Nat
<1> DEFINE G   == Table(f, T)
           Bad == {s \in SUBSET T : G[s] \notin Nat}
<1>1. \A s \in SUBSET T : G[s] = SumStep(f, G, s)
  BY TableIs
<1> HIDE DEF G
<1>2. SUFFICES ASSUME Bad # {} PROVE FALSE
  BY DEF G
<1>3. PICK s \in Bad : \A x \in s : s \ {x} \notin Bad
  <2>1. Bad \in SUBSET (SUBSET T)
    OBVIOUS
  <2> HIDE DEF Bad
  <2> QED BY <1>2, <2>1, SmallestSubset
<1>4. s # {}
  BY <1>1 DEF SumStep
<1>5. Pick(s) \in s /\ f[Pick(s)] \in Nat
  BY <1>4, PickIs
<1>6. G[s \ {Pick(s)}] \in Nat
  BY <1>3, <1>5
<1>7. G[s] = f[Pick(s)] + G[s \ {Pick(s)}]
  BY <1>1, <1>4 DEF SumStep
<1> QED BY <1>5, <1>6, <1>7

\* Any summand may be taken out first.
LEMMA TakeOut ==
  ASSUME NEW T, IsFiniteSet(T), NEW f \in [T -> Nat]
  PROVE  \A s \in SUBSET T : \A d \in s : Table(f, T)[s] = f[d] + Table(f, T)[s \ {d}]
<1> DEFINE G     == Table(f, T)
           Ok(s) == \A d \in s : G[s] = f[d] + G[s \ {d}]
           Bad   == {s \in SUBSET T : ~ Ok(s)}
<1>1. \A s \in SUBSET T : G[s] = SumStep(f, G, s)
  BY TableIs
<1>2. \A s \in SUBSET T : G[s] \in Nat
  BY TableIsNat
<1> HIDE DEF G
<1>3. SUFFICES ASSUME Bad # {} PROVE FALSE
  BY DEF G
<1>4. PICK s \in Bad : \A x \in s : s \ {x} \notin Bad
  <2>1. Bad \in SUBSET (SUBSET T)
    OBVIOUS
  <2> HIDE DEF Bad
  <2> QED BY <1>3, <2>1, SmallestSubset
<1>5. s \in SUBSET T
  OBVIOUS
<1>6. PICK d \in s : G[s] # f[d] + G[s \ {d}]
  BY <1>4
<1> DEFINE x == Pick(s)
<1>7. x \in s /\ G[s] = f[x] + G[s \ {x}]
  BY <1>1, <1>5, <1>6, PickIs DEF SumStep
<1> HIDE DEF x
<1>8. x # d
  BY <1>6, <1>7
<1>9. G[s \ {x}] = f[d] + G[(s \ {x}) \ {d}]
  <2>1. Ok(s \ {x}) /\ d \in s \ {x}
    BY <1>4, <1>5, <1>7, <1>8
  <2> QED BY <2>1
<1>10. G[s \ {d}] = f[x] + G[(s \ {d}) \ {x}]
  <2>1. Ok(s \ {d}) /\ x \in s \ {d}
    BY <1>4, <1>5, <1>7, <1>8
  <2> QED BY <2>1
<1>11. (s \ {x}) \ {d} = (s \ {d}) \ {x}
  OBVIOUS
<1>12. G[(s \ {d}) \ {x}] \in Nat /\ f[d] \in Nat /\ f[x] \in Nat
  BY <1>2, <1>5, <1>7
<1>13. G[s \ {x}] = f[d] + G[(s \ {d}) \ {x}]
  BY <1>9, <1>11
<1> DEFINE r == G[(s \ {d}) \ {x}]
<1>14. G[s] = f[x] + (f[d] + r) /\ G[s \ {d}] = f[x] + r
  BY <1>7, <1>10, <1>13
<1>15. r \in Nat
  BY <1>12
<1> HIDE DEF r
<1> QED BY <1>6, <1>12, <1>14, <1>15

LEMMA TablesAgree ==
  ASSUME NEW T, IsFiniteSet(T), NEW f, NEW g
  PROVE  \A s \in SUBSET T : (\A x \in s : f[x] = g[x]) => Table(f, T)[s] = Table(g, T)[s]
<1> DEFINE F   == Table(f, T)
           G   == Table(g, T)
           Bad == {s \in SUBSET T : (\A x \in s : f[x] = g[x]) /\ F[s] # G[s]}
<1>1. \A s \in SUBSET T : F[s] = SumStep(f, F, s) /\ G[s] = SumStep(g, G, s)
  BY TableIs
<1> HIDE DEF F, G
<1>2. SUFFICES ASSUME Bad # {} PROVE FALSE
  BY DEF F, G
<1>3. PICK s \in Bad : \A x \in s : s \ {x} \notin Bad
  <2>1. Bad \in SUBSET (SUBSET T)
    OBVIOUS
  <2> HIDE DEF Bad
  <2> QED BY <1>2, <2>1, SmallestSubset
<1>4. s # {}
  BY <1>1 DEF SumStep
<1>5. Pick(s) \in s
  BY <1>4, PickIs
<1>6. F[s \ {Pick(s)}] = G[s \ {Pick(s)}]
  BY <1>3, <1>5
<1>7. F[s] = f[Pick(s)] + F[s \ {Pick(s)}] /\ G[s] = g[Pick(s)] + G[s \ {Pick(s)}]
  BY <1>1, <1>4 DEF SumStep
<1> QED BY <1>5, <1>6, <1>7

\* What the proofs use: a total is a number, changes by what one summand
\* changes, and is that of the only summand there is.
LEMMA TotalIsNat ==
  ASSUME NEW T, IsFiniteSet(T), NEW f \in [T -> Nat]
  PROVE  Total(f) \in Nat
<1>1. Total(f) = Table(f, T)[T]
  BY TotalIsTable
<1> QED BY <1>1, TableIsNat

LEMMA TotalOfUpdate ==
  ASSUME NEW T, IsFiniteSet(T), NEW f \in [T -> Nat], NEW g \in [T -> Nat], NEW d \in T,
         \A x \in T \ {d} : g[x] = f[x]
  PROVE  Total(g) + f[d] = Total(f) + g[d]
<1>1. Total(f) = Table(f, T)[T] /\ Total(g) = Table(g, T)[T]
  BY TotalIsTable
<1>2. T \in SUBSET T /\ T \ {d} \in SUBSET T
  OBVIOUS
<1>3. Table(f, T)[T] = f[d] + Table(f, T)[T \ {d}]
  BY <1>2, TakeOut
<1>4. Table(g, T)[T] = g[d] + Table(g, T)[T \ {d}]
  BY <1>2, TakeOut
<1>5. Table(f, T)[T \ {d}] = Table(g, T)[T \ {d}]
  BY <1>2, TablesAgree
<1>6. Table(f, T)[T \ {d}] \in Nat /\ f[d] \in Nat /\ g[d] \in Nat
  BY <1>2, TableIsNat
<1> HIDE DEF Table
<1> QED BY <1>1, <1>3, <1>4, <1>5, <1>6

LEMMA TotalOfNothing ==
  ASSUME NEW T, IsFiniteSet(T), NEW f \in [T -> Nat], \A x \in T : f[x] = 0
  PROVE  Total(f) = 0
<1> DEFINE G   == Table(f, T)
           Bad == {s \in SUBSET T : G[s] # 0}
<1>1. \A s \in SUBSET T : G[s] = SumStep(f, G, s)
  BY TableIs
<1>2. Total(f) = G[T] /\ T \in SUBSET T
  BY TotalIsTable
<1> HIDE DEF G
<1>3. SUFFICES ASSUME Bad # {} PROVE FALSE
  BY <1>2
<1>4. PICK s \in Bad : \A x \in s : s \ {x} \notin Bad
  <2>1. Bad \in SUBSET (SUBSET T)
    OBVIOUS
  <2> HIDE DEF Bad
  <2> QED BY <1>3, <2>1, SmallestSubset
<1>5. s # {}
  BY <1>1 DEF SumStep
<1>6. Pick(s) \in s
  BY <1>5, PickIs
<1>7. G[s \ {Pick(s)}] = 0 /\ f[Pick(s)] = 0
  BY <1>4, <1>6
<1>8. G[s] = f[Pick(s)] + G[s \ {Pick(s)}]
  BY <1>1, <1>5 DEF SumStep
<1> QED BY <1>7, <1>8

LEMMA TotalOfOne ==
  ASSUME NEW T, IsFiniteSet(T), NEW f \in [T -> Nat], NEW d \in T, \A x \in T \ {d} : f[x] = 0
  PROVE  Total(f) = f[d]
<1> DEFINE z == [x \in T |-> 0]
<1>1. z \in [T -> Nat] /\ Total(z) = 0 /\ z[d] = 0
  BY TotalOfNothing
<1>2. \A x \in T \ {d} : f[x] = z[x]
  OBVIOUS
<1> HIDE DEF z
<1>3. Total(f) + z[d] = Total(z) + f[d]
  BY <1>1, <1>2, TotalOfUpdate
<1>4. Total(f) \in Nat
  BY TotalIsNat
<1> QED BY <1>1, <1>3, <1>4
-----------------------------------------------------------------------------
(* The invariant.                                                              *)

\* An entry has its symbol once it was captured, and an order belongs to one
\* that was.
RowsInv ==
  /\ \A e \in Entries : entries[e].status # "none" => Symbol(e) \in Symbols
  /\ \A i \in DOMAIN orders : entries[orders[i].entry].status # "none"

Untried == {"reconciling", "quoting", "reviewing"}
Trial   == {"risking", "building", "checking", "submitting", "placed", "awaiting", "cancelling",
            "requoting"}

\* The entries the pass has still to come to wait.
TodoInv ==
  /\ job.pc = "idle" => job.todo = {}
  /\ \A e \in job.todo : e # Here \/ job.pc = "next" => entries[e].status \in Waiting

\* Where the pass is, its entry is: only what no order was sent for is reported
\* of an entry that is not being tried.
EntryInv ==
  /\ job.pc \in Untried => entries[Here].status \in Waiting
  /\ job.pc \in Trial => entries[Here].status \in Trying
  /\ job.pc = "reported" => \/ entries[Here].status \in Trying
                            \/ /\ job.report = "ERROR" /\ job.bought = "none"
                               /\ entries[Here].status # "none"
  /\ job.pc = "settling" => entries[Here].status \in Settled
  /\ job.pc = "requoting" => job.index < MaxRequotes

\* Between the check and the order: what the adapter does not know of this try
\* is dead and bought nothing.
UnknownIsDead ==
  job.pc = "submitting" =>
    \A i \in DOMAIN orders :
      SameId(i) /\ orders[i].seen = "absent" => orders[i].status # "working" /\ orders[i].filled = 0

\* An order is sized by the cash of the snapshot it was built from.
SizedBySnapshot ==
  job.pc \in {"checking", "submitting"} => job.qty + Total(job.snapshot) <= Capital

\* Between the check and the order, if nothing worked at the check, nothing moves.
CheckStillHolds ==
  job.pc = "submitting" /\ ~ job.beside =>
    Works = {} /\ held = job.snapshot /\ Others(held) = {}

PassInv == TodoInv /\ EntryInv /\ SizedBySnapshot

Inv ==
  /\ TypeInv /\ RowsInv /\ PassInv
  /\ UnknownIsDead /\ CheckStillHolds
  /\ EntryTrySentOnce /\ NoMargin /\ OneSymbolBought

-----------------------------------------------------------------------------
(* Most steps leave the account alone.                                         *)

\* An entry changes its phase as EntryLedger has it.
Allowed(p, q) ==
  p = q \/ <<p, q>> \in {<<"none", "waiting">>, <<"waiting", "trying">>, <<"trying", "waiting">>,
                         <<"waiting", "done">>, <<"trying", "done">>}

PhaseMoves ==
  \E e \in Entries :
    /\ \A x \in Entries \ {e} : Phase(entries'[x].status) = Phase(entries[x].status)
    /\ Allowed(Phase(entries[e].status), Phase(entries'[e].status))

RowsKept ==
  /\ entries' \in [Entries -> EntryRecords]
  /\ \A e \in Entries : entries'[e].symbol = entries[e].symbol
  /\ \A e \in Entries : entries[e].status = "none" <=> entries'[e].status = "none"

OthersKept == \A x \in Entries \ {Here} : entries'[x] = entries[x]

\* A step that leaves the account alone and does not end at the submission.
Quiet ==
  /\ held' = held /\ SameOrders /\ RowsKept /\ PhaseMoves
  /\ JobTyped' /\ PassInv' /\ job'.pc # "submitting"

LEMMA OrdersUnchanged ==
  ASSUME OrdersTyped, UNCHANGED orders
  PROVE  SameOrders
BY DEF OrdersTyped, SameOrders, SameOrder

LEMMA EntriesUnchanged ==
  ASSUME TypeInv, UNCHANGED entries
  PROVE  RowsKept /\ OthersKept /\ PhaseMoves /\ entries'[Here] = entries[Here]
<1>1. 1 \in Entries
  BY EntryAssumption DEF Entries
<1> QED BY <1>1 DEF TypeInv, RowsKept, OthersKept, PhaseMoves, Allowed

LEMMA EntryMarked ==
  ASSUME TypeInv, Here \in Entries, entries[Here].status # "none",
         NEW s \in Statuses \ {"none"}, entries' = Marked(s)
  PROVE  /\ RowsKept /\ OthersKept /\ entries'[Here].status = s
         /\ Allowed(Phase(entries[Here].status), Phase(s)) => PhaseMoves
<1>1. /\ entries' \in [Entries -> EntryRecords] /\ entries'[Here].status = s
      /\ \A x \in Entries : entries'[x].symbol = entries[x].symbol
      /\ \A x \in Entries \ {Here} : entries'[x] = entries[x]
  BY MarkedIs DEF TypeInv, Marked
<1>2. s # "none"
  OBVIOUS
<1>3. RowsKept
  BY <1>1, <1>2 DEF RowsKept
<1>4. Allowed(Phase(entries[Here].status), Phase(s)) => PhaseMoves
  BY <1>1 DEF PhaseMoves
<1> QED BY <1>1, <1>3, <1>4 DEF OthersKept

\* Whatever an entry was, it may fail; what waits may come to wait or be tried.
LEMMA PhaseOf ==
  /\ \A s \in Waiting : Phase(s) = "waiting"
  /\ \A s \in Trying : Phase(s) = "trying"
  /\ \A s \in Settled : Phase(s) = "done"
BY DEF Phase, Waiting, Trying, Settled

LEMMA MayFail ==
  ASSUME NEW s \in Statuses \ {"none"}
  PROVE  Allowed(Phase(s), Phase("ENTRY_FAILED")) /\ Allowed(Phase(s), Phase("ENTRY_CANCELLED"))
BY PhaseOf DEF Allowed, Statuses, Settled

\* The pass goes on with its entry.
LEMMA GoesOn ==
  ASSUME TypeInv, TodoInv, Here \in Entries, NEW p \in Pcs \ {"idle", "next"}, Stays(p),
         p = "reported" => job'.report \in Reportable, OthersKept
  PROVE  JobTyped' /\ TodoInv'
<1>1. job' \in JobRecords /\ job'.pc = p /\ job'.todo = job.todo /\ job'.at = Here
  BY DEF Stays
<1>2. job.todo \in SUBSET Entries
  BY DEF TypeInv, JobTyped, JobRecords
<1>3. JobTyped'
  BY <1>1 DEF JobTyped, Here
<1>4. \A e \in job'.todo : e # job'.at \/ job'.pc = "next" => entries'[e].status \in Waiting
  BY <1>1, <1>2 DEF TodoInv, OthersKept
<1> QED BY <1>1, <1>3, <1>4 DEF TodoInv, Here

\* The pass leaves its entry.
LEMMA Leaves ==
  ASSUME TypeInv, TodoInv, job' = NextEntry, OthersKept
  PROVE  JobTyped' /\ PassInv' /\ job'.pc # "submitting"
<1>1. job \in JobRecords /\ job.todo \in SUBSET Entries
  BY DEF TypeInv, JobTyped, JobRecords
<1>2. job' \in JobRecords /\ job'.pc = "next" /\ job'.todo = job.todo \ {Here}
  BY <1>1, NextEntryIs
<1>3. JobTyped'
  BY <1>2 DEF JobTyped
<1>4. \A e \in job'.todo : entries'[e].status \in Waiting
  BY <1>1, <1>2 DEF TodoInv, OthersKept
<1>5. TodoInv'
  BY <1>2, <1>4 DEF TodoInv
<1>6. EntryInv' /\ SizedBySnapshot'
  BY <1>2 DEF EntryInv, SizedBySnapshot, Untried, Trial
<1> QED BY <1>2, <1>3, <1>5, <1>6 DEF PassInv

LEMMA ToIdle ==
  ASSUME job' = Idle
  PROVE  JobTyped' /\ PassInv' /\ job'.pc # "submitting"
<1>1. job' \in JobRecords /\ job'.pc = "idle" /\ job'.todo = {}
  BY IdleIs
<1>2. EntryInv' /\ SizedBySnapshot' /\ TodoInv' /\ JobTyped'
  BY <1>1 DEF EntryInv, SizedBySnapshot, TodoInv, JobTyped, Untried, Trial
<1> QED BY <1>1, <1>2 DEF PassInv

\* Where the pass is, there is an entry, and it was captured.
LEMMA HereIs ==
  ASSUME TypeInv, EntryInv, RowsInv, job.pc \notin {"idle", "next"}
  PROVE  /\ Here \in Entries /\ entries[Here].status \in Statuses \ {"none"}
         /\ Symbol(Here) \in Symbols
<1>1. Here \in Entries
  BY DEF TypeInv, JobTyped
<1>2. entries[Here] \in EntryRecords
  BY <1>1 DEF TypeInv
<1>3. job.pc \in Pcs /\ entries[Here].status \in Statuses
  BY <1>2 DEF TypeInv, JobTyped, JobRecords, EntryRecords
<1>4. entries[Here].status # "none"
  <2>1. job.pc \in Untried \cup Trial \cup {"reported", "settling"}
    BY <1>3 DEF Pcs, Untried, Trial
  <2> QED BY <2>1 DEF EntryInv, Waiting, Trying, Settled
<1> QED BY <1>1, <1>3, <1>4 DEF RowsInv
-----------------------------------------------------------------------------
(* The quiet steps of the pass.                                                *)

Base == TypeInv /\ RowsInv /\ PassInv

LEMMA ProcessEntriesQuiet ==
  ASSUME Base, ProcessEntries
  PROVE  Quiet
<1> USE DEF Base, PassInv
<1>1. /\ job' \in JobRecords /\ job'.pc = "next" /\ job'.todo = Listed
      /\ UNCHANGED <<held, orders, entries>>
  BY ProcessEntriesIs
<1>2. RowsKept /\ PhaseMoves /\ SameOrders
  BY <1>1, EntriesUnchanged, OrdersUnchanged DEF TypeInv
<1>3. \A e \in job'.todo : entries'[e].status \in Waiting
  BY <1>1 DEF Listed
<1>4. JobTyped' /\ TodoInv' /\ EntryInv' /\ SizedBySnapshot'
  BY <1>1, <1>3 DEF JobTyped, TodoInv, EntryInv, SizedBySnapshot, Untried, Trial
<1> QED BY <1>1, <1>2, <1>4 DEF Quiet

\* An entry is passed over, or is too old.
LEMMA DropQuiet ==
  ASSUME Base, NEW e \in job.todo, SkipEntry(e) \/ ExpireEntry(e)
  PROVE  Quiet
<1> USE DEF Base, PassInv
<1>1. job \in JobRecords /\ job.todo \in SUBSET Entries /\ e \in Entries
  BY DEF TypeInv, JobTyped, JobRecords
<1>2. job.pc = "next" /\ job' = [job EXCEPT !.todo = @ \ {e}] /\ UNCHANGED <<held, orders>>
  BY DEF SkipEntry, ExpireEntry, First, world
<1>3. job' \in JobRecords /\ job'.pc = "next" /\ job'.todo = job.todo \ {e}
  BY <1>1, <1>2, DropsIs
<1>4. SameOrders
  BY <1>2, OrdersUnchanged DEF TypeInv
<1>5. RowsKept /\ PhaseMoves /\ \A x \in Entries \ {e} : entries'[x] = entries[x]
  <2>1. CASE UNCHANGED entries
    BY <2>1, EntriesUnchanged
  <2>2. CASE entries' = [entries EXCEPT ![e].status = "ENTRY_CANCELLED"]
    <3>1. entries \in [Entries -> EntryRecords] /\ "ENTRY_CANCELLED" \in Statuses \ {"none"}
      BY DEF TypeInv, Statuses, Settled
    <3>2. /\ entries' \in [Entries -> EntryRecords] /\ entries'[e].status = "ENTRY_CANCELLED"
          /\ \A x \in Entries : entries'[x].symbol = entries[x].symbol
          /\ \A x \in Entries \ {e} : entries'[x] = entries[x]
      BY <1>1, <2>2, <3>1, MarkedIs
    <3>3. entries[e].status \in Statuses \ {"none"}
      BY <1>1, <1>2 DEF TodoInv, Statuses, Waiting
    <3>4. Allowed(Phase(entries[e].status), Phase(entries'[e].status))
      BY <3>2, <3>3, MayFail
    <3>5. PhaseMoves
      BY <1>1, <3>2, <3>4 DEF PhaseMoves
    <3> QED BY <1>1, <3>2, <3>3, <3>5 DEF RowsKept
  <2> QED BY <2>1, <2>2 DEF SkipEntry, ExpireEntry
<1>6. \A x \in job'.todo : entries'[x].status \in Waiting
  BY <1>1, <1>2, <1>3, <1>5 DEF TodoInv
<1>7. JobTyped' /\ TodoInv' /\ EntryInv' /\ SizedBySnapshot'
  BY <1>3, <1>6 DEF JobTyped, TodoInv, EntryInv, SizedBySnapshot, Untried, Trial
<1> QED BY <1>2, <1>3, <1>4, <1>5, <1>7 DEF Quiet

LEMMA TakeUpQuiet ==
  ASSUME Base, NEW e \in job.todo, TakeUp(e)
  PROVE  Quiet
<1> USE DEF Base, PassInv
<1>1. /\ job' \in JobRecords /\ job'.pc = "reconciling" /\ job'.todo = job.todo /\ job'.at = e
      /\ e \in Entries /\ job.pc = "next" /\ UNCHANGED <<held, orders, entries>>
  BY TakeUpIs
<1>2. RowsKept /\ PhaseMoves /\ SameOrders
  BY <1>1, EntriesUnchanged, OrdersUnchanged DEF TypeInv
<1>3. \A x \in job'.todo : entries'[x].status \in Waiting
  BY <1>1 DEF TodoInv
<1>4. JobTyped' /\ TodoInv' /\ EntryInv' /\ SizedBySnapshot'
  BY <1>1, <1>3 DEF JobTyped, TodoInv, EntryInv, SizedBySnapshot, Untried, Trial, Here
<1> QED BY <1>1, <1>2, <1>4 DEF Quiet

LEMMA PassDoneQuiet ==
  ASSUME Base, PassDone
  PROVE  Quiet
<1> USE DEF Base, PassInv
<1>1. job' = Idle /\ UNCHANGED <<held, orders, entries>>
  BY DEF PassDone, world
<1>2. RowsKept /\ PhaseMoves /\ SameOrders
  BY <1>1, EntriesUnchanged, OrdersUnchanged DEF TypeInv
<1> QED BY <1>1, <1>2, ToIdle DEF Quiet

LEMMA CrashQuiet ==
  ASSUME Base, Crash
  PROVE  Quiet
<1> USE DEF Base, PassInv
<1>1. job' = Idle /\ orders' = Unseen /\ UNCHANGED <<held, entries>>
  BY DEF Crash
<1>2. RowsKept /\ PhaseMoves /\ SameOrders
  BY <1>1, EntriesUnchanged, UnseenIs DEF TypeInv
<1> QED BY <1>1, <1>2, ToIdle DEF Quiet

LEMMA ReconcileEntryQuiet ==
  ASSUME Base, ReconcileEntry
  PROVE  Quiet
<1> USE DEF Base, PassInv
<1>1. job.pc = "reconciling" /\ UNCHANGED <<held, orders, entries>>
  BY DEF ReconcileEntry, world
<1>2. RowsKept /\ OthersKept /\ PhaseMoves /\ SameOrders /\ entries'[Here] = entries[Here]
  BY <1>1, EntriesUnchanged, OrdersUnchanged DEF TypeInv
<1>3. Stays("quoting") /\ Here \in Entries /\ "quoting" \in Pcs \ {"idle", "next"}
  BY <1>1, ReconcileEntryIs, HereIs DEF Pcs
<1>4. JobTyped' /\ TodoInv'
  BY <1>2, <1>3, GoesOn
<1>5. job'.pc = "quoting" /\ job'.at = Here
  BY <1>3 DEF Stays
<1>6. EntryInv' /\ SizedBySnapshot'
  BY <1>1, <1>2, <1>5 DEF EntryInv, SizedBySnapshot, Untried, Trial, Here
<1> QED BY <1>1, <1>2, <1>4, <1>5, <1>6 DEF Quiet

\* The handler of the exceptions, wherever the pass is.
LEMMA FailEntryQuiet ==
  ASSUME Base, FailEntry, job.pc \notin {"idle", "next"}, held' = held, SameOrders
  PROVE  Quiet
<1> USE DEF Base, PassInv
<1>1. Here \in Entries /\ entries[Here].status \in Statuses \ {"none"}
  BY HereIs
<1>2. "ENTRY_FAILED" \in Statuses \ {"none"}
  BY DEF Statuses, Settled
<1>3. RowsKept /\ OthersKept /\ PhaseMoves
  BY <1>1, <1>2, EntryMarked, MayFail DEF FailEntry
<1>4. JobTyped' /\ PassInv' /\ job'.pc # "submitting"
  BY <1>3, Leaves DEF FailEntry
<1> QED BY <1>3, <1>4 DEF Quiet

LEMMA RaisesQuiet ==
  ASSUME Base, EntryRaises \/ RiskRefuses \/ NothingToBuy
  PROVE  Quiet
<1>1. FailEntry /\ held' = held /\ job.pc \notin {"idle", "next"}
  BY DEF EntryRaises, RiskRefuses, NothingToBuy, world
<1>2. orders' = Unseen \/ UNCHANGED orders
  BY DEF EntryRaises, RiskRefuses, NothingToBuy
<1>3. SameOrders
  BY <1>2, UnseenIs, OrdersUnchanged DEF Base, TypeInv
<1> QED BY <1>1, <1>3, FailEntryQuiet

LEMMA RevalidateQuiet ==
  ASSUME Base, Revalidate
  PROVE  Quiet
<1> USE DEF Base, PassInv
<1>1. job.pc = "quoting" /\ UNCHANGED <<held, orders>>
  BY DEF Revalidate, world
<1>2. PICK s \in Outcomes : entries' = Marked(s) /\ job' = AfterRevalidation[s]
  BY DEF Revalidate
<1>3. /\ Here \in Entries /\ s \in Statuses \ {"none"} /\ entries[Here].status \in Waiting
      /\ entries[Here].status \in Statuses \ {"none"}
  BY <1>1, HereIs DEF EntryInv, Untried, Outcomes, Statuses, Waiting, Trying, Settled
<1>4. RowsKept /\ OthersKept /\ entries'[Here].status = s
  BY <1>2, <1>3, EntryMarked
<1>5. PhaseMoves
  <2>1. Allowed(Phase(entries[Here].status), Phase(s))
    BY <1>3, PhaseOf DEF Outcomes, Allowed, Waiting, Trying, Settled
  <2> QED BY <1>2, <1>3, <2>1, EntryMarked
<1>6. SameOrders
  BY <1>1, OrdersUnchanged DEF TypeInv
<1>7. CASE s \in {"ENTRY_FAILED", "PENDING_ENTRY"}
  <2>1. job' = NextEntry
    BY <1>2, <1>7 DEF AfterRevalidation
  <2> QED BY <1>1, <1>4, <1>5, <1>6, <2>1, Leaves DEF Quiet
<1>8. ASSUME NEW p \in {"risking", "reviewing"}, job' = [job EXCEPT !.pc = p],
             p = "risking" => s \in Trying, p = "reviewing" => s \in Waiting
      PROVE  Quiet
  <2>1. Stays(p) /\ p \in Pcs \ {"idle", "next"}
    BY <1>8, MovesIs DEF TypeInv, JobTyped, Pcs
  <2>2. JobTyped' /\ TodoInv'
    BY <1>3, <1>4, <2>1, GoesOn
  <2>3. job'.pc = p /\ job'.at = Here
    BY <2>1 DEF Stays
  <2>4. EntryInv' /\ SizedBySnapshot'
    BY <1>4, <1>8, <2>3 DEF EntryInv, SizedBySnapshot, Untried, Trial, Here
  <2> QED BY <1>1, <1>4, <1>5, <1>6, <2>2, <2>3, <2>4 DEF Quiet
<1>9. CASE s = "ENTRY_VALID"
  BY <1>2, <1>8, <1>9 DEF AfterRevalidation, Trying
<1>10. CASE s = "ENTRY_REVIEW_REQUIRED"
  BY <1>2, <1>8, <1>10 DEF AfterRevalidation, Waiting
<1> QED BY <1>7, <1>9, <1>10 DEF Outcomes

LEMMA QuickReviewQuiet ==
  ASSUME Base, QuickReview
  PROVE  Quiet
<1> USE DEF Base, PassInv
<1>1. job.pc = "reviewing" /\ UNCHANGED <<held, orders>>
  BY DEF QuickReview, world
<1>2. /\ Here \in Entries /\ entries[Here].status \in Waiting
      /\ entries[Here].status \in Statuses \ {"none"}
  BY <1>1, HereIs DEF EntryInv, Untried
<1>3. SameOrders
  BY <1>1, OrdersUnchanged DEF TypeInv
<1>4. CASE entries' = Marked("ENTRY_VALID") /\ job' = [job EXCEPT !.pc = "risking"]
  <2>1. "ENTRY_VALID" \in Statuses \ {"none"}
    BY DEF Statuses, Trying
  <2>2. Allowed(Phase(entries[Here].status), Phase("ENTRY_VALID"))
    BY <1>2, PhaseOf DEF Allowed, Trying
  <2>3. RowsKept /\ OthersKept /\ entries'[Here].status = "ENTRY_VALID" /\ PhaseMoves
    BY <1>2, <1>4, <2>1, <2>2, EntryMarked
  <2>4. Stays("risking") /\ "risking" \in Pcs \ {"idle", "next"}
    BY <1>4, MovesIs DEF TypeInv, JobTyped, Pcs
  <2>5. JobTyped' /\ TodoInv'
    BY <1>2, <2>3, <2>4, GoesOn
  <2>6. job'.pc = "risking" /\ job'.at = Here
    BY <2>4 DEF Stays
  <2>7. EntryInv' /\ SizedBySnapshot'
    BY <2>3, <2>6 DEF EntryInv, SizedBySnapshot, Untried, Trial, Here, Trying
  <2> QED BY <1>1, <1>3, <2>3, <2>5, <2>6, <2>7 DEF Quiet
<1>5. CASE UNCHANGED entries /\ job' = NextEntry
  BY <1>1, <1>3, <1>5, EntriesUnchanged, Leaves DEF Quiet
<1>6. CASE entries' = Marked("ENTRY_CANCELLED") /\ job' = NextEntry
  <2>1. "ENTRY_CANCELLED" \in Statuses \ {"none"}
    BY DEF Statuses, Settled
  <2>2. RowsKept /\ OthersKept /\ PhaseMoves
    BY <1>2, <1>6, <2>1, EntryMarked, MayFail
  <2> QED BY <1>1, <1>3, <1>6, <2>2, Leaves DEF Quiet
<1> QED BY <1>4, <1>5, <1>6 DEF QuickReview
\* The pass goes on with its entry, and the entry has the status of the place.
LEMMA ContinuesQuiet ==
  ASSUME Base, job.pc \notin {"idle", "next"},
         NEW p \in Pcs \ {"idle", "next", "checking", "submitting"}, Stays(p),
         held' = held, SameOrders, RowsKept, OthersKept, PhaseMoves,
         p = "reported" => job'.report \in Reportable,
         p \in Untried => entries'[Here].status \in Waiting,
         p \in Trial => entries'[Here].status \in Trying,
         p = "reported" => \/ entries'[Here].status \in Trying
                           \/ /\ job'.report = "ERROR" /\ job'.bought = "none"
                              /\ entries'[Here].status # "none",
         p = "settling" => entries'[Here].status \in Settled,
         p = "requoting" => job'.index < MaxRequotes
  PROVE  Quiet
<1>1. JobTyped' /\ TodoInv'
  BY HereIs, GoesOn DEF Base, PassInv
<1>2. job'.pc = p /\ job'.at = Here
  BY DEF Stays
<1>3. EntryInv' /\ SizedBySnapshot'
  BY <1>2 DEF EntryInv, SizedBySnapshot, Here
<1> QED BY <1>1, <1>2, <1>3 DEF Quiet, PassInv

LEMMA ReportsAre ==
  ASSUME OrdersTyped, NEW i \in DOMAIN orders
  PROVE  /\ StatusReport(orders[i]) \in Reportable
         /\ AwaitReport(orders[i]) \in Reportable
         /\ Bought(orders[i]) \in {"none", "part", "all"}
<1>1. orders[i] \in OrderRecords
  BY ElementIn DEF OrdersTyped
<1>2. orders[i].seen \in {"absent", "Submitted", "Filled", "Cancelled", "Inactive", "Error"}
  BY <1>1 DEF OrderRecords
<1>3. StatusReport(orders[i]) \in Reportable
  BY <1>2 DEF StatusReport, Reportable
<1>4. AwaitReport(orders[i]) \in Reportable
  BY <1>3 DEF AwaitReport, Reportable
<1> QED BY <1>3, <1>4 DEF Bought

LEMMA RiskApprovesQuiet ==
  ASSUME Base, RiskApproves
  PROVE  Quiet
<1>1. job.pc = "risking" /\ UNCHANGED <<held, orders, entries>>
  BY DEF RiskApproves, world
<1>2. RowsKept /\ OthersKept /\ PhaseMoves /\ SameOrders /\ entries'[Here] = entries[Here]
  BY <1>1, EntriesUnchanged, OrdersUnchanged DEF Base, TypeInv
<1>3. Stays("building") /\ "building" \in Pcs \ {"idle", "next", "checking", "submitting"}
  BY RiskApprovesIs DEF Pcs, Base
<1>4. entries'[Here].status \in Trying
  BY <1>1, <1>2 DEF Base, PassInv, EntryInv, Trial
<1> QED BY <1>1, <1>2, <1>3, <1>4, ContinuesQuiet DEF Untried, Trial

LEMMA FailCheckQuiet ==
  ASSUME Base, FailCheck
  PROVE  Quiet
<1>1. job.pc = "checking" /\ UNCHANGED <<held, entries>> /\ job' = Reports("REJECTED")
  BY DEF FailCheck
<1>2. RowsKept /\ OthersKept /\ PhaseMoves /\ entries'[Here] = entries[Here]
  BY <1>1, EntriesUnchanged DEF Base
<1>3. SameOrders
  BY OrdersUnchanged, RefreshedIs DEF Base, TypeInv, FailCheck
<1>4. Stays("reported") /\ job'.report = "REJECTED" /\ job'.bought = "none"
  BY <1>1, PlainReportIs DEF Base, TypeInv, JobTyped, Reportable
<1>5. entries'[Here].status \in Trying
  BY <1>1, <1>2 DEF Base, PassInv, EntryInv, Trial
<1>6. "reported" \in Pcs \ {"idle", "next", "checking", "submitting"} /\ job'.report \in Reportable
  BY <1>4 DEF Pcs, Reportable
<1> QED BY <1>1, <1>2, <1>3, <1>4, <1>5, <1>6, ContinuesQuiet DEF Untried, Trial

LEMMA SubmitRefusedQuiet ==
  ASSUME Base, SubmitRefused
  PROVE  Quiet
<1>1. job.pc = "submitting" /\ UNCHANGED <<held, orders, entries>> /\ job' = Reports("ERROR")
  BY DEF SubmitRefused
<1>2. RowsKept /\ OthersKept /\ PhaseMoves /\ SameOrders /\ entries'[Here] = entries[Here]
  BY <1>1, EntriesUnchanged, OrdersUnchanged DEF Base, TypeInv
<1>4. Stays("reported") /\ job'.report = "ERROR" /\ job'.bought = "none"
  BY <1>1, PlainReportIs DEF Base, TypeInv, JobTyped, Reportable
<1>5. entries'[Here].status \in Trying
  BY <1>1, <1>2 DEF Base, PassInv, EntryInv, Trial
<1>6. "reported" \in Pcs \ {"idle", "next", "checking", "submitting"} /\ job'.report \in Reportable
  BY <1>4 DEF Pcs, Reportable
<1> QED BY <1>1, <1>2, <1>4, <1>5, <1>6, ContinuesQuiet DEF Untried, Trial

\* A step that reports an order, or goes on to p.
LEMMA OrderReportQuiet ==
  ASSUME Base, job.pc \in Trial, NEW r \in Reportable, NEW b \in {"none", "part", "all"},
         NEW p \in Trial \ {"checking", "submitting"}, p = "requoting" => job.index < MaxRequotes,
         job' = [job EXCEPT !.pc = p] \/ job' = [Reports(r) EXCEPT !.bought = b],
         held' = held, entries' = entries, SameOrders
  PROVE  Quiet
<1>1. RowsKept /\ OthersKept /\ PhaseMoves /\ entries'[Here] = entries[Here]
  BY EntriesUnchanged DEF Base
<1>2. entries'[Here].status \in Trying /\ job.pc \notin {"idle", "next"}
  BY <1>1 DEF Base, PassInv, EntryInv, Trial
<1>3. job \in JobRecords
  BY DEF Base, TypeInv, JobTyped
<1>4. CASE job' = [job EXCEPT !.pc = p]
  <2>1. p \in Pcs \ {"idle", "next", "checking", "submitting"}
    BY DEF Trial, Pcs
  <2>2. Stays(p) /\ job'.index = job.index
    BY <1>3, <1>4, <2>1, MovesIs
  <2> QED BY <1>1, <1>2, <2>1, <2>2, ContinuesQuiet DEF Untried, Trial
<1>5. CASE job' = [Reports(r) EXCEPT !.bought = b]
  <2>1. Stays("reported") /\ job'.report = r
    BY <1>3, <1>5, ReportedIs
  <2>2. "reported" \in Pcs \ {"idle", "next", "checking", "submitting"} /\ job'.report \in Reportable
    BY <2>1 DEF Pcs
  <2> QED BY <1>1, <1>2, <2>1, <2>2, ContinuesQuiet DEF Untried, Trial
<1> QED BY <1>4, <1>5

LEMMA FoundAtBrokerQuiet ==
  ASSUME Base, FoundAtBroker
  PROVE  Quiet
<1>1. job.pc \in Trial /\ UNCHANGED <<held, orders, entries>>
  BY DEF FoundAtBroker, world, Trial
<1>2. PICK i \in ThisTry :
        job' = IF StatusReport(orders[i]) = "PENDING" THEN [job EXCEPT !.pc = "placed"]
               ELSE [Reports(StatusReport(orders[i])) EXCEPT !.bought = Bought(orders[i])]
  BY DEF FoundAtBroker
<1> DEFINE r == StatusReport(orders[i])
           b == Bought(orders[i])
<1>3. r \in Reportable /\ b \in {"none", "part", "all"}
  BY ReportsAre DEF ThisTry, Base, TypeInv
<1>4. job' = [job EXCEPT !.pc = "placed"] \/ job' = [Reports(r) EXCEPT !.bought = b]
  BY <1>2
<1>5. SameOrders /\ "placed" \in Trial \ {"checking", "submitting"}
  BY <1>1, OrdersUnchanged DEF Base, TypeInv, Trial
<1> HIDE DEF r, b
<1> QED BY <1>1, <1>3, <1>4, <1>5, OrderReportQuiet

LEMMA AwaitOrderQuiet ==
  ASSUME Base, AwaitOrder
  PROVE  Quiet
<1>1. job.pc \in Trial /\ UNCHANGED <<held, orders, entries>>
  BY DEF AwaitOrder, world, Trial
<1>2. PICK i \in ThisTry :
        job' = IF AwaitReport(orders[i]) = "TIMEOUT" THEN [job EXCEPT !.pc = "cancelling"]
               ELSE [Reports(AwaitReport(orders[i])) EXCEPT !.bought = Bought(orders[i])]
  BY DEF AwaitOrder
<1> DEFINE r == AwaitReport(orders[i])
           b == Bought(orders[i])
<1>3. r \in Reportable /\ b \in {"none", "part", "all"}
  BY ReportsAre DEF ThisTry, Base, TypeInv
<1>4. job' = [job EXCEPT !.pc = "cancelling"] \/ job' = [Reports(r) EXCEPT !.bought = b]
  BY <1>2
<1>5. SameOrders /\ "cancelling" \in Trial \ {"checking", "submitting"}
  BY <1>1, OrdersUnchanged DEF Base, TypeInv, Trial
<1> HIDE DEF r, b
<1> QED BY <1>1, <1>3, <1>4, <1>5, OrderReportQuiet

LEMMA AwaitCancelQuiet ==
  ASSUME Base, AwaitCancel
  PROVE  Quiet
<1>1. job.pc \in Trial /\ UNCHANGED <<held, entries>> /\ orders' = Unseen
  BY DEF AwaitCancel, world, Trial
<1>2. PICK i \in ThisTry :
        job' = IF Bought(orders[i]) = "none" /\ job.index < MaxRequotes
               THEN [job EXCEPT !.pc = "requoting"]
               ELSE [Reports(AwaitReport(orders[i])) EXCEPT !.bought = Bought(orders[i])]
  BY DEF AwaitCancel
<1> DEFINE r == AwaitReport(orders[i])
           b == Bought(orders[i])
<1>3. r \in Reportable /\ b \in {"none", "part", "all"}
  BY ReportsAre DEF ThisTry, Base, TypeInv
<1>5. SameOrders /\ {"requoting", "placed"} \subseteq Trial \ {"checking", "submitting"}
  BY <1>1, UnseenIs DEF Base, TypeInv, Trial
<1>6. CASE job' = [job EXCEPT !.pc = "requoting"] /\ job.index < MaxRequotes
  <2> HIDE DEF r, b
  <2> QED BY <1>1, <1>3, <1>5, <1>6, OrderReportQuiet
<1>7. CASE job' = [Reports(r) EXCEPT !.bought = b]
  <2> HIDE DEF r, b
  <2> QED BY <1>1, <1>3, <1>5, <1>7, OrderReportQuiet
<1> QED BY <1>2, <1>6, <1>7

LEMMA MarkSubmittedQuiet ==
  ASSUME Base, MarkSubmitted
  PROVE  Quiet
<1>1. job.pc = "placed" /\ UNCHANGED <<held, orders>> /\ entries' = Marked("ENTRY_SUBMITTED")
      /\ job' = [job EXCEPT !.pc = "awaiting"]
  BY DEF MarkSubmitted, world
<1>2. Here \in Entries /\ entries[Here].status \in Trying /\ job \in JobRecords
  BY <1>1, HereIs DEF Base, PassInv, EntryInv, Trial, TypeInv, JobTyped
<1>3. "ENTRY_SUBMITTED" \in Statuses \ {"none"} /\ "ENTRY_SUBMITTED" \in Trying
  BY DEF Statuses, Trying
<1>4. /\ Allowed(Phase(entries[Here].status), Phase("ENTRY_SUBMITTED"))
      /\ entries[Here].status # "none"
  BY <1>2, <1>3, PhaseOf DEF Allowed, Trying
<1>5. RowsKept /\ OthersKept /\ PhaseMoves /\ entries'[Here].status = "ENTRY_SUBMITTED"
  BY <1>1, <1>2, <1>3, <1>4, EntryMarked DEF Base
<1>6. SameOrders
  BY <1>1, OrdersUnchanged DEF Base, TypeInv
<1>7. "awaiting" \in Pcs \ {"idle", "next", "checking", "submitting"} /\ "awaiting" \in Pcs
  BY DEF Pcs
<1>8. Stays("awaiting")
  BY <1>1, <1>2, <1>7, MovesIs
<1> QED BY <1>1, <1>3, <1>5, <1>6, <1>7, <1>8, ContinuesQuiet DEF Untried, Trial

LEMMA RequoteQuiet ==
  ASSUME Base, Requote
  PROVE  Quiet
<1>1. job.pc = "requoting" /\ UNCHANGED <<held, orders>>
  BY DEF Requote, world
<1>2. PICK s \in Outcomes :
        /\ entries' = Marked(s)
        /\ job' = IF s = "ENTRY_VALID" THEN [job EXCEPT !.pc = "building", !.index = @ + 1]
                  ELSE Reports("ERROR")
  BY DEF Requote
<1>3. /\ Here \in Entries /\ entries[Here].status \in Trying /\ job \in JobRecords
      /\ job.index < MaxRequotes
  BY <1>1, HereIs DEF Base, PassInv, EntryInv, Trial, TypeInv, JobTyped
<1>4. s \in Statuses \ {"none"}
  BY DEF Outcomes, Statuses, Waiting, Trying, Settled
<1>5. Allowed(Phase(entries[Here].status), Phase(s)) /\ entries[Here].status # "none"
  BY <1>3, PhaseOf DEF Allowed, Outcomes, Waiting, Trying, Settled
<1>6. RowsKept /\ OthersKept /\ PhaseMoves /\ entries'[Here].status = s
  BY <1>2, <1>3, <1>4, <1>5, EntryMarked DEF Base
<1>7. SameOrders
  BY <1>1, OrdersUnchanged DEF Base, TypeInv
<1>8. {"building", "reported"} \subseteq Pcs \ {"idle", "next", "checking", "submitting"}
  BY DEF Pcs
<1>9. CASE s = "ENTRY_VALID"
  <2>1. job.index + 1 \in 0 .. MaxRequotes
    <3>1. job.index \in 0 .. MaxRequotes
      BY <1>3 DEF JobRecords
    <3> QED BY <1>3, <3>1, EntryAssumption
  <2>2. Stays("building")
    BY <1>2, <1>9, <2>1, RequotedIs DEF Base
  <2>3. entries'[Here].status \in Trying
    BY <1>6, <1>9 DEF Trying
  <2> QED BY <1>1, <1>6, <1>7, <1>8, <2>2, <2>3, ContinuesQuiet DEF Untried, Trial
<1>10. CASE s # "ENTRY_VALID"
  <2>1. Stays("reported") /\ job'.report = "ERROR" /\ job'.bought = "none"
    BY <1>2, <1>3, <1>10, PlainReportIs DEF Reportable
  <2>2. job'.report \in Reportable /\ entries'[Here].status # "none"
    BY <1>4, <1>6, <2>1 DEF Reportable
  <2> QED BY <1>1, <1>6, <1>7, <1>8, <2>1, <2>2, ContinuesQuiet DEF Untried, Trial
<1> QED BY <1>9, <1>10

LEMMA SettledAsIs ==
  ASSUME Base, job.pc = "reported"
  PROVE  /\ SettledAs \in Statuses \ {"none"}
         /\ job.bought # "none" => SettledAs \in Settled
         /\ Allowed(Phase(entries[Here].status), Phase(SettledAs))
<1>1. job.report \in Reportable /\ job.bought \in {"none", "part", "all"}
  BY DEF Base, TypeInv, JobTyped, JobRecords
<1>2. entries[Here].status \in Statuses \ {"none"}
  BY HereIs DEF Base, PassInv
<1>3. CASE job.bought # "none"
  <2>1. SettledAs \in {"ENTRY_FILLED", "ENTRY_PARTIALLY_FILLED"}
    BY <1>1, <1>3 DEF SettledAs
  <2>2. SettledAs \in Settled /\ SettledAs \in Statuses \ {"none"}
    BY <2>1 DEF Settled, Statuses
  <2>3. entries[Here].status \in Trying
    BY <1>3 DEF Base, PassInv, EntryInv
  <2>4. Phase(SettledAs) = "done" /\ Phase(entries[Here].status) = "trying"
    BY <2>2, <2>3, PhaseOf
  <2> QED BY <2>2, <2>4 DEF Allowed
<1>4. CASE job.bought = "none"
  <2>1. /\ SettledAs \in {"ENTRY_SUBMITTED", "ENTRY_PARTIALLY_FILLED", "ENTRY_FILLED",
                          "ENTRY_REVIEW_REQUIRED", "ENTRY_FAILED"}
        /\ job.report = "ERROR" => SettledAs = "ENTRY_FAILED"
    BY <1>1, <1>4 DEF SettledAs, Reportable
  <2>2. SettledAs \in Statuses \ {"none"}
    BY <2>1 DEF Statuses, Waiting, Trying, Settled
  <2>3. CASE entries[Here].status \in Trying
    <3>1. SettledAs \in Waiting \cup Trying \cup Settled
      BY <2>1 DEF Waiting, Trying, Settled
    <3>2. Phase(SettledAs) \in {"waiting", "trying", "done"} /\ Phase(entries[Here].status) = "trying"
      BY <2>3, <3>1, PhaseOf
    <3> QED BY <1>4, <2>2, <3>2 DEF Allowed
  <2>4. CASE entries[Here].status \notin Trying
    <3>1. SettledAs = "ENTRY_FAILED"
      BY <2>1, <2>4 DEF Base, PassInv, EntryInv
    <3> QED BY <1>2, <1>4, <2>2, <3>1, MayFail
  <2> QED BY <2>3, <2>4
<1> QED BY <1>3, <1>4

LEMMA SettleEntryQuiet ==
  ASSUME Base, SettleEntry
  PROVE  Quiet
<1>1. job.pc = "reported" /\ held' = held /\ orders' = Unseen /\ entries' = Marked(SettledAs)
  BY DEF SettleEntry, world
<1>2. Here \in Entries /\ entries[Here].status # "none"
  BY <1>1, HereIs DEF Base, PassInv
<1> DEFINE s == SettledAs
<1>3. /\ s \in Statuses \ {"none"} /\ Allowed(Phase(entries[Here].status), Phase(s))
      /\ job.bought # "none" => s \in Settled
  BY <1>1, SettledAsIs
<1>4. entries' = Marked(s)
  BY <1>1
<1> HIDE DEF s
<1>5. RowsKept /\ OthersKept /\ PhaseMoves /\ entries'[Here].status = s
  BY <1>2, <1>3, <1>4, EntryMarked DEF Base
<1>6. SameOrders
  BY <1>1, UnseenIs DEF Base, TypeInv
<1>7. CASE job.bought = "none"
  <2>1. job' = NextEntry
    BY <1>7 DEF SettleEntry
  <2> QED BY <1>1, <1>5, <1>6, <2>1, Leaves DEF Quiet, Base, PassInv
<1>8. CASE job.bought # "none"
  <2>1. Stays("settling")
    BY <1>8, SettlingIs DEF SettleEntry, Base
  <2>2. "settling" \in Pcs \ {"idle", "next", "checking", "submitting"}
    BY DEF Pcs
  <2> QED BY <1>1, <1>3, <1>5, <1>6, <1>8, <2>1, <2>2, ContinuesQuiet DEF Untried, Trial
<1> QED BY <1>7, <1>8

LEMMA ReconcileFillQuiet ==
  ASSUME Base, ReconcileFill
  PROVE  Quiet
<1>1. job' = NextEntry /\ UNCHANGED <<held, orders, entries>>
  BY DEF ReconcileFill, world
<1>2. RowsKept /\ OthersKept /\ PhaseMoves /\ SameOrders
  BY <1>1, EntriesUnchanged, OrdersUnchanged DEF Base, TypeInv
<1> QED BY <1>1, <1>2, Leaves DEF Quiet, Base, PassInv

\* The order is sized by the cash of the snapshot.
LEMMA BuildOrderQuiet ==
  ASSUME Base, BuildOrder
  PROVE  Quiet
<1> DEFINE h == job.snapshot
           q == Affordable(job.target, h)
           j == [job EXCEPT !.pc = "checking"]
           k == [j EXCEPT !.qty = q]
<1>1. /\ job.pc = "building" /\ UNCHANGED <<held, orders, entries>> /\ q > 0 /\ job' = k
  BY DEF BuildOrder, Buyable, world
<1>2. /\ job \in JobRecords /\ "checking" \in Pcs /\ "checking" \in Pcs \ {"idle", "next"}
      /\ h \in [Symbols -> Nat] /\ job.target \in Nat
  BY DEF Base, TypeInv, JobTyped, JobRecords, Pcs
<1>3. Symbol(Here) \in Symbols /\ Here \in Entries
  BY <1>1, HereIs DEF Base, PassInv
<1>4. Total(h) \in Nat /\ h[Symbol(Here)] \in Nat /\ Capital \in Nat
  BY <1>2, <1>3, EntryAssumption, TotalIsNat
<1>5. q \in Nat /\ q + Total(h) <= Capital
  <2> DEFINE a == Capital - Total(h)
             b == job.target - h[Symbol(Here)]
  <2>1. a \in Int /\ b \in Int /\ q = (IF a < b THEN a ELSE b)
    BY <1>2, <1>4 DEF Affordable, Lower, Cash
  <2>2. q <= a /\ q \in Int
    <3> HIDE DEF a, b, q
    <3> QED BY <2>1
  <2> HIDE DEF q
  <2> QED BY <1>1, <1>4, <2>2
<1> HIDE DEF q
<1>6. /\ j \in JobRecords /\ j.pc = "checking" /\ j.todo = job.todo /\ j.at = Here
      /\ j.snapshot = h
  BY <1>2, WithPc DEF Here
<1>7. /\ k \in JobRecords /\ k.pc = "checking" /\ k.todo = job.todo /\ k.at = Here
      /\ k.snapshot = h /\ k.qty = q
  <2> HIDE DEF j, h
  <2> QED BY <1>5, <1>6, WithQty
<1>8. /\ Stays("checking") /\ job'.snapshot = h /\ job'.qty = q
      /\ job'.pc = "checking" /\ job'.at = Here
  <2> HIDE DEF k
  <2> QED BY <1>1, <1>7 DEF Stays
<1> HIDE DEF h, j, k
<1>9. RowsKept /\ OthersKept /\ PhaseMoves /\ SameOrders /\ entries'[Here] = entries[Here]
  BY <1>1, EntriesUnchanged, OrdersUnchanged DEF Base, TypeInv
<1>10. JobTyped' /\ TodoInv'
  BY <1>2, <1>3, <1>8, <1>9, GoesOn DEF Base, PassInv
<1>11. EntryInv'
  BY <1>1, <1>8, <1>9 DEF Base, PassInv, EntryInv, Untried, Trial, Here
<1>12. SizedBySnapshot'
  <2>1. job'.qty + Total(job'.snapshot) <= Capital
    BY <1>5, <1>8
  <2> QED BY <2>1 DEF SizedBySnapshot
<1> QED BY <1>1, <1>8, <1>9, <1>10, <1>11, <1>12 DEF Quiet, PassInv

-----------------------------------------------------------------------------
(* What the properties say of the account, in the terms of the proofs.         *)

\* What may still be bought of each order, and the symbols held or being bought.
Owed     == [i \in DOMAIN orders |-> IF i \in Works THEN orders[i].qty - orders[i].filled ELSE 0]
Involved == {s \in Symbols : held[s] > 0 \/ \E i \in Works : Symbol(orders[i].entry) = s}

WithinCapital == Total(held) + Total(Owed) <= Capital
AllTheSame    == \A s, t \in Involved : s = t

LEMMA NoMarginIs ==
  /\ NoMargin <=> (Alone => WithinCapital)
  /\ NoMargin' <=> (Alone' => WithinCapital')
<1>1. NoMargin <=> (Alone => WithinCapital)
  BY DEF NoMargin, WithinCapital, Total, Owed
<1> QED BY <1>1, PTL

LEMMA AtMostOne ==
  ASSUME NEW S, IsFiniteSet(S)
  PROVE  Cardinality(S) <= 1 <=> \A x, y \in S : x = y
<1>1. ASSUME Cardinality(S) <= 1, NEW x \in S, NEW y \in S
      PROVE  x = y
  <2>1. {x} \in SUBSET S /\ Cardinality({x}) = 1
    BY FS_Singleton
  <2>2. Cardinality(S) \in Nat /\ Cardinality({x}) <= Cardinality(S)
    BY <2>1, FS_Subset, FS_CardinalityType
  <2>3. S = {x}
    BY <1>1, <2>1, <2>2, FS_Subset
  <2> QED BY <2>3
<1>2. ASSUME \A x, y \in S : x = y
      PROVE  Cardinality(S) <= 1
  <2>1. CASE S = {}
    BY <2>1, FS_EmptySet
  <2>2. CASE S # {}
    <3>1. PICK x \in S : TRUE
      BY <2>2
    <3>2. S = {x}
      BY <1>2, <3>1
    <3> QED BY <3>2, FS_Singleton
  <2> QED BY <2>1, <2>2
<1> QED BY <1>1, <1>2

LEMMA OneSymbolIs ==
  /\ OneSymbolBought <=> (Alone => AllTheSame)
  /\ OneSymbolBought' <=> (Alone' => AllTheSame')
<1>1. IsFiniteSet(Involved)
  <2>1. Involved \in SUBSET Symbols
    BY DEF Involved
  <2> QED BY <2>1, EntryAssumption, FS_Subset
<1>2. OneSymbolBought <=> (Alone => Cardinality(Involved) <= 1)
  BY DEF OneSymbolBought, Involved
<1>3. OneSymbolBought <=> (Alone => AllTheSame)
  <2> HIDE DEF Involved
  <2> QED BY <1>1, <1>2, AtMostOne DEF AllTheSame
<1> QED BY <1>3, PTL

LEMMA OrderIs ==
  ASSUME OrdersTyped, NEW i \in DOMAIN orders
  PROVE  /\ orders[i] \in OrderRecords
         /\ orders[i].entry \in Entries /\ orders[i].index \in 0 .. MaxRequotes
         /\ orders[i].qty \in Nat /\ orders[i].filled \in Nat /\ orders[i].filled <= orders[i].qty
         /\ orders[i].beside \in BOOLEAN
<1>1. orders[i] \in OrderRecords
  BY ElementIn DEF OrdersTyped
<1> QED BY <1>1 DEF OrdersTyped, OrderRecords

OwedTyped == IsFiniteSet(DOMAIN orders) /\ Owed \in [DOMAIN orders -> Nat]

LEMMA OwedIs == (OrdersTyped => OwedTyped) /\ (OrdersTyped' => OwedTyped')
<1>1. ASSUME OrdersTyped PROVE OwedTyped
  <2>1. Len(orders) \in Nat /\ DOMAIN orders = 1 .. Len(orders)
    BY <1>1 DEF OrdersTyped
  <2>2. IsFiniteSet(DOMAIN orders)
    BY <2>1, FS_Interval
  <2>3. \A i \in DOMAIN orders :
          (IF i \in Works THEN orders[i].qty - orders[i].filled ELSE 0) \in Nat
    <3> TAKE i \in DOMAIN orders
    <3> QED BY <1>1, OrderIs
  <2> QED BY <2>2, <2>3 DEF Owed, OwedTyped
<1>2. OrdersTyped => OwedTyped
  BY <1>1
<1> QED BY <1>2, PTL

-----------------------------------------------------------------------------
(* A step that leaves the account alone preserves the invariant.               *)

\* A quiet step, or one that ends at the submission with what the check saw.
Calm ==
  /\ held' = held /\ SameOrders /\ RowsKept /\ PhaseMoves /\ JobTyped' /\ PassInv'
  /\ UnknownIsDead' /\ CheckStillHolds'

LEMMA QuietIsCalm ==
  ASSUME Quiet
  PROVE  Calm
BY DEF Quiet, Calm, UnknownIsDead, CheckStillHolds

LEMMA CalmInv ==
  ASSUME Inv, Calm
  PROVE  Inv'
<1> USE DEF Inv
<1>1. /\ held' = held /\ SameOrders /\ RowsKept /\ JobTyped' /\ PassInv'
      /\ DOMAIN orders' = DOMAIN orders /\ OrdersTyped'
      /\ \A i \in DOMAIN orders : SameOrder(orders'[i], orders[i])
  BY DEF Calm, SameOrders
<1>2. TypeInv'
  BY <1>1 DEF TypeInv, RowsKept
<1>3. \A i \in DOMAIN orders : orders[i].entry \in Entries /\ orders'[i].entry = orders[i].entry
  BY <1>1, OrderIs DEF TypeInv, SameOrder
<1>4. RowsInv'
  <2>1. \A e \in Entries : entries'[e].status # "none" => entries'[e].symbol \in Symbols
    BY <1>1 DEF RowsInv, RowsKept, Symbol
  <2>2. \A i \in DOMAIN orders' : entries'[orders'[i].entry].status # "none"
    BY <1>1, <1>3 DEF RowsInv, RowsKept
  <2> QED BY <2>1, <2>2 DEF RowsInv, Symbol
<1>5. UnknownIsDead' /\ CheckStillHolds'
  BY DEF Calm
<1>6. EntryTrySentOnce'
  BY <1>1 DEF EntryTrySentOnce, SameOrder
<1>7. /\ Works' = Works /\ (Alone' <=> Alone)
      /\ \A i \in DOMAIN orders : Symbol(orders[i].entry)' = Symbol(orders[i].entry)
  BY <1>1, <1>3 DEF Works, Alone, SameOrder, RowsKept, Symbol
<1>8. NoMargin'
  <2>1. Owed' = Owed
    BY <1>1, <1>7 DEF Owed, SameOrder
  <2>2. WithinCapital => WithinCapital'
    BY <1>1, <2>1 DEF WithinCapital
  <2> QED BY <1>7, <2>2, NoMarginIs
<1>9. OneSymbolBought'
  <2>1. \A i \in Works : i \in DOMAIN orders
    BY DEF Works
  <2>2. Involved' = Involved
    BY <1>1, <1>7, <2>1 DEF Involved
  <2>3. AllTheSame => AllTheSame'
    BY <2>2 DEF AllTheSame
  <2> QED BY <1>7, <2>3, OneSymbolIs
<1> QED BY <1>1, <1>2, <1>4, <1>5, <1>6, <1>8, <1>9

-----------------------------------------------------------------------------
(* The check before submission, and the order.                                 *)

\* A holding of one symbol is no more than all there was when it was sized.
LEMMA TotalCovers ==
  ASSUME NEW T, IsFiniteSet(T), NEW f \in [T -> Nat], NEW d \in T
  PROVE  f[d] <= Total(f)
<1>1. Total(f) = Table(f, T)[T]
  BY TotalIsTable
<1>2. T \in SUBSET T /\ T \ {d} \in SUBSET T
  OBVIOUS
<1>3. Table(f, T)[T] = f[d] + Table(f, T)[T \ {d}]
  BY <1>2, TakeOut
<1>4. Table(f, T)[T \ {d}] \in Nat /\ f[d] \in Nat
  BY <1>2, TableIsNat
<1> HIDE DEF Table
<1> QED BY <1>1, <1>3, <1>4

LEMMA PassCheckIs ==
  ASSUME TypeInv, PassCheck
  PROVE  /\ Stays("submitting") /\ job'.index = job.index /\ job'.qty = job.qty
         /\ job'.snapshot = held /\ job'.beside = (Works # {})
<1> DEFINE b == Works # {}
           j == [job EXCEPT !.pc = "submitting"]
           k == [j EXCEPT !.snapshot = held]
           m == [k EXCEPT !.beside = b]
<1>1. job' = m
  BY DEF PassCheck
<1>2. job \in JobRecords /\ "submitting" \in Pcs /\ held \in [Symbols -> Nat] /\ b \in BOOLEAN
  BY DEF TypeInv, JobTyped, Pcs
<1> HIDE DEF b
<1>3. /\ j \in JobRecords /\ j.pc = "submitting" /\ j.todo = job.todo /\ j.at = Here
      /\ j.index = job.index /\ j.qty = job.qty
  BY <1>2, WithPc DEF Here
<1>4. /\ k \in JobRecords /\ k.pc = "submitting" /\ k.todo = job.todo /\ k.at = Here
      /\ k.index = job.index /\ k.qty = job.qty /\ k.snapshot = held
  <2> HIDE DEF j
  <2> QED BY <1>2, <1>3, WithSnapshot
<1>5. /\ m \in JobRecords /\ m.pc = "submitting" /\ m.todo = job.todo /\ m.at = Here
      /\ m.index = job.index /\ m.qty = job.qty /\ m.snapshot = held /\ m.beside = b
  <2> HIDE DEF k
  <2> QED BY <1>2, <1>4, WithBeside
<1> HIDE DEF m
<1> QED BY <1>1, <1>5 DEF Stays, b

LEMMA PassCheckCalm ==
  ASSUME Inv, PassCheck
  PROVE  Calm
<1> USE DEF Inv
<1>1. /\ job.pc = "checking" /\ UNCHANGED <<held, entries>> /\ orders' = Refreshed
      /\ HoldingsAllow(held)
  BY DEF PassCheck, world
<1>2. /\ SameOrders
      /\ \A i \in DOMAIN orders :
           SameId(i) /\ orders'[i].seen = "absent" => orders[i].status # "working"
                                                      /\ orders[i].filled = 0
  BY <1>1, RefreshedIs DEF TypeInv
<1>3. /\ Stays("submitting") /\ job'.index = job.index /\ job'.qty = job.qty
      /\ job'.snapshot = held /\ job'.beside = (Works # {})
  BY PassCheckIs
<1>4. job'.pc = "submitting" /\ job'.at = job.at /\ job'.at = Here
  BY <1>3 DEF Stays, Here
<1>5. RowsKept /\ OthersKept /\ PhaseMoves /\ entries'[Here] = entries[Here]
  BY <1>1, EntriesUnchanged
<1>6. Here \in Entries /\ Symbol(Here) \in Symbols /\ "submitting" \in Pcs \ {"idle", "next"}
  BY <1>1, HereIs DEF PassInv, Pcs
<1>7. JobTyped' /\ TodoInv'
  BY <1>3, <1>5, <1>6, GoesOn DEF PassInv
<1>8. EntryInv'
  BY <1>1, <1>4, <1>5 DEF PassInv, EntryInv, Untried, Trial, Here
<1>9. SizedBySnapshot'
  <2> DEFINE s == Symbol(Here)
             h == job.snapshot
  <2>1. /\ h \in [Symbols -> Nat] /\ held \in [Symbols -> Nat] /\ IsFiniteSet(Symbols)
        /\ job.qty \in Nat /\ Capital \in Nat
    BY EntryAssumption DEF TypeInv, JobTyped, JobRecords
  <2>2. held[s] = h[s] /\ \A x \in Symbols \ {s} : held[x] = 0
    BY <1>1, <2>1 DEF HoldingsAllow, Others
  <2>3. s \in Symbols
    BY <1>6
  <2> HIDE DEF s, h
  <2>4. Total(held) = held[s] /\ h[s] <= Total(h) /\ Total(h) \in Nat /\ h[s] \in Nat
    BY <2>1, <2>2, <2>3, TotalOfOne, TotalCovers, TotalIsNat
  <2>5. job.qty + Total(h) <= Capital
    BY <1>1 DEF PassInv, SizedBySnapshot, h
  <2>6. job.qty + Total(held) <= Capital
    BY <2>1, <2>2, <2>4, <2>5
  <2> QED BY <1>3, <2>6 DEF SizedBySnapshot
<1>10. UnknownIsDead'
  <2>1. DOMAIN orders' = DOMAIN orders /\ \A i \in DOMAIN orders : SameOrder(orders'[i], orders[i])
    BY <1>2 DEF SameOrders
  <2> QED BY <1>2, <1>3, <1>4, <2>1 DEF UnknownIsDead, SameId, SameOrder, Here
<1>11. CheckStillHolds'
  <2>1. DOMAIN orders' = DOMAIN orders /\ \A i \in DOMAIN orders : SameOrder(orders'[i], orders[i])
    BY <1>2 DEF SameOrders
  <2>2. Works' = Works
    BY <2>1 DEF Works, SameOrder
  <2>3. Others(held) = {} /\ Symbol(Here)' = Symbol(Here)
    BY <1>1, <1>4, <1>5 DEF HoldingsAllow, Symbol, Here
  <2>4. Others(held)' = {}
    BY <1>1, <2>3 DEF Others
  <2> QED BY <1>1, <1>3, <1>4, <2>2, <2>4 DEF CheckStillHolds
<1> QED BY <1>1, <1>2, <1>5, <1>7, <1>8, <1>9, <1>10, <1>11 DEF Calm, PassInv

\* The order goes out.
LEMMA PlaceOrderIs ==
  ASSUME TypeInv, PlaceOrder
  PROVE  Stays("placed")
<1> DEFINE j == [job EXCEPT !.pc = "placed"]
           k == [j EXCEPT !.qty = 0]
           m == [k EXCEPT !.beside = FALSE]
<1>1. job' = m
  BY DEF PlaceOrder
<1>2. job \in JobRecords /\ "placed" \in Pcs /\ 0 \in Nat /\ FALSE \in BOOLEAN
  BY DEF TypeInv, JobTyped, Pcs
<1>3. j \in JobRecords /\ j.pc = "placed" /\ j.todo = job.todo /\ j.at = Here
  BY <1>2, WithPc DEF Here
<1>4. k \in JobRecords /\ k.pc = "placed" /\ k.todo = job.todo /\ k.at = Here
  <2> HIDE DEF j
  <2> QED BY <1>2, <1>3, WithQty
<1>5. m \in JobRecords /\ m.pc = "placed" /\ m.todo = job.todo /\ m.at = Here
  <2> HIDE DEF k
  <2> QED BY <1>2, <1>4, WithBeside
<1> HIDE DEF m
<1> QED BY <1>1, <1>5 DEF Stays

Placed == [entry |-> Here, index |-> job.index, qty |-> job.qty, filled |-> 0,
           status |-> "working", seen |-> "Submitted", beside |-> job.beside]

LEMMA PlacedIs ==
  ASSUME TypeInv, job.pc = "submitting", orders' = Append(orders, Placed)
  PROVE  /\ OrdersTyped' /\ Len(orders) \in Nat /\ DOMAIN orders = 1 .. Len(orders)
         /\ DOMAIN orders' = 1 .. (Len(orders) + 1) /\ orders'[Len(orders) + 1] = Placed
         /\ \A i \in DOMAIN orders : orders'[i] = orders[i]
         /\ Placed \in OrderRecords
<1>1. orders \in Seq(OrderRecords) /\ \A i \in DOMAIN orders : orders[i].filled <= orders[i].qty
  BY DEF TypeInv, OrdersTyped
<1>2. Placed \in OrderRecords
  <2>1. Here \in Entries /\ job.index \in 0 .. MaxRequotes /\ job.qty \in Nat /\ job.beside \in BOOLEAN
    BY DEF TypeInv, JobTyped, JobRecords
  <2> QED BY <2>1 DEF Placed, OrderRecords
<1>3. Placed.filled = 0 /\ Placed.qty \in Nat
  BY <1>2 DEF Placed, OrderRecords
<1> HIDE DEF Placed
<1>4. /\ orders' \in Seq(OrderRecords) /\ Len(orders) \in Nat /\ DOMAIN orders = 1 .. Len(orders)
      /\ DOMAIN orders' = 1 .. (Len(orders) + 1) /\ orders'[Len(orders) + 1] = Placed
      /\ \A i \in DOMAIN orders : orders'[i] = orders[i]
  BY <1>1, <1>2
<1>5. \A i \in DOMAIN orders' : orders'[i].filled <= orders'[i].qty
  <2> TAKE i \in DOMAIN orders'
  <2>1. CASE i = Len(orders) + 1
    BY <1>3, <1>4, <2>1
  <2>2. CASE i # Len(orders) + 1
    <3>1. i \in DOMAIN orders
      BY <1>4, <2>2
    <3> QED BY <1>1, <1>4, <3>1
  <2> QED BY <2>1, <2>2
<1> QED BY <1>2, <1>4, <1>5 DEF OrdersTyped

LEMMA PlaceOrderInv ==
  ASSUME Inv, PlaceOrder
  PROVE  Inv'
<1> USE DEF Inv
<1> DEFINE n == Len(orders) + 1
<1>1. /\ job.pc = "submitting" /\ UNCHANGED <<held, entries>> /\ ThisTry = {}
      /\ orders' = Append(orders, Placed)
  BY DEF PlaceOrder, Placed, world
<1>2. /\ OrdersTyped' /\ Len(orders) \in Nat /\ DOMAIN orders = 1 .. Len(orders)
      /\ DOMAIN orders' = 1 .. n /\ orders'[n] = Placed
      /\ \A i \in DOMAIN orders : orders'[i] = orders[i]
      /\ Placed \in OrderRecords
  BY <1>1, PlacedIs
<1>3. /\ Placed.entry = Here /\ Placed.index = job.index /\ Placed.qty = job.qty
      /\ Placed.filled = 0 /\ Placed.status = "working" /\ Placed.beside = job.beside
  BY DEF Placed
<1> HIDE DEF Placed
<1>4. n \in DOMAIN orders' /\ \A i \in DOMAIN orders' : i # n => i \in DOMAIN orders
  BY <1>2
<1>5. \A i \in DOMAIN orders : i < n /\ i \in DOMAIN orders' /\ i # n
  BY <1>2
<1> HIDE DEF n
<1>6. Here \in Entries /\ Symbol(Here) \in Symbols /\ entries[Here].status # "none"
  BY <1>1, HereIs DEF PassInv
<1>7. Stays("placed") /\ "placed" \in Pcs \ {"idle", "next"}
  BY PlaceOrderIs DEF Pcs
<1>8. job'.pc = "placed" /\ job'.at = Here
  BY <1>7 DEF Stays
<1>9. OthersKept /\ entries'[Here] = entries[Here]
  BY <1>1, EntriesUnchanged
<1>10. JobTyped' /\ TodoInv'
  BY <1>6, <1>7, <1>9, GoesOn DEF PassInv
<1>11. TypeInv'
  BY <1>1, <1>2, <1>10 DEF TypeInv
<1>12. PassInv'
  <2>1. EntryInv' /\ SizedBySnapshot'
    BY <1>1, <1>8, <1>9 DEF PassInv, EntryInv, SizedBySnapshot, Untried, Trial, Here
  <2> QED BY <1>10, <2>1 DEF PassInv
<1>13. UnknownIsDead' /\ CheckStillHolds'
  BY <1>8 DEF UnknownIsDead, CheckStillHolds
<1>14. RowsInv'
  <2>1. \A i \in DOMAIN orders' : entries'[orders'[i].entry].status # "none"
    BY <1>1, <1>2, <1>3, <1>4, <1>6 DEF RowsInv
  <2> QED BY <1>1, <2>1 DEF RowsInv, Symbol
<1>15. EntryTrySentOnce'
  <2>1. \A i \in DOMAIN orders :
          orders[i].entry = Here /\ orders[i].index = job.index
            => orders[i].status # "working" /\ orders[i].filled = 0
    BY <1>1 DEF ThisTry, UnknownIsDead, SameId
  <2>2. SUFFICES ASSUME NEW i \in DOMAIN orders', NEW j \in DOMAIN orders', i < j,
                        orders'[i].entry = orders'[j].entry, orders'[i].index = orders'[j].index
                 PROVE  orders'[i].status # "working" /\ orders'[i].filled = 0
    BY DEF EntryTrySentOnce
  <2>3. i \in DOMAIN orders
    <3>1. i # n
      BY <1>2, <2>2 DEF n
    <3> QED BY <1>4, <3>1
  <2>4. CASE j = n
    BY <1>2, <1>3, <2>1, <2>2, <2>3, <2>4
  <2>5. CASE j # n
    <3>1. j \in DOMAIN orders
      BY <1>4, <2>5
    <3> QED BY <1>2, <2>2, <2>3, <3>1 DEF EntryTrySentOnce
  <2> QED BY <2>4, <2>5
<1>16. Alone' => Works = {} /\ held = job.snapshot /\ Others(held) = {}
  <2> SUFFICES ASSUME Alone' PROVE Works = {} /\ held = job.snapshot /\ Others(held) = {}
    OBVIOUS
  <2>1. ~ job.beside
    BY <1>2, <1>3, <1>4 DEF Alone
  <2> QED BY <1>1, <2>1 DEF CheckStillHolds
<1>17. Works' = Works \cup {n}
  BY <1>2, <1>3, <1>4, <1>5 DEF Works
<1>18. NoMargin'
  <2> SUFFICES ASSUME Alone' PROVE WithinCapital'
    BY NoMarginIs
  <2>1. Works' = {n} /\ held' = job.snapshot
    BY <1>1, <1>16, <1>17
  <2> DEFINE o == Owed'
             D == DOMAIN orders'
  <2>2. IsFiniteSet(D) /\ o \in [D -> Nat]
    BY <1>2, OwedIs DEF OwedTyped
  <2>3. o[n] = job.qty /\ \A x \in D \ {n} : o[x] = 0
    <3>1. job.qty \in Nat
      BY DEF TypeInv, JobTyped, JobRecords
    <3> QED BY <1>2, <1>3, <1>4, <2>1, <3>1 DEF Owed
  <2>4. n \in D
    BY <1>4
  <2> HIDE DEF o, D
  <2>5. Total(o) = job.qty
    BY <2>2, <2>3, <2>4, TotalOfOne
  <2>6. job.qty + Total(job.snapshot) <= Capital
    BY <1>1 DEF PassInv, SizedBySnapshot
  <2>7. job.qty \in Nat /\ Total(job.snapshot) \in Nat /\ Capital \in Nat
    <3>1. job.qty \in Nat /\ job.snapshot \in [Symbols -> Nat]
      BY DEF TypeInv, JobTyped, JobRecords
    <3> QED BY <3>1, EntryAssumption, TotalIsNat
  <2> QED BY <2>1, <2>5, <2>6, <2>7 DEF WithinCapital, o
<1>19. OneSymbolBought'
  <2> SUFFICES ASSUME Alone' PROVE AllTheSame'
    BY OneSymbolIs
  <2>1. Works' = {n} /\ held' = held /\ Others(held) = {}
    BY <1>1, <1>16, <1>17
  <2>2. \A s \in Symbols : held[s] \in Nat
    BY DEF TypeInv
  <2>3. \A s \in Symbols \ {Symbol(Here)} : held[s] = 0
    BY <2>1, <2>2 DEF Others
  <2>4. \A s \in Involved' : s = Symbol(Here)
    <3>1. \A i \in Works' : entries'[orders'[i].entry].symbol = Symbol(Here)
      BY <1>1, <1>2, <1>3, <2>1 DEF Symbol
    <3>2. \A s \in Involved' : held[s] > 0 \/ \E i \in Works' : entries'[orders'[i].entry].symbol = s
      BY <2>1 DEF Involved, Symbol
    <3>3. \A s \in Involved' : s \in Symbols
      BY DEF Involved
    <3> QED BY <2>3, <3>1, <3>2, <3>3
  <2> QED BY <2>4 DEF AllTheSame
<1> QED BY <1>11, <1>12, <1>13, <1>14, <1>15, <1>18, <1>19

-----------------------------------------------------------------------------
(* The broker, the decision cycle and the clock.                               *)

\* What TWS does to the order i: n shares are bought, and it works on or not.
BrokerStep(i, n) ==
  /\ n \in Nat /\ orders[i].status = "working"
  /\ OrdersTyped' /\ DOMAIN orders' = DOMAIN orders
  /\ \A k \in DOMAIN orders \ {i} : orders'[k] = orders[k]
  /\ orders'[i].entry = orders[i].entry /\ orders'[i].index = orders[i].index
  /\ orders'[i].qty = orders[i].qty /\ orders'[i].beside = orders[i].beside
  /\ orders'[i].filled = orders[i].filled + n
  /\ orders'[i].seen = "absent" => orders[i].seen = "absent"
  /\ held' = [held EXCEPT ![Symbol(orders[i].entry)] = @ + n]
  /\ UNCHANGED <<entries, job>>

\* An order of the list is replaced.
LEMMA ReplacedIs ==
  ASSUME OrdersTyped, NEW i \in DOMAIN orders, NEW o \in OrderRecords, o.filled <= o.qty,
         orders' = [orders EXCEPT ![i] = o]
  PROVE  /\ OrdersTyped' /\ DOMAIN orders' = DOMAIN orders /\ orders'[i] = o
         /\ \A k \in DOMAIN orders \ {i} : orders'[k] = orders[k]
<1>1. Len(orders) \in Nat /\ DOMAIN orders = 1 .. Len(orders) /\ orders \in Seq(OrderRecords)
  BY DEF OrdersTyped
<1>2. orders' \in Seq(OrderRecords)
  BY <1>1
<1>3. \A k \in DOMAIN orders' : orders'[k].filled <= orders'[k].qty
  BY <1>1 DEF OrdersTyped
<1> QED BY <1>1, <1>2, <1>3 DEF OrdersTyped

LEMMA HeldOn ==
  ASSUME Inv, NEW i \in DOMAIN orders, UNCHANGED held
  PROVE  held' = [held EXCEPT ![Symbol(orders[i].entry)] = @ + 0]
<1>1. \A x \in Symbols : held[x] \in Nat /\ held[x] + 0 = held[x]
  BY DEF Inv, TypeInv
<1>2. held \in [Symbols -> Nat]
  BY DEF Inv, TypeInv
<1> QED BY <1>1, <1>2

LEMMA FillIs ==
  ASSUME Inv, NEW i \in DOMAIN orders, Fill(i)
  PROVE  \E n \in Nat : BrokerStep(i, n)
<1> DEFINE r == orders[i]
<1>1. /\ OrdersTyped /\ r \in OrderRecords /\ r.filled \in Nat /\ r.qty \in Nat
      /\ r.filled <= r.qty
  BY OrderIs DEF Inv, TypeInv
<1>2. PICK n \in 1 .. (r.qty - r.filled) :
        LET done == r.filled + n = r.qty
        IN  /\ orders' = [orders EXCEPT ![i].filled = @ + n,
                                        ![i].status = IF done THEN "filled" ELSE @,
                                        ![i].seen = Told(i, IF done THEN "Filled" ELSE "Submitted")]
            /\ held' = [held EXCEPT ![Symbol(r.entry)] = @ + n]
  BY DEF Fill
<1> DEFINE done == r.filled + n = r.qty
           f == r.filled + n
           s == IF done THEN "filled" ELSE r.status
           v == Told(i, IF done THEN "Filled" ELSE "Submitted")
           a == [r EXCEPT !.filled = f]
           b == [a EXCEPT !.status = s]
           o == [b EXCEPT !.seen = v]
<1>3. n \in Nat /\ f \in Nat /\ f <= r.qty
  BY <1>1, <1>2
<1>4. r.status = "working" /\ UNCHANGED <<entries, job>>
  BY DEF Fill, Broker
<1>5. /\ s \in {"working", "filled", "cancelled", "refused"}
      /\ v \in {"absent", "Submitted", "Filled", "Cancelled", "Inactive", "Error"}
      /\ v = "absent" => r.seen = "absent"
  BY <1>4 DEF Told, ThisTry
<1>6. orders' = [orders EXCEPT ![i] = o]
  BY <1>1, <1>2 DEF OrderRecords, OrdersTyped
<1> HIDE DEF f, s, v
<1>7. /\ a \in OrderRecords /\ a.filled = f /\ a.entry = r.entry /\ a.index = r.index
      /\ a.qty = r.qty /\ a.beside = r.beside
  <2> HIDE DEF r
  <2> QED BY <1>1, <1>3 DEF OrderRecords
<1>8. /\ b \in OrderRecords /\ b.filled = f /\ b.entry = r.entry /\ b.index = r.index
      /\ b.qty = r.qty /\ b.beside = r.beside
  <2> HIDE DEF a, r
  <2> QED BY <1>5, <1>7 DEF OrderRecords
<1>9. /\ o \in OrderRecords /\ o.filled = f /\ o.entry = r.entry /\ o.index = r.index
      /\ o.qty = r.qty /\ o.beside = r.beside /\ o.seen = v
  <2> HIDE DEF b, r
  <2> QED BY <1>5, <1>8 DEF OrderRecords
<1> HIDE DEF o
<1>10. /\ OrdersTyped' /\ DOMAIN orders' = DOMAIN orders /\ orders'[i] = o
       /\ \A k \in DOMAIN orders \ {i} : orders'[k] = orders[k]
  BY <1>1, <1>3, <1>6, <1>9, ReplacedIs
<1>11. held' = [held EXCEPT ![Symbol(r.entry)] = @ + n]
  BY <1>2
<1> QED BY <1>3, <1>4, <1>5, <1>9, <1>10, <1>11 DEF BrokerStep, f

\* The others buy nothing.
LEMMA ToldIs ==
  ASSUME Inv, NEW i \in DOMAIN orders, UNCHANGED held, UNCHANGED <<entries, job>>,
         orders[i].status = "working",
         NEW s \in {"working", "filled", "cancelled", "refused"},
         NEW seen \in {"Submitted", "Filled", "Cancelled", "Inactive", "Error"},
         orders' = [orders EXCEPT ![i].status = s, ![i].seen = Told(i, seen)]
  PROVE  BrokerStep(i, 0)
<1> DEFINE r == orders[i]
           v == Told(i, seen)
           b == [r EXCEPT !.status = s]
           o == [b EXCEPT !.seen = v]
<1>1. /\ OrdersTyped /\ r \in OrderRecords /\ r.filled \in Nat /\ r.qty \in Nat
      /\ r.filled <= r.qty
  BY OrderIs DEF Inv, TypeInv
<1>2. /\ v \in {"absent", "Submitted", "Filled", "Cancelled", "Inactive", "Error"}
      /\ v = "absent" => r.seen = "absent"
  BY DEF Told, ThisTry
<1>3. orders' = [orders EXCEPT ![i] = o]
  BY <1>1 DEF OrderRecords, OrdersTyped
<1> HIDE DEF v
<1>4. /\ b \in OrderRecords /\ b.filled = r.filled /\ b.entry = r.entry /\ b.index = r.index
      /\ b.qty = r.qty /\ b.beside = r.beside
  <2> HIDE DEF r
  <2> QED BY <1>1 DEF OrderRecords
<1>5. /\ o \in OrderRecords /\ o.filled = r.filled /\ o.entry = r.entry /\ o.index = r.index
      /\ o.qty = r.qty /\ o.beside = r.beside /\ o.seen = v
  <2> HIDE DEF b, r
  <2> QED BY <1>2, <1>4 DEF OrderRecords
<1> HIDE DEF o
<1>6. /\ OrdersTyped' /\ DOMAIN orders' = DOMAIN orders /\ orders'[i] = o
      /\ \A k \in DOMAIN orders \ {i} : orders'[k] = orders[k]
  BY <1>1, <1>3, <1>5, ReplacedIs
<1>7. held' = [held EXCEPT ![Symbol(r.entry)] = @ + 0]
  BY HeldOn
<1>8. o.filled = r.filled + 0
  BY <1>1, <1>5
<1> QED BY <1>2, <1>5, <1>6, <1>7, <1>8 DEF BrokerStep

LEMMA BrokerIs ==
  ASSUME Inv, NEW i \in DOMAIN orders,
         Fill(i) \/ CancelAtBroker(i) \/ RefuseAtBroker(i) \/ WarnAboutOrder(i)
  PROVE  \E n \in Nat : BrokerStep(i, n)
<1>1. CASE Fill(i)
  BY <1>1, FillIs
<1>2. CASE CancelAtBroker(i)
  <2>1. orders[i].status = "working" /\ UNCHANGED held /\ UNCHANGED <<entries, job>>
    BY <1>2 DEF CancelAtBroker, Broker
  <2>2. PICK seen \in {"Cancelled", "Error"} :
          orders' = [orders EXCEPT ![i].status = "cancelled", ![i].seen = Told(i, seen)]
    BY <1>2 DEF CancelAtBroker
  <2> QED BY <2>1, <2>2, ToldIs
<1>3. CASE RefuseAtBroker(i)
  <2>1. orders[i].status = "working" /\ UNCHANGED held /\ UNCHANGED <<entries, job>>
    BY <1>3 DEF RefuseAtBroker, Broker
  <2>2. orders' = [orders EXCEPT ![i].status = "refused", ![i].seen = Told(i, "Inactive")]
    BY <1>3 DEF RefuseAtBroker
  <2> QED BY <2>1, <2>2, ToldIs
<1>4. CASE WarnAboutOrder(i)
  <2>1. orders[i].status = "working" /\ UNCHANGED held /\ UNCHANGED <<entries, job>>
    BY <1>4 DEF WarnAboutOrder, Broker
  <2>2. orders' = [orders EXCEPT ![i].seen = Told(i, "Error")]
    BY <1>4 DEF WarnAboutOrder
  <2>3. orders' = [orders EXCEPT ![i].status = "working", ![i].seen = Told(i, "Error")]
    <3>1. orders[i] \in OrderRecords /\ orders \in Seq(OrderRecords)
      BY OrderIs DEF Inv, TypeInv, OrdersTyped
    <3> DEFINE v == Told(i, "Error")
    <3>2. [orders[i] EXCEPT !.seen = v] = [orders[i] EXCEPT !.status = "working", !.seen = v]
      <4> HIDE DEF v
      <4> QED BY <2>1, <3>1 DEF OrderRecords
    <3>3. orders' = [orders EXCEPT ![i] = [orders[i] EXCEPT !.seen = v]]
      BY <2>2
    <3>4. orders' = [orders EXCEPT ![i] = [orders[i] EXCEPT !.status = "working", !.seen = v]]
      BY <3>2, <3>3
    <3> HIDE DEF v
    <3>5. orders' = [orders EXCEPT ![i].status = "working", ![i].seen = v]
      BY <3>1, <3>4 DEF OrderRecords
    <3> QED BY <3>5 DEF v
  <2> QED BY <2>1, <2>3, ToldIs
<1> QED BY <1>1, <1>2, <1>3, <1>4

LEMMA BrokerInv ==
  ASSUME Inv, NEW i \in DOMAIN orders, NEW n \in Nat, BrokerStep(i, n)
  PROVE  Inv'
<1> USE DEF Inv
<1> DEFINE s == Symbol(orders[i].entry)
<1>1. /\ orders[i].status = "working"
      /\ OrdersTyped' /\ DOMAIN orders' = DOMAIN orders
      /\ \A k \in DOMAIN orders \ {i} : orders'[k] = orders[k]
      /\ orders'[i].entry = orders[i].entry /\ orders'[i].index = orders[i].index
      /\ orders'[i].qty = orders[i].qty /\ orders'[i].beside = orders[i].beside
      /\ orders'[i].filled = orders[i].filled + n
      /\ orders'[i].seen = "absent" => orders[i].seen = "absent"
      /\ held' = [held EXCEPT ![s] = @ + n]
      /\ UNCHANGED <<entries, job>>
  BY DEF BrokerStep
<1>2. orders[i].entry \in Entries /\ s \in Symbols
  <2>1. orders[i].entry \in Entries
    BY OrderIs DEF TypeInv
  <2> QED BY <2>1 DEF RowsInv, Symbol
<1>3. /\ held \in [Symbols -> Nat] /\ held' \in [Symbols -> Nat] /\ held'[s] = held[s] + n
      /\ \A x \in Symbols \ {s} : held'[x] = held[x]
  <2>1. held \in [Symbols -> Nat] /\ held[s] + n \in Nat
    BY <1>2 DEF TypeInv
  <2> HIDE DEF s
  <2> QED BY <1>1, <1>2, <2>1
<1>4. i \in Works
  BY <1>1 DEF Works
<1> HIDE DEF s
<1>5. \A k \in DOMAIN orders : /\ orders'[k].entry = orders[k].entry /\ orders'[k].index = orders[k].index
                               /\ orders'[k].beside = orders[k].beside
                               /\ k \in Works' => k \in Works
  BY <1>1, <1>4 DEF Works
<1>6. TypeInv'
  BY <1>1, <1>3 DEF TypeInv, JobTyped, Here
<1>7. RowsInv'
  BY <1>1, <1>5 DEF RowsInv, Symbol
<1>8. PassInv'
  <2>1. Here' = Here
    BY <1>1 DEF Here
  <2>2. TodoInv' /\ EntryInv'
    BY <1>1, <2>1 DEF PassInv, TodoInv, EntryInv
  <2>3. SizedBySnapshot'
    BY <1>1 DEF PassInv, SizedBySnapshot
  <2> QED BY <2>2, <2>3 DEF PassInv
<1>9. UnknownIsDead'
  <2> SUFFICES ASSUME job.pc = "submitting", NEW k \in DOMAIN orders,
                      orders[k].entry = Here, orders[k].index = job.index, orders'[k].seen = "absent"
               PROVE  orders'[k].status # "working" /\ orders'[k].filled = 0
    BY <1>1, <1>5 DEF UnknownIsDead, SameId, Here
  <2>1. CASE k = i
    <3>1. orders[i].seen = "absent"
      BY <1>1, <2>1
    <3> QED BY <1>1, <2>1, <3>1 DEF UnknownIsDead, SameId
  <2>2. CASE k # i
    BY <1>1, <2>2 DEF UnknownIsDead, SameId
  <2> QED BY <2>1, <2>2
<1>10. CheckStillHolds'
  BY <1>1, <1>4 DEF CheckStillHolds
<1>11. EntryTrySentOnce'
  <2> SUFFICES ASSUME NEW k \in DOMAIN orders, NEW j \in DOMAIN orders, k < j,
                      orders[k].entry = orders[j].entry, orders[k].index = orders[j].index
               PROVE  orders'[k].status # "working" /\ orders'[k].filled = 0
    BY <1>1, <1>5 DEF EntryTrySentOnce
  <2>1. orders[k].status # "working" /\ orders[k].filled = 0
    BY DEF EntryTrySentOnce
  <2>2. k # i
    BY <1>1, <2>1
  <2> QED BY <1>1, <2>1, <2>2
<1>12. Alone' <=> Alone
  BY <1>1, <1>5 DEF Alone
<1>13. WithinCapital => WithinCapital'
  <2> DEFINE D == DOMAIN orders
             o == Owed
             p == Owed'
  <2>1. IsFiniteSet(D) /\ o \in [D -> Nat] /\ p \in [D -> Nat] /\ i \in D
    BY <1>1, OwedIs DEF OwedTyped, TypeInv
  <2>2. \A x \in D \ {i} : p[x] = o[x]
    <3> TAKE x \in D \ {i}
    <3>1. orders'[x] = orders[x] /\ x \in DOMAIN orders'
      BY <1>1
    <3>2. x \in Works' <=> x \in Works
      BY <1>1, <3>1 DEF Works
    <3> QED BY <1>1, <3>1, <3>2 DEF Owed
  <2>3. p[i] + n <= o[i]
    <3>1. /\ orders[i].qty \in Nat /\ orders[i].filled \in Nat
          /\ orders[i].filled + n <= orders[i].qty
      BY <1>1, OrderIs DEF TypeInv, OrdersTyped
    <3>2. o[i] = orders[i].qty - orders[i].filled
      BY <1>4 DEF Owed
    <3>3. p[i] = IF i \in Works' THEN orders'[i].qty - orders'[i].filled ELSE 0
      BY <1>1 DEF Owed
    <3>4. p[i] \in {0, orders[i].qty - (orders[i].filled + n)}
      BY <1>1, <3>3
    <3> HIDE DEF o, p
    <3> QED BY <3>1, <3>2, <3>4
  <2> HIDE DEF D, o, p
  <2>4. Total(p) + o[i] = Total(o) + p[i] /\ Total(o) \in Nat /\ Total(p) \in Nat
    BY <2>1, <2>2, TotalOfUpdate, TotalIsNat
  <2>5. /\ Total(held') + held[s] = Total(held) + held'[s]
        /\ Total(held) \in Nat /\ Total(held') \in Nat
    BY <1>2, <1>3, EntryAssumption, TotalOfUpdate, TotalIsNat
  <2>6. p[i] \in Nat /\ o[i] \in Nat /\ held[s] \in Nat /\ Capital \in Nat
    BY <1>2, <1>3, <2>1, EntryAssumption
  <2>7. Total(held') + Total(p) <= Total(held) + Total(o)
    BY <1>3, <2>3, <2>4, <2>5, <2>6
  <2> QED BY <2>4, <2>5, <2>6, <2>7 DEF WithinCapital, o, p
<1>14. AllTheSame => AllTheSame'
  <2>1. s \in Involved
    BY <1>2, <1>4 DEF Involved, s
  <2>2. ASSUME NEW x \in Involved' PROVE x \in Involved
    <3>1. x \in Symbols /\ (held'[x] > 0 \/ \E k \in Works' : entries'[orders'[k].entry].symbol = x)
      BY <2>2 DEF Involved, Symbol
    <3>2. CASE x = s
      BY <2>1, <3>2
    <3>3. CASE x # s /\ held'[x] > 0
      BY <1>3, <3>1, <3>3 DEF Involved
    <3>4. CASE \E k \in Works' : entries'[orders'[k].entry].symbol = x
      <4>1. PICK k \in Works' : entries'[orders'[k].entry].symbol = x
        BY <3>4
      <4>2. k \in DOMAIN orders
        BY <1>1 DEF Works
      <4>3. k \in Works /\ Symbol(orders[k].entry) = x
        BY <1>1, <1>5, <4>1, <4>2 DEF Symbol
      <4> QED BY <3>1, <4>3 DEF Involved
    <3> QED BY <3>1, <3>2, <3>3, <3>4
  <2> QED BY <2>2 DEF AllTheSame
<1>15. NoMargin' /\ OneSymbolBought'
  BY <1>12, <1>13, <1>14, NoMarginIs, OneSymbolIs
<1> QED BY <1>6, <1>7, <1>8, <1>9, <1>10, <1>11, <1>15

\* Between two passes.
LEMMA BetweenPasses ==
  ASSUME Inv, job.pc = "idle", UNCHANGED job
  PROVE  JobTyped' /\ PassInv' /\ UnknownIsDead' /\ CheckStillHolds'
<1>1. JobTyped' /\ job'.pc = "idle" /\ job'.todo = {}
  BY DEF Inv, TypeInv, JobTyped, PassInv, TodoInv, Here
<1>2. TodoInv' /\ EntryInv' /\ SizedBySnapshot'
  BY <1>1 DEF TodoInv, EntryInv, SizedBySnapshot, Untried, Trial
<1> QED BY <1>1, <1>2 DEF PassInv, UnknownIsDead, CheckStillHolds

LEMMA CaptureInv ==
  ASSUME Inv, NEW e \in Entries, Capture(e)
  PROVE  Inv'
<1> USE DEF Inv
<1>1. job.pc = "idle" /\ entries[e].status = "none" /\ UNCHANGED <<held, orders, job>>
  BY DEF Capture, world
<1>2. PICK s \in Symbols :
        entries' = [entries EXCEPT ![e] = [symbol |-> s, status |-> "PENDING_ENTRY", aged |-> FALSE]]
  BY DEF Capture
<1>3. JobTyped' /\ PassInv' /\ UnknownIsDead' /\ CheckStillHolds'
  BY <1>1, BetweenPasses
<1>4. OrdersTyped'
  BY <1>1 DEF TypeInv, OrdersTyped
<1> DEFINE r == [symbol |-> s, status |-> "PENDING_ENTRY", aged |-> FALSE]
<1>5. r \in EntryRecords /\ r.status # "none" /\ r.symbol \in Symbols
  BY DEF EntryRecords, Statuses, Waiting
<1>6. entries' = [entries EXCEPT ![e] = r]
  BY <1>2
<1> HIDE DEF r
<1>7. /\ entries' \in [Entries -> EntryRecords] /\ entries'[e] = r
      /\ \A x \in Entries \ {e} : entries'[x] = entries[x]
  BY <1>5, <1>6 DEF TypeInv
<1>8. TypeInv'
  BY <1>1, <1>3, <1>4, <1>7 DEF TypeInv
<1>9. \A i \in DOMAIN orders : orders[i].entry \in Entries /\ orders[i].entry # e
  BY <1>1, OrderIs DEF TypeInv, RowsInv
<1>10. RowsInv'
  <2>1. \A x \in Entries : entries'[x].status # "none" => entries'[x].symbol \in Symbols
    BY <1>5, <1>7 DEF RowsInv, Symbol
  <2>2. \A i \in DOMAIN orders' : entries'[orders'[i].entry].status # "none"
    BY <1>1, <1>7, <1>9 DEF RowsInv
  <2> QED BY <2>1, <2>2 DEF RowsInv, Symbol
<1>11. EntryTrySentOnce'
  BY <1>1 DEF EntryTrySentOnce
<1>12. Works' = Works /\ (Alone' <=> Alone)
  BY <1>1 DEF Works, Alone
<1>13. WithinCapital => WithinCapital'
  <2>1. Owed' = Owed
    BY <1>1, <1>12 DEF Owed
  <2> QED BY <1>1, <2>1 DEF WithinCapital
<1>14. AllTheSame => AllTheSame'
  <2>1. \A i \in Works : entries'[orders[i].entry] = entries[orders[i].entry]
    BY <1>7, <1>9 DEF Works
  <2>2. Involved' = Involved
    BY <1>1, <1>12, <2>1 DEF Involved, Symbol
  <2> QED BY <2>2 DEF AllTheSame
<1>15. NoMargin' /\ OneSymbolBought'
  BY <1>12, <1>13, <1>14, NoMarginIs, OneSymbolIs
<1> QED BY <1>3, <1>8, <1>10, <1>11, <1>15

LEMMA SellInv ==
  ASSUME Inv, Sell
  PROVE  Inv'
<1> USE DEF Inv
<1>1. job.pc = "idle" /\ UNCHANGED <<orders, entries, job>>
  BY DEF Sell
<1>2. PICK s \in Symbols : held' = [held EXCEPT ![s] = 0]
  BY DEF Sell
<1>3. JobTyped' /\ PassInv' /\ UnknownIsDead' /\ CheckStillHolds'
  BY <1>1, BetweenPasses
<1>4. /\ held \in [Symbols -> Nat] /\ held' \in [Symbols -> Nat] /\ held'[s] = 0
      /\ \A x \in Symbols \ {s} : held'[x] = held[x]
  BY <1>2 DEF TypeInv
<1>5. TypeInv' /\ RowsInv' /\ EntryTrySentOnce'
  BY <1>1, <1>3, <1>4 DEF TypeInv, OrdersTyped, RowsInv, Symbol, EntryTrySentOnce
<1>6. Works' = Works /\ (Alone' <=> Alone)
  BY <1>1 DEF Works, Alone
<1>7. WithinCapital => WithinCapital'
  <2>1. Owed' = Owed
    BY <1>1, <1>6 DEF Owed
  <2>2. IsFiniteSet(DOMAIN orders) /\ Owed \in [DOMAIN orders -> Nat]
    BY OwedIs DEF OwedTyped, TypeInv
  <2> DEFINE o == Owed
  <2>3. Total(o) \in Nat
    BY <2>2, TotalIsNat
  <2>4. /\ Total(held') + held[s] = Total(held) + held'[s]
        /\ Total(held) \in Nat /\ Total(held') \in Nat /\ held[s] \in Nat /\ Capital \in Nat
    BY <1>4, EntryAssumption, TotalOfUpdate, TotalIsNat
  <2> HIDE DEF o
  <2>5. Total(held) + Total(o) <= Capital => Total(held') + Total(o) <= Capital
    BY <1>4, <2>3, <2>4
  <2> QED BY <2>1, <2>5 DEF WithinCapital, o
<1>8. AllTheSame => AllTheSame'
  <2>1. \A x \in Symbols : held'[x] > 0 => held[x] > 0
    BY <1>4
  <2>2. Involved' \subseteq Involved
    BY <1>1, <1>6, <2>1 DEF Involved, Symbol
  <2> QED BY <2>2 DEF AllTheSame
<1>9. NoMargin' /\ OneSymbolBought'
  BY <1>6, <1>7, <1>8, NoMarginIs, OneSymbolIs
<1> QED BY <1>3, <1>5, <1>9

LEMMA AgeCalm ==
  ASSUME Inv, NEW e \in Entries, Age(e)
  PROVE  Calm
<1> USE DEF Inv
<1>1. /\ job.pc = "idle" /\ UNCHANGED <<held, orders, job>>
      /\ entries' = [entries EXCEPT ![e].aged = TRUE]
  BY DEF Age
<1>2. JobTyped' /\ PassInv' /\ UnknownIsDead' /\ CheckStillHolds'
  BY <1>1, BetweenPasses
<1>3. SameOrders
  BY <1>1, OrdersUnchanged DEF TypeInv
<1> DEFINE r == [entries[e] EXCEPT !.aged = TRUE]
<1>4. r \in EntryRecords /\ r.status = entries[e].status /\ r.symbol = entries[e].symbol
  <2>1. entries[e] \in EntryRecords
    BY DEF TypeInv
  <2> QED BY <2>1 DEF EntryRecords
<1>5. entries' = [entries EXCEPT ![e] = r]
  BY <1>1
<1> HIDE DEF r
<1>6. /\ entries' \in [Entries -> EntryRecords]
      /\ \A x \in Entries : entries'[x].status = entries[x].status /\ entries'[x].symbol = entries[x].symbol
  BY <1>4, <1>5 DEF TypeInv
<1>7. RowsKept /\ PhaseMoves
  BY <1>6 DEF RowsKept, PhaseMoves, Allowed
<1> QED BY <1>1, <1>2, <1>3, <1>7 DEF Calm

LEMMA StutterCalm ==
  ASSUME Inv, UNCHANGED <<held, orders, entries, job>>
  PROVE  Calm
<1> USE DEF Inv
<1>1. SameOrders /\ RowsKept /\ PhaseMoves
  BY OrdersUnchanged, EntriesUnchanged DEF TypeInv
<1>2. JobTyped' /\ TodoInv' /\ EntryInv' /\ SizedBySnapshot'
  BY DEF TypeInv, JobTyped, PassInv, TodoInv, EntryInv, SizedBySnapshot, Here
<1>3. UnknownIsDead' /\ CheckStillHolds'
  BY DEF UnknownIsDead, CheckStillHolds, SameId, Here, Works, Others, Symbol
<1> QED BY <1>1, <1>2, <1>3 DEF Calm, PassInv

-----------------------------------------------------------------------------
(* The theorems.                                                               *)

LEMMA InitInv == Init => Inv
<1> SUFFICES ASSUME Init PROVE Inv
  OBVIOUS
<1>1. held = NoHoldings /\ orders = <<>> /\ job = Idle /\ entries = [e \in Entries |-> NoEntry]
  BY DEF Init
<1>2. DOMAIN orders = {} /\ orders \in Seq(OrderRecords)
  BY <1>1
<1>3. /\ job \in JobRecords /\ job.pc = "idle" /\ job.todo = {}
      /\ held \in [Symbols -> Nat] /\ \A s \in Symbols : held[s] = 0
  BY <1>1, IdleIs DEF NoHoldings
<1>4. entries \in [Entries -> EntryRecords] /\ \A e \in Entries : entries[e].status = "none"
  <2>1. NoEntry \in EntryRecords /\ NoEntry.status = "none"
    BY DEF NoEntry, EntryRecords, Statuses
  <2> QED BY <1>1, <2>1
<1>5. TypeInv /\ RowsInv
  BY <1>2, <1>3, <1>4 DEF TypeInv, OrdersTyped, JobTyped, RowsInv
<1>6. PassInv /\ UnknownIsDead /\ CheckStillHolds
  BY <1>3 DEF PassInv, TodoInv, EntryInv, SizedBySnapshot, UnknownIsDead, CheckStillHolds, Untried, Trial
<1>7. EntryTrySentOnce
  BY <1>2 DEF EntryTrySentOnce
<1>8. NoMargin
  <2>1. Total(held) = 0
    BY <1>3, EntryAssumption, TotalOfNothing
  <2> DEFINE o == Owed
             D == DOMAIN orders
  <2>2. IsFiniteSet(D) /\ o \in [D -> Nat] /\ \A x \in D : o[x] = 0
    BY <1>2, <1>5, OwedIs DEF TypeInv, OwedTyped
  <2> HIDE DEF o, D
  <2>3. Total(o) = 0
    BY <2>2, TotalOfNothing
  <2>4. WithinCapital
    BY <2>1, <2>3, EntryAssumption DEF WithinCapital, o
  <2> QED BY <2>4, NoMarginIs
<1>9. OneSymbolBought
  <2>1. Involved = {}
    BY <1>2, <1>3 DEF Involved, Works
  <2> QED BY <2>1, OneSymbolIs DEF AllTheSame
<1> QED BY <1>5, <1>6, <1>7, <1>8, <1>9 DEF Inv

\* What the pass does, but for the order.
LEMMA WorkerCalm ==
  ASSUME Inv, Worker \/ Crash, ~ PlaceOrder
  PROVE  Calm
<1>1. Base
  BY DEF Inv, Base
<1>2. CASE PassCheck
  BY <1>2, PassCheckCalm
<1>3. CASE ~ PassCheck
  <2>1. Quiet
    <3>1. CASE ProcessEntries \/ PassDone \/ ReconcileEntry \/ Revalidate \/ QuickReview \/ Crash
      BY <1>1, <3>1, ProcessEntriesQuiet, PassDoneQuiet, ReconcileEntryQuiet, RevalidateQuiet,
         QuickReviewQuiet, CrashQuiet
    <3>2. CASE RiskApproves \/ RiskRefuses \/ BuildOrder \/ NothingToBuy \/ EntryRaises
      BY <1>1, <3>2, RiskApprovesQuiet, RaisesQuiet, BuildOrderQuiet
    <3>3. CASE FailCheck \/ FoundAtBroker \/ SubmitRefused \/ MarkSubmitted \/ AwaitOrder \/ AwaitCancel
      BY <1>1, <3>3, FailCheckQuiet, FoundAtBrokerQuiet, SubmitRefusedQuiet, MarkSubmittedQuiet,
         AwaitOrderQuiet, AwaitCancelQuiet
    <3>4. CASE Requote \/ SettleEntry \/ ReconcileFill
      BY <1>1, <3>4, RequoteQuiet, SettleEntryQuiet, ReconcileFillQuiet
    <3>5. CASE \E e \in job.todo : SkipEntry(e) \/ ExpireEntry(e) \/ TakeUp(e)
      BY <1>1, <3>5, DropQuiet, TakeUpQuiet
    <3> QED BY <1>3, <3>1, <3>2, <3>3, <3>4, <3>5 DEF Worker
  <2> QED BY <2>1, QuietIsCalm
<1> QED BY <1>2, <1>3

LEMMA NextInv == Inv /\ [Next]_vars => Inv'
<1> SUFFICES ASSUME Inv, [Next]_vars PROVE Inv'
  OBVIOUS
<1>1. CASE (Worker \/ Crash) /\ ~ PlaceOrder
  BY <1>1, WorkerCalm, CalmInv
<1>2. CASE PlaceOrder
  BY <1>2, PlaceOrderInv
<1>3. CASE Sell
  BY <1>3, SellInv
<1>4. CASE \E e \in Entries : Capture(e) \/ Age(e)
  BY <1>4, CaptureInv, AgeCalm, CalmInv
<1>5. CASE \E i \in DOMAIN orders :
             Fill(i) \/ CancelAtBroker(i) \/ RefuseAtBroker(i) \/ WarnAboutOrder(i)
  <2>1. PICK i \in DOMAIN orders :
          Fill(i) \/ CancelAtBroker(i) \/ RefuseAtBroker(i) \/ WarnAboutOrder(i)
    BY <1>5
  <2>2. PICK n \in Nat : BrokerStep(i, n)
    BY <2>1, BrokerIs
  <2> QED BY <2>2, BrokerInv
<1>6. CASE UNCHANGED vars
  <2>1. UNCHANGED <<held, orders, entries, job>>
    BY <1>6 DEF vars
  <2> QED BY <2>1, StutterCalm, CalmInv
<1> QED BY <1>1, <1>2, <1>3, <1>4, <1>5, <1>6 DEF Next

\* The inductive invariant holds in every reachable state.
THEOREM EntryInvariant == Spec => []Inv
BY InitInv, NextInv, PTL DEF Spec

\* The rows, the orders and the pass keep their types.
THEOREM TypeCorrect == Spec => []TypeOK
<1>1. Inv => TypeOK
  <2> SUFFICES ASSUME Inv PROVE TypeOK
    OBVIOUS
  <2>1. \A i \in DOMAIN orders : orders[i].entry \in Entries /\ orders[i].index \in 0 .. MaxRequotes
    BY OrderIs DEF Inv, TypeInv
  <2>2. /\ job.pc \in Pcs /\ job.todo \subseteq Entries /\ job.at \in 0 .. MaxEntries
        /\ job.index \in 0 .. MaxRequotes
        /\ job.pc \notin {"idle", "next"} => Here \in Entries
    BY DEF Inv, TypeInv, JobTyped, JobRecords
  <2>3. entries \in [Entries -> EntryRecords]
    BY DEF Inv, TypeInv
  <2>4. entries \in [Entries -> [symbol : Symbols \cup {NoSymbol}, status : Statuses, aged : BOOLEAN]]
    BY <2>3 DEF EntryRecords
  <2> QED BY <2>1, <2>2, <2>4 DEF TypeOK
<1> QED BY <1>1, EntryInvariant, PTL

\* process_pending_entries never sends a try of an entry again, requote by
\* requote and pass after pass, but when its order is dead and bought nothing.
THEOREM TrySentOnce == Spec => []EntryTrySentOnce
<1>1. Inv => EntryTrySentOnce
  BY DEF Inv
<1> QED BY <1>1, EntryInvariant, PTL

\* The account of the pending entries never owes, whatever fills late, unless
\* an order passed the check of the holdings while another one worked.
THEOREM AccountNeverOwes == Spec => []NoMargin
<1>1. Inv => NoMargin
  BY DEF Inv
<1> QED BY <1>1, EntryInvariant, PTL

\* Under the same proviso the entries never buy a second symbol.
THEOREM OneSymbolAtATime == Spec => []OneSymbolBought
<1>1. Inv => OneSymbolBought
  BY DEF Inv
<1> QED BY <1>1, EntryInvariant, PTL

-----------------------------------------------------------------------------
(* The refinement of EntryLedger.                                              *)

Phases == [e \in Entries |-> Phase(entries[e].status)]
OrdersOf(e) == {i \in DOMAIN orders : orders[i].entry = e}
Sent   == [e \in Entries |-> Cardinality(OrdersOf(e))]

\* The entries of the orders are those they were: nothing was sent.
NothingSent ==
  DOMAIN orders' = DOMAIN orders /\ \A i \in DOMAIN orders : orders'[i].entry = orders[i].entry

LEMMA NothingSentIs ==
  ASSUME NothingSent
  PROVE  Sent' = Sent
BY DEF NothingSent, Sent, OrdersOf

LEMMA PhaseMovesRefines ==
  ASSUME PhaseMoves, NothingSent
  PROVE  [Ledger!Next]_(Ledger!vars)
<1>1. PICK e \in Entries :
        /\ \A x \in Entries \ {e} : Phase(entries'[x].status) = Phase(entries[x].status)
        /\ Allowed(Phase(entries[e].status), Phase(entries'[e].status))
  BY DEF PhaseMoves
<1> DEFINE p == Phase(entries[e].status)
           q == Phase(entries'[e].status)
<1>2. /\ Phases \in [Entries -> {Phase(entries[x].status) : x \in Entries}]
      /\ Phases[e] = p /\ Phases' = [Phases EXCEPT ![e] = q]
  BY <1>1 DEF Phases
<1>3. Sent' = Sent
  BY NothingSentIs
<1>4. Allowed(p, q)
  BY <1>1
<1> HIDE DEF p, q
<1>5. CASE p = q
  <2>1. Phases' = Phases
    BY <1>2, <1>5
  <2> QED BY <1>3, <2>1 DEF Ledger!vars, Phases, Sent, OrdersOf
<1>6. ASSUME p # q
      PROVE  Ledger!Capture(e) \/ Ledger!Try(e) \/ Ledger!Return(e) \/ Ledger!Finish(e)
  <2>1. CASE p = "none" /\ q = "waiting"
    <3>1. Ledger!Capture(e)
      BY <1>2, <1>3, <2>1 DEF Ledger!Capture, Ledger!Moves, Phases, Sent, OrdersOf
    <3> QED BY <3>1
  <2>2. CASE p = "waiting" /\ q = "trying"
    <3>1. Ledger!Try(e)
      BY <1>2, <1>3, <2>2 DEF Ledger!Try, Ledger!Moves, Phases, Sent, OrdersOf
    <3> QED BY <3>1
  <2>3. CASE p = "trying" /\ q = "waiting"
    <3>1. Ledger!Return(e)
      BY <1>2, <1>3, <2>3 DEF Ledger!Return, Ledger!Moves, Phases, Sent, OrdersOf
    <3> QED BY <3>1
  <2>4. CASE p \in {"waiting", "trying"} /\ q = "done"
    <3>1. Ledger!Finish(e)
      BY <1>2, <1>3, <2>4 DEF Ledger!Finish, Ledger!Moves, Phases, Sent, OrdersOf
    <3> QED BY <3>1
  <2> QED BY <1>4, <1>6, <2>1, <2>2, <2>3, <2>4 DEF Allowed
<1> QED BY <1>5, <1>6 DEF Ledger!Next

LEMMA CaptureRefines ==
  ASSUME Inv, NEW e \in Entries, Capture(e)
  PROVE  Ledger!Capture(e)
<1>1. entries[e].status = "none" /\ UNCHANGED orders
  BY DEF Capture
<1>2. PICK s \in Symbols :
        entries' = [entries EXCEPT ![e] = [symbol |-> s, status |-> "PENDING_ENTRY", aged |-> FALSE]]
  BY DEF Capture
<1>3. /\ entries'[e].status = "PENDING_ENTRY"
      /\ \A x \in Entries \ {e} : entries'[x] = entries[x]
  BY <1>2 DEF Inv, TypeInv
<1>4. Phase("none") = "none" /\ Phase("PENDING_ENTRY") = "waiting"
  BY DEF Phase, Waiting
<1>5. Phases[e] = "none" /\ Phases' = [Phases EXCEPT ![e] = "waiting"]
  <2> HIDE DEF Phase
  <2> QED BY <1>1, <1>3, <1>4 DEF Phases
<1>6. Sent' = Sent
  BY <1>1 DEF Sent, OrdersOf
<1> QED BY <1>5, <1>6 DEF Ledger!Capture, Ledger!Moves, Phases, Sent, OrdersOf

\* One order more for the entry that is being tried.
LEMMA PlaceOrderRefines ==
  ASSUME Inv, PlaceOrder
  PROVE  Here \in Entries /\ Ledger!Send(Here)
<1> DEFINE n == Len(orders) + 1
<1>1. /\ job.pc = "submitting" /\ UNCHANGED entries /\ orders' = Append(orders, Placed)
  BY DEF PlaceOrder, Placed
<1>2. /\ Len(orders) \in Nat /\ DOMAIN orders = 1 .. Len(orders)
      /\ DOMAIN orders' = 1 .. n /\ orders'[n] = Placed
      /\ \A i \in DOMAIN orders : orders'[i] = orders[i]
  BY <1>1, PlacedIs DEF Inv
<1>3. Placed.entry = Here
  BY DEF Placed
<1>4. Here \in Entries /\ entries[Here].status \in Trying
  BY <1>1, HereIs DEF Inv, PassInv, EntryInv, Trial
<1>5. PICK h \in Entries : h = Here
  BY <1>4
<1>6. DOMAIN orders' = DOMAIN orders \cup {n} /\ n \notin DOMAIN orders /\ IsFiniteSet(DOMAIN orders)
  <2> DEFINE m == Len(orders)
  <2>2. m \in Nat /\ DOMAIN orders = 1 .. m /\ DOMAIN orders' = 1 .. (m + 1) /\ n = m + 1
    BY <1>2
  <2> HIDE DEF m, n
  <2>1. IsFiniteSet(1 .. m)
    <3>1. 1 \in Int /\ m \in Int
      BY <2>2
    <3> QED BY <3>1, FS_Interval
  <2>3. 1 .. (m + 1) = (1 .. m) \cup {m + 1} /\ m + 1 \notin 1 .. m
    BY <2>2
  <2> QED BY <2>1, <2>2, <2>3
<1> HIDE DEF n, Placed
<1>7. \A e \in Entries : e # h => OrdersOf(e)' = OrdersOf(e)
  BY <1>2, <1>3, <1>5, <1>6 DEF OrdersOf
<1>8. OrdersOf(h)' = OrdersOf(h) \cup {n} /\ n \notin OrdersOf(h)
  BY <1>2, <1>3, <1>5, <1>6 DEF OrdersOf
<1>9. Cardinality(OrdersOf(h)') = Cardinality(OrdersOf(h)) + 1
  <2>1. OrdersOf(h) \in SUBSET DOMAIN orders
    BY DEF OrdersOf
  <2>2. IsFiniteSet(OrdersOf(h))
    BY <1>6, <2>1, FS_Subset
  <2> HIDE DEF OrdersOf
  <2> QED BY <1>8, <2>2, FS_AddElement
<1>10. Sent' = [Sent EXCEPT ![h] = @ + 1]
  <2>1. \A e \in Entries : Sent'[e] = IF e = h THEN Sent[h] + 1 ELSE Sent[e]
    <3> HIDE DEF OrdersOf
    <3> QED BY <1>7, <1>9 DEF Sent
  <2>2. DOMAIN Sent' = Entries /\ DOMAIN Sent = Entries
    BY DEF Sent
  <2> QED BY <2>1, <2>2 DEF Sent
<1>11. Phases[h] = "trying" /\ Phases' = Phases
  BY <1>1, <1>4, <1>5, PhaseOf DEF Phases
<1>12. Ledger!Send(h)
  BY <1>10, <1>11 DEF Ledger!Send, Phases, Sent, OrdersOf
<1> QED BY <1>4, <1>5, <1>12

LEMMA NextRefines == Inv /\ [Next]_vars => [Ledger!Next]_(Ledger!vars)
<1> SUFFICES ASSUME Inv, [Next]_vars PROVE [Ledger!Next]_(Ledger!vars)
  OBVIOUS
<1>1. ASSUME Calm PROVE [Ledger!Next]_(Ledger!vars)
  <2>1. PhaseMoves /\ NothingSent
    BY <1>1 DEF Calm, SameOrders, SameOrder, NothingSent
  <2> QED BY <2>1, PhaseMovesRefines
<1>2. ASSUME UNCHANGED entries, NothingSent PROVE [Ledger!Next]_(Ledger!vars)
  <2>1. PhaseMoves
    BY <1>2, EntriesUnchanged DEF Inv
  <2> QED BY <1>2, <2>1, PhaseMovesRefines
<1>3. CASE (Worker \/ Crash) /\ ~ PlaceOrder
  BY <1>1, <1>3, WorkerCalm
<1>4. CASE PlaceOrder
  <2>1. PICK h \in Entries : h = Here
    BY <1>4, PlaceOrderRefines
  <2>2. Ledger!Send(h)
    BY <1>4, <2>1, PlaceOrderRefines
  <2> QED BY <2>2 DEF Ledger!Next
<1>5. CASE Sell
  BY <1>2, <1>5 DEF Sell, NothingSent
<1>6. CASE \E e \in Entries : Capture(e)
  BY <1>6, CaptureRefines DEF Ledger!Next
<1>7. CASE \E e \in Entries : Age(e)
  BY <1>1, <1>7, AgeCalm
<1>8. CASE \E i \in DOMAIN orders :
             Fill(i) \/ CancelAtBroker(i) \/ RefuseAtBroker(i) \/ WarnAboutOrder(i)
  <2>1. PICK i \in DOMAIN orders :
          Fill(i) \/ CancelAtBroker(i) \/ RefuseAtBroker(i) \/ WarnAboutOrder(i)
    BY <1>8
  <2>2. PICK n \in Nat : BrokerStep(i, n)
    BY <2>1, BrokerIs
  <2>3. UNCHANGED entries /\ NothingSent
    BY <2>2 DEF BrokerStep, NothingSent
  <2> QED BY <1>2, <2>3
<1>9. CASE UNCHANGED vars
  BY <1>2, <1>9 DEF vars, NothingSent
<1> QED BY <1>3, <1>4, <1>5, <1>6, <1>7, <1>8, <1>9 DEF Next

\* The pending entries keep the promise of EntryLedger: an order goes out only
\* for an entry that is being tried, and what is settled is never tried again.
THEOREM EntriesRefineLedger == Spec => RefinesLedger
<1>1. Init => Ledger!Init
  <2> SUFFICES ASSUME Init PROVE Ledger!Init
    OBVIOUS
  <2>1. orders = <<>> /\ entries = [e \in Entries |-> NoEntry]
    BY DEF Init
  <2>2. \A e \in Entries : Phase(entries[e].status) = "none"
    BY <2>1 DEF NoEntry, Phase
  <2>3. \A e \in Entries : Cardinality({i \in DOMAIN orders : orders[i].entry = e}) = 0
    <3> TAKE e \in Entries
    <3>1. {i \in DOMAIN orders : orders[i].entry = e} = {}
      BY <2>1
    <3> QED BY <3>1, FS_EmptySet
  <2> QED BY <2>2, <2>3 DEF Ledger!Init
<1> QED BY <1>1, EntryInvariant, NextRefines, PTL DEF Spec, RefinesLedger, Ledger!Spec

=====================================
