-------------------------- MODULE BrokerSyncProofs --------------------------
(***************************************************************************)
(* For any set of orders, any order ids, any number of sockets, refreshes  *)
(* and errors, and any interleaving of the two threads: no order reaches   *)
(* the broker under an id read after a callback has withdrawn the          *)
(* readiness, unless a whole refresh began in between (Fresh); and what    *)
(* the gate opens with is the account, no order of this program lost, none *)
(* of another client at work that was there to be listed, no position      *)
(* missed (SyncInv).                                                       *)
(***************************************************************************)
EXTENDS BrokerSync, TLAPS

\* What an error and its callback do, field by field, keeps the strengthening.
LEMMA CallbackKeepsFresh ==
  ASSUME Fresh,
         ConnectivityError \/ ErrorIsStored \/ WithdrawReadiness \/ CallbackEnds \/ CallbackRaises
  PROVE  Fresh'
<1>1. CASE ConnectivityError
  BY <1>1 DEF Fresh, ConnectivityError, brokerVars, execVars, workerVars, historyVars, AllEnded,
    Cleared
<1>2. CASE ErrorIsStored \/ CallbackEnds \/ CallbackRaises
  BY <1>2 DEF Fresh, ErrorIsStored, CallbackEnds, CallbackRaises, appVars, execVars, workerVars,
    historyVars, AllEnded, Cleared
<1>3. CASE WithdrawReadiness
  <2>1. UNCHANGED <<pc, orderId, fresh, ended>> /\ api \in Cleared
        /\ connected' = (connected /\ api # "connected")
        /\ (known' => known) /\ nextId' = (IF api = "nextId" THEN NoId ELSE nextId)
        /\ settled' = (settled /\ api # "nextId")
    BY <1>3 DEF WithdrawReadiness, workerVars
  <2>2. connected' => connected /\ api \in Cleared \ {"connected"}
    BY <2>1
  <2>3. nextId' # NoId => nextId' = nextId /\ (settled => settled')
    BY <2>1
  <2>4. connected' => ~ known' /\ (pc' = "idle" \/ (pc' = "waiting" /\ ~ AllEnded'))
    BY <2>1, <2>2 DEF Fresh, AllEnded
  <2> QED
    BY <2>1, <2>2, <2>3, <2>4 DEF Fresh, Submitting
<1> QED
  BY <1>1, <1>2, <1>3

\* Every step of the worker keeps the strengthening.
LEMMA WorkerKeepsFresh ==
  ASSUME Fresh, Worker
  PROVE  Fresh'
<1> USE DEF Fresh, Submitting
<1>1. CASE Connect
  BY <1>1 DEF Connect, DropReadiness, Cleared
<1>2. CASE HandshakeDone
  BY <1>2 DEF HandshakeDone, appVars, historyVars
<1>3. CASE HandshakeFails
  BY <1>3 DEF HandshakeFails, DropReadiness, historyVars
<1>4. CASE BeginRefresh
  BY <1>4 DEF BeginRefresh, AllEnded, Requested
<1>5. CASE RefreshTimesOut
  BY <1>5 DEF RefreshTimesOut, appVars, execVars
<1>6. CASE FinishRefresh
  BY <1>6 DEF FinishRefresh, historyVars
<1>7. CASE SnapshotRejected
  BY <1>7 DEF SnapshotRejected, appVars, execVars, historyVars
<1>8. CASE BuildSnapshot
  BY <1>8 DEF BuildSnapshot, appVars, historyVars
<1>9. CASE PublishSnapshot
  BY <1>9 DEF PublishSnapshot, appVars, historyVars
<1>10. ASSUME NEW o \in Orders, BeginSubmit(o) PROVE Fresh'
  BY <1>10 DEF BeginSubmit, ReadyToSubmit, appVars, execVars, historyVars
<1>11. CASE InstrumentResolved
  BY <1>11 DEF InstrumentResolved, appVars, execVars, historyVars
<1>12. CASE InstrumentUnresolved
  BY <1>12 DEF InstrumentUnresolved, appVars, execVars, historyVars
<1>13. CASE ReadOrderId
  BY <1>13 DEF ReadOrderId, appVars, execVars
<1>14. CASE SendOrder
  BY <1>14 DEF SendOrder
<1>15. CASE ReadNextId
  BY <1>15 DEF ReadNextId, appVars, execVars, historyVars
<1>16. CASE WriteNextId
  BY <1>16 DEF WriteNextId, execVars, historyVars
<1> QED
  BY <1>1, <1>2, <1>3, <1>4, <1>5, <1>6, <1>7, <1>8, <1>9, <1>10, <1>11, <1>12, <1>13, <1>14, <1>15,
    <1>16 DEF Worker

\* The strengthening is inductive.
LEMMA FreshInductive ==
  ASSUME Fresh, [Next]_vars
  PROVE  Fresh'
<1>1. CASE Worker
  BY <1>1, WorkerKeepsFresh
<1>2. CASE TwsAnswers
  BY <1>2 DEF Fresh, TwsAnswers, appVars, execVars, workerVars, AllEnded
<1>3. CASE DeliverMessage
  BY <1>3 DEF Fresh, DeliverMessage, execVars, workerVars, historyVars, Cleared
<1>4. ASSUME NEW o \in Orders, NEW filled \in BOOLEAN, OrderLeaves(o, filled) PROVE Fresh'
  BY <1>4 DEF Fresh, OrderLeaves, appVars, execVars, workerVars, historyVars, AllEnded
<1>5. ASSUME NEW o \in Orders, ForeignAppears(o) PROVE Fresh'
  BY <1>5 DEF Fresh, ForeignAppears, appVars, execVars, workerVars, AllEnded
<1>6. CASE UNCHANGED vars
  BY <1>6 DEF Fresh, vars, AllEnded
<1> QED
  BY <1>1, <1>2, <1>3, <1>4, <1>5, <1>6, CallbackKeepsFresh DEF Next, Outside, ApiThread, Tws

\* Whenever the gate is open, and at each place of submit_order up to the reading
\* of the id, either a refresh has begun since the last readiness was withdrawn
\* or the callback has taken away what the worker is still to look at.
THEOREM GateIsFresh == Spec => []Fresh
<1>1. Init => Fresh
  BY DEF Init, Fresh, Submitting, Cleared
<1>2. Fresh /\ [Next]_vars => Fresh'
  BY FreshInductive
<1> QED
  BY <1>1, <1>2, PTL DEF Spec

\* Only SendOrder adds an order of this program to the account, and it does so
\* only under an id: one read before the callback took it away.
LEMMA StepPlacesFresh ==
  ASSUME Fresh, [Next]_vars
  PROVE  (account'["orders"] \ account["orders"]) \cap Own # {} => fresh
<1>1. CASE SendOrder
  BY <1>1 DEF Fresh, SendOrder
<1>2. ASSUME NEW o \in Orders, NEW filled \in BOOLEAN, OrderLeaves(o, filled)
      PROVE  account'["orders"] \subseteq account["orders"]
  BY <1>2 DEF OrderLeaves, Requested
<1>3. ASSUME NEW o \in Orders, ForeignAppears(o)
      PROVE  (account'["orders"] \ account["orders"]) \cap Own = {}
  BY <1>3 DEF ForeignAppears, Own
<1>4. CASE UNCHANGED account
  BY <1>4
<1>5. ASSUME Next, ~ SendOrder, ~ UNCHANGED account
      PROVE  \/ \E o \in Orders, filled \in BOOLEAN : OrderLeaves(o, filled)
             \/ \E o \in Orders : ForeignAppears(o)
  BY <1>5 DEF Next, Worker, Outside, ApiThread, Tws, Connect, HandshakeDone, HandshakeFails,
    BeginRefresh, RefreshTimesOut, FinishRefresh, SnapshotRejected, BuildSnapshot, PublishSnapshot,
    BeginSubmit, InstrumentResolved, InstrumentUnresolved, ReadOrderId, ReadNextId, WriteNextId,
    TwsAnswers, DeliverMessage, ConnectivityError, ErrorIsStored, WithdrawReadiness, CallbackEnds,
    CallbackRaises, brokerVars
<1>6. UNCHANGED vars => UNCHANGED account
  BY DEF vars
<1> QED
  BY <1>1, <1>2, <1>3, <1>4, <1>5, <1>6

\* Once a callback has withdrawn the readiness no order reaches the broker under
\* an id read after that, before a refresh has begun anew.
THEOREM OrdersPlacedFresh == Spec => PlacedOnlyFresh
<1>1. Fresh /\ [Next]_vars =>
        [(account'["orders"] \ account["orders"]) \cap Own # {} => fresh]_vars
  BY StepPlacesFresh
<1> QED
  BY <1>1, GateIsFresh, PTL DEF Spec, PlacedOnlyFresh

-----------------------------------------------------------------------------
(* What the gate opens with, as long as no refresh of this socket gave up.  *)

Answered(k) == \E n \in DOMAIN wire : wire[n] = End(k)
Asked(k)    == \E n \in DOMAIN requests : requests[n] = k
LeftToAnswer == {RequestOrder, <<"orders", "executions">>, <<"executions">>, <<>>}

\* The account, which no position leaves, and the ids of this program.
OrderInv ==
  /\ account \in [Requested -> SUBSET Orders] /\ held \subseteq account["positions"]
  /\ issued \subseteq Own /\ unlisted \subseteq Foreign
  /\ pending \in Own \cup {NoOrder}
  /\ pc \in Submitting => pending \in Own

\* Messages and what they are collected into: an end event carries nothing, and
\* terminal statuses come for own orders only.
WireInv ==
  /\ values \in [Streams -> SUBSET Orders] /\ values["closed"] \subseteq Own
  /\ ended \subseteq Requested
  /\ wire \in Seq(Messages)
  /\ \A n \in DOMAIN wire :
       /\ wire[n].end => wire[n].stream \in Requested /\ wire[n].items = {}
       /\ wire[n].stream = "closed" => wire[n].items \subseteq Own

\* Each request of the refresh under way is in one place: with TWS, answered,
\* or ended; outside a refresh none is left.
RoundInv ==
  /\ requests \in LeftToAnswer
  /\ \A k \in Requested : Asked(k) => k \notin ended /\ ~ Answered(k)
  /\ \A k \in ended : ~ Answered(k)
  /\ \A m, n \in DOMAIN wire :
       wire[m].end /\ wire[n].end /\ wire[m].stream = wire[n].stream => m = n
  /\ pc = "waiting" => \A k \in Requested : Asked(k) \/ Answered(k) \/ k \in ended
  /\ pc # "waiting" => requests = <<>> /\ \A n \in DOMAIN wire : ~ wire[n].end
  /\ pc = "priced" => ended = Requested

\* x was collected for the stream k, or will be before the n-th message.
Seen(x, k, n) ==
  x \in values[k] \/ \E m \in DOMAIN wire : m < n /\ wire[m].stream = k /\ x \in wire[m].items

\* What the end of a stream vouches for, where no id is shared: positions held at
\* the beginning, orders that still work but for those of others that came since,
\* and own orders wherever they are now - one that left the book after the orders
\* were answered is among the executions.
Covers(k, n) ==
  /\ k = "positions" => \A x \in held : Seen(x, "positions", n)
  /\ k = "orders" => \A x \in (account["orders"] \cap Distinct) \ unlisted : Seen(x, "orders", n)
  /\ k = "executions" =>
       \A x \in (account["orders"] \cup account["executions"]) \cap Own \cap Distinct :
         Seen(x, "orders", n) \/ Seen(x, "executions", n)

AnswerInv ==
  /\ \A n \in DOMAIN wire, k \in Requested : wire[n] = End(k) => Covers(k, n)
  /\ \A k \in ended : Covers(k, 0)

\* What holds behind the gate, and on the way to it.
GateInv ==
  /\ known \/ pc \in {"priced", "publish"} =>
       /\ (account["orders"] \cup account["executions"]) \cap Own \cap Distinct \subseteq mapped
       /\ account["orders"] \cap Foreign \cap Distinct \subseteq unlisted
  /\ connected /\ (known \/ pc = "publish") => held \subseteq snapshot.positions
  /\ pc \in {"handshake", "waiting"} => ~ known

SocketInv == WireInv /\ RoundInv /\ AnswerInv /\ GateInv

SyncInv == OrderInv /\ (~ gaveUp => SocketInv)

\* What a mark of a stream vouches for stays, as long as what was collected or
\* is in front of the mark does.
LEMMA CoversKept ==
  ASSUME NEW k, NEW n \in Nat, NEW m \in Nat, Covers(k, n),
         UNCHANGED <<held, number>>,
         k = "orders" => account'["orders"] \ unlisted' \subseteq account["orders"] \ unlisted,
         (account'["orders"] \cup account'["executions"]) \cap Own
           \subseteq account["orders"] \cup account["executions"],
         \A x \in Orders, j \in Requested :
           (j = "orders" => x \in Distinct) /\ Seen(x, j, n) => Seen(x, j, m)',
         OrderInv
  PROVE  Covers(k, m)'
<1>1. held \subseteq Orders /\ Distinct \subseteq Orders /\ Distinct' = Distinct
  BY DEF OrderInv, Requested, Distinct
<1>2. k = "positions" => \A x \in held' : Seen(x, "positions", m)'
  BY <1>1 DEF Covers, Requested
<1>3. k = "orders" =>
        \A x \in (account'["orders"] \cap Distinct') \ unlisted' : Seen(x, "orders", m)'
  BY <1>1 DEF Covers, Requested
<1>4. k = "executions" =>
        \A x \in (account'["orders"] \cup account'["executions"]) \cap Own \cap Distinct' :
          Seen(x, "orders", m)' \/ Seen(x, "executions", m)'
  BY <1>1 DEF Covers, Requested
<1> QED
  BY <1>2, <1>3, <1>4 DEF Covers

\* A step that leaves the account and what is collected alone keeps it all.
LEMMA Quiet ==
  ASSUME OrderInv, UNCHANGED <<account, wire, values, ended, held, number, unlisted>>
  PROVE  (WireInv => WireInv') /\ (AnswerInv => AnswerInv')
BY DEF WireInv, AnswerInv, Covers, Seen, Distinct

LEMMA QuietRound ==
  ASSUME RoundInv, UNCHANGED <<requests, wire, ended>>, pc # "waiting", pc' # "waiting",
         pc' = "priced" => pc = "priced"
  PROVE  RoundInv'
BY DEF RoundInv, Asked, Answered

\* When every end event is set, TWS has no request and the wire no end left.
LEMMA NothingLeft ==
  ASSUME WireInv, RoundInv, AllEnded
  PROVE  requests = <<>> /\ \A n \in DOMAIN wire : ~ wire[n].end
<1>1. \A k \in Requested : ~ Asked(k) /\ ~ Answered(k)
  BY DEF RoundInv, AllEnded
<1>2. ASSUME NEW n \in DOMAIN wire, wire[n].end PROVE FALSE
  <2>1. wire[n] \in Messages /\ wire[n].stream \in Requested /\ wire[n].items = {}
    BY <1>2 DEF WireInv
  <2>2. wire[n] = End(wire[n].stream)
    BY <1>2, <2>1 DEF Messages, End
  <2> QED
    BY <1>1, <2>1, <2>2 DEF Answered
<1>3. requests = <<>>
  <2>1. CASE requests = RequestOrder
    BY <1>1, <2>1 DEF Asked, RequestOrder, Requested
  <2>2. CASE requests = <<"orders", "executions">>
    BY <1>1, <2>2 DEF Asked, Requested
  <2>3. CASE requests = <<"executions">>
    BY <1>1, <2>3 DEF Asked, Requested
  <2> QED
    BY <2>1, <2>2, <2>3 DEF RoundInv, LeftToAnswer
<1> QED
  BY <1>2, <1>3

LEMMA ConnectStep == SyncInv /\ Connect => SyncInv'
<1> SUFFICES ASSUME SyncInv, Connect PROVE SyncInv'
  OBVIOUS
<1>1. OrderInv'
  BY DEF SyncInv, OrderInv, Connect, Submitting
<1>2. wire' = <<>> /\ requests' = <<>> /\ values' = NoValues /\ ended' = {} /\ pc' = "handshake"
      /\ known' = FALSE /\ connected' = FALSE
  BY DEF Connect, DropReadiness
<1>3. WireInv'
  BY <1>2 DEF WireInv, NoValues, Streams, Messages
<1>4. RoundInv'
  BY <1>2 DEF RoundInv, LeftToAnswer, Asked, Answered
<1>5. AnswerInv'
  BY <1>2 DEF AnswerInv
<1>6. GateInv'
  BY <1>2 DEF GateInv
<1> QED
  BY <1>1, <1>3, <1>4, <1>5, <1>6 DEF SyncInv, SocketInv

LEMMA HandshakeStep == SyncInv /\ (HandshakeDone \/ HandshakeFails) => SyncInv'
<1>1. ASSUME SyncInv, HandshakeDone PROVE SyncInv'
  <2>1. UNCHANGED <<account, requests, wire, values, ended, known, snapshot, mapped, issued,
                    pending, gaveUp, held, number, unlisted>> /\ pc = "handshake" /\ pc' = "idle"
    BY <1>1 DEF HandshakeDone, brokerVars, appVars, historyVars
  <2>2. OrderInv'
    BY <1>1, <2>1 DEF SyncInv, OrderInv, Submitting
  <2>3. SocketInv => WireInv' /\ AnswerInv'
    BY <1>1, <2>1, Quiet DEF SyncInv, SocketInv
  <2>4. SocketInv => RoundInv'
    BY <2>1, QuietRound DEF SocketInv
  <2>5. SocketInv => GateInv'
    BY <2>1 DEF SocketInv, GateInv, Distinct
  <2> QED
    BY <1>1, <2>1, <2>2, <2>3, <2>4, <2>5 DEF SyncInv, SocketInv
<1>2. ASSUME SyncInv, HandshakeFails PROVE SyncInv'
  <2>1. /\ UNCHANGED <<account, values, ended, mapped, issued, pending, gaveUp, held, number,
                       unlisted>>
        /\ pc = "handshake" /\ pc' = "idle" /\ known' = FALSE /\ requests' = <<>> /\ wire' = <<>>
    BY <1>2 DEF HandshakeFails, DropReadiness, historyVars
  <2>2. OrderInv'
    BY <1>2, <2>1 DEF SyncInv, OrderInv, Submitting
  <2>3. SocketInv => WireInv'
    BY <2>1 DEF SocketInv, WireInv
  <2>4. SocketInv => RoundInv'
    BY <2>1 DEF SocketInv, RoundInv, Asked, Answered, LeftToAnswer
  <2>5. SocketInv => GateInv'
    BY <2>1 DEF SocketInv, GateInv
  <2>6. SocketInv => AnswerInv'
    <3>1. ASSUME SocketInv, NEW k \in ended PROVE Covers(k, 0)'
      <4>1. \A x, j : Seen(x, j, 0) => Seen(x, j, 0)'
        BY <2>1, <3>1 DEF Seen, SocketInv, WireInv
      <4> QED
        BY <2>1, <3>1, <4>1, <1>2, CoversKept DEF SocketInv, AnswerInv, SyncInv
    <3> QED
      BY <2>1, <3>1 DEF AnswerInv
  <2> QED
    BY <1>2, <2>1, <2>2, <2>3, <2>4, <2>5, <2>6 DEF SyncInv, SocketInv
<1> QED
  BY <1>1, <1>2

\* The requests of a refresh go out while none is left: a refresh begins with
\* nothing collected, nothing ended and no end on the wire.
LEMMA BeginRefreshStep == SyncInv /\ BeginRefresh => SyncInv'
<1> SUFFICES ASSUME SyncInv, BeginRefresh PROVE SyncInv'
  OBVIOUS
<1>1. /\ UNCHANGED <<account, wire, snapshot, mapped, issued, pending, gaveUp, number, unlisted>>
      /\ pc = "idle" /\ pc' = "waiting" /\ known' = FALSE
      /\ ended' = {} /\ values' = NoValues /\ held' = account["positions"]
      /\ requests' = requests \o RequestOrder
  BY DEF BeginRefresh
<1>2. OrderInv'
  BY <1>1 DEF SyncInv, OrderInv, Submitting
<1>3. SocketInv => WireInv'
  BY <1>1 DEF SocketInv, WireInv, NoValues, Streams
<1>4. ASSUME SocketInv PROVE requests' = RequestOrder /\ \A n \in DOMAIN wire : ~ wire[n].end
  BY <1>1, <1>4 DEF SocketInv, RoundInv, RequestOrder
<1>5. \A k : ~ Answered(k)' \/ ~ SocketInv
  BY <1>1, <1>4 DEF Answered, End
<1>6. ASSUME SocketInv PROVE \A k \in Requested : Asked(k)'
  BY <1>4, <1>6 DEF Asked, RequestOrder, Requested
<1>7. SocketInv => RoundInv'
  BY <1>1, <1>4, <1>5, <1>6 DEF RoundInv, LeftToAnswer
<1>8. SocketInv => AnswerInv'
  BY <1>1, <1>5 DEF AnswerInv, Answered
<1>9. SocketInv => GateInv'
  BY <1>1 DEF GateInv
<1> QED
  BY <1>1, <1>2, <1>3, <1>7, <1>8, <1>9 DEF SyncInv, SocketInv

LEMMA RefreshTimesOutStep == SyncInv /\ RefreshTimesOut => SyncInv'
BY DEF SyncInv, OrderInv, RefreshTimesOut, appVars, execVars, Submitting

\* With every end event set, the mapping holds every order of this program and
\* no order of another client works.
LEMMA FinishRefreshStep == SyncInv /\ FinishRefresh => SyncInv'
<1> SUFFICES ASSUME SyncInv, FinishRefresh PROVE SyncInv'
  OBVIOUS
<1> DEFINE closed == values["closed"] \cup (values["executions"] \ Foreign)
<1>1. /\ UNCHANGED <<account, requests, wire, ended, connected, known, snapshot, issued, pending,
                     gaveUp, held, number, unlisted>>
      /\ pc = "waiting" /\ AllEnded
      /\ values' = [values EXCEPT !["closed"] = closed]
      /\ mapped' = (values["orders"] \cup values["executions"]) \ Foreign
      /\ pc' \in {"priced", "idle"}
      /\ pc' = "priced" => Working(values["orders"], closed) \subseteq issued
  BY DEF FinishRefresh, UnknownOpenOrders, brokerVars, historyVars
<1>2. OrderInv /\ OrderInv' /\ Distinct' = Distinct /\ Distinct \subseteq Orders
  BY <1>1 DEF SyncInv, OrderInv, Submitting, Distinct
<1>3. ASSUME SocketInv
      PROVE  /\ values' \in [Streams -> SUBSET Orders] /\ values'["closed"] \subseteq Own
             /\ \A k \in Requested : values'[k] = values[k]
             /\ values["orders"] \subseteq Orders /\ closed \subseteq Own
  BY <1>1, <1>3, SyncAssumption DEF SocketInv, WireInv, Streams, Requested, Own
<1>4. SocketInv => WireInv'
  BY <1>1, <1>3 DEF SocketInv, WireInv
<1>5. ASSUME SocketInv PROVE RoundInv'
  <2>1. requests = <<>> /\ \A n \in DOMAIN wire : ~ wire[n].end
    BY <1>1, <1>5, NothingLeft DEF SocketInv
  <2> QED
    BY <1>1, <1>5, <2>1 DEF SocketInv, RoundInv, Asked, Answered, AllEnded
<1>6. SocketInv => AnswerInv'
  <2> SUFFICES ASSUME SocketInv PROVE AnswerInv'
    OBVIOUS
  <2>1. \A n \in Nat, x \in Orders, j \in Requested : Seen(x, j, n) => Seen(x, j, n)'
    BY <1>1, <1>3 DEF Seen
  <2>2. \A n \in Nat, k \in Requested : Covers(k, n) => Covers(k, n)'
    BY <1>1, <1>2, <2>1, CoversKept
  <2>3. DOMAIN wire \subseteq Nat
    BY DEF SocketInv, WireInv
  <2> QED
    BY <1>1, <2>2, <2>3 DEF SocketInv, AnswerInv, WireInv
<1>7. ASSUME SocketInv PROVE GateInv'
  <2>1. Covers("orders", 0) /\ Covers("executions", 0)
    BY <1>1, <1>7 DEF SocketInv, AnswerInv, AllEnded, Requested
  <2>2. \A x, k : Seen(x, k, 0) => x \in values[k]
    BY <1>7 DEF Seen, SocketInv, WireInv
  <2>3. (account["orders"] \cup account["executions"]) \cap Own \cap Distinct \subseteq mapped'
    BY <1>1, <2>1, <2>2 DEF Covers, Own
  <2>4. ASSUME pc' = "priced", NEW x \in account["orders"] \cap Foreign \cap Distinct,
               x \notin unlisted
        PROVE  FALSE
    <3>1. x \in values["orders"] /\ x \notin Own
      BY <2>1, <2>2, <2>4 DEF Covers, Own
    <3>2. \A c \in closed : number[c] # number[x]
      BY <1>3, <1>7, <2>4, <3>1 DEF Distinct, Own
    <3>3. x \in Working(values["orders"], closed)
      BY <3>1, <3>2 DEF Working
    <3> QED
      BY <1>1, <1>2, <2>4, <3>1, <3>3 DEF OrderInv
  <2> QED
    BY <1>1, <1>2, <1>7, <2>3, <2>4 DEF SocketInv, GateInv
<1> QED
  BY <1>1, <1>2, <1>4, <1>5, <1>6, <1>7 DEF SyncInv, SocketInv

LEMMA SnapshotRejectedStep == SyncInv /\ SnapshotRejected => SyncInv'
<1> SUFFICES ASSUME SyncInv, SnapshotRejected PROVE SyncInv'
  OBVIOUS
<1>1. /\ UNCHANGED <<account, requests, wire, values, ended, connected, known, snapshot, mapped,
                     issued, pending, gaveUp, held, number, unlisted>>
      /\ pc = "priced" \/ (pc = "waiting" /\ AllEnded)
      /\ pc' = "idle"
  BY DEF SnapshotRejected, brokerVars, appVars, execVars, historyVars
<1>2. OrderInv /\ OrderInv'
  BY <1>1 DEF SyncInv, OrderInv, Submitting
<1>3. SocketInv => WireInv' /\ AnswerInv'
  BY <1>1, <1>2, Quiet DEF SocketInv
<1>4. SocketInv => RoundInv'
  <2>1. CASE pc = "priced"
    BY <1>1, <2>1, QuietRound DEF SocketInv
  <2>2. CASE pc = "waiting" /\ AllEnded
    BY <1>1, <2>2, NothingLeft DEF SocketInv, RoundInv, Asked, Answered, AllEnded
  <2> QED
    BY <1>1, <2>1, <2>2
<1>5. SocketInv => GateInv'
  BY <1>1 DEF SocketInv, GateInv, Distinct
<1> QED
  BY <1>1, <1>2, <1>3, <1>4, <1>5 DEF SyncInv, SocketInv

\* The snapshot is built from what has ended, so every position held at the
\* beginning of the refresh is in it.
LEMMA SnapshotStep == SyncInv /\ (BuildSnapshot \/ PublishSnapshot) => SyncInv'
<1>1. ASSUME SyncInv, BuildSnapshot PROVE SyncInv'
  <2>1. /\ UNCHANGED <<account, requests, wire, values, ended, connected, known, mapped, issued,
                       pending, gaveUp, held, number, unlisted>>
        /\ pc = "priced" /\ pc' \in {"publish", "idle"}
        /\ pc' = "publish" => snapshot'.positions = values["positions"]
        /\ pc' = "idle" => UNCHANGED snapshot
    BY <1>1 DEF BuildSnapshot, brokerVars, appVars, historyVars
  <2>2. OrderInv /\ OrderInv'
    BY <1>1, <2>1 DEF SyncInv, OrderInv, Submitting
  <2>3. SocketInv => WireInv' /\ AnswerInv' /\ RoundInv'
    BY <2>1, <2>2, Quiet, QuietRound DEF SocketInv
  <2>4. ASSUME SocketInv PROVE held \subseteq values["positions"]
    <3>1. Covers("positions", 0)
      BY <2>1, <2>4 DEF SocketInv, RoundInv, AnswerInv, Requested
    <3> QED
      BY <2>4, <3>1 DEF Covers, Seen, SocketInv, WireInv
  <2>5. SocketInv => GateInv'
    BY <2>1, <2>4 DEF SocketInv, GateInv, Distinct
  <2> QED
    BY <1>1, <2>1, <2>2, <2>3, <2>5 DEF SyncInv, SocketInv
<1>2. ASSUME SyncInv, PublishSnapshot PROVE SyncInv'
  <2>1. /\ UNCHANGED <<account, requests, wire, values, ended, connected, snapshot, mapped, issued,
                       pending, gaveUp, held, number, unlisted>>
        /\ pc = "publish" /\ pc' = "idle"
    BY <1>2 DEF PublishSnapshot, brokerVars, appVars, historyVars
  <2>2. OrderInv /\ OrderInv'
    BY <1>2, <2>1 DEF SyncInv, OrderInv, Submitting
  <2>3. SocketInv => WireInv' /\ AnswerInv' /\ RoundInv' /\ GateInv'
    BY <2>1, <2>2, Quiet, QuietRound DEF SocketInv, GateInv, Distinct
  <2> QED
    BY <1>2, <2>1, <2>2, <2>3 DEF SyncInv, SocketInv
<1> QED
  BY <1>1, <1>2

LEMMA SubmitStep ==
  ASSUME SyncInv,
         \/ \E o \in Orders : BeginSubmit(o)
         \/ InstrumentResolved \/ InstrumentUnresolved \/ ReadOrderId \/ ReadNextId \/ WriteNextId
  PROVE  SyncInv'
<1> USE DEF Submitting
<1>1. /\ UNCHANGED <<account, requests, wire, values, ended, connected, known, snapshot, mapped,
                     issued, gaveUp, held, number, unlisted>>
      /\ pc \in Submitting \cup {"idle", "advancing", "counting"}
      /\ pc' \in Submitting \cup {"idle", "counting"}
  BY DEF BeginSubmit, InstrumentResolved, InstrumentUnresolved, ReadOrderId, ReadNextId,
    WriteNextId, brokerVars, appVars, execVars, historyVars
<1>2. OrderInv /\ OrderInv'
  <2>1. CASE \E o \in Orders : BeginSubmit(o)
    BY <1>1, <2>1 DEF SyncInv, OrderInv, BeginSubmit
  <2>2. CASE InstrumentResolved \/ ReadOrderId
    BY <1>1, <2>2 DEF SyncInv, OrderInv, InstrumentResolved, ReadOrderId
  <2>3. CASE InstrumentUnresolved
    BY <1>1, <2>3 DEF SyncInv, OrderInv, InstrumentUnresolved
  <2>4. CASE ReadNextId \/ WriteNextId
    BY <1>1, <2>4 DEF SyncInv, OrderInv, ReadNextId, WriteNextId
  <2> QED
    BY <2>1, <2>2, <2>3, <2>4
<1>3. SocketInv => WireInv' /\ AnswerInv' /\ RoundInv'
  BY <1>1, <1>2, Quiet, QuietRound DEF SocketInv
<1>4. SocketInv => GateInv'
  BY <1>1 DEF SocketInv, GateInv, Distinct
<1> QED
  BY <1>1, <1>2, <1>3, <1>4 DEF SyncInv, SocketInv

\* An order is mapped and collected in the step that sends it.
LEMMA SendOrderStep == SyncInv /\ SendOrder => SyncInv'
<1> SUFFICES ASSUME SyncInv, SendOrder PROVE SyncInv'
  OBVIOUS
<1>0. PICK p : p = pending
  OBVIOUS
<1>1. /\ UNCHANGED <<requests, wire, ended, connected, known, snapshot, gaveUp, held, number,
                     unlisted>>
      /\ pc = "sending" /\ pc' \in {"idle", "advancing"} /\ pending' = NoOrder
      /\ mapped' = mapped \cup {p} /\ issued' = issued \cup {p}
      /\ values' = [values EXCEPT !["orders"] = Working(@, {p}) \cup {p}, !["closed"] = @ \ {p}]
      /\ account' = account \/ account' = [account EXCEPT !["orders"] = @ \cup {p}]
  BY <1>0 DEF SendOrder
<1>2. OrderInv /\ p \in Own /\ p \in Orders /\ p \notin Foreign
      /\ Distinct' = Distinct /\ Distinct \subseteq Orders
  BY <1>0, <1>1 DEF SyncInv, OrderInv, Own, Submitting, Distinct
<1>3. /\ account'["positions"] = account["positions"]
      /\ account'["executions"] = account["executions"]
      /\ account'["orders"] \subseteq account["orders"] \cup {p}
      /\ account' \in [Requested -> SUBSET Orders]
  BY <1>1, <1>2 DEF OrderInv, Requested
<1>4. OrderInv'
  BY <1>1, <1>2, <1>3 DEF OrderInv, Submitting
<1>5. ASSUME SocketInv
      PROVE  /\ values' \in [Streams -> SUBSET Orders] /\ values'["closed"] \subseteq Own
             /\ p \in values'["orders"]
             /\ \A k \in Requested \ {"orders"} : values[k] = values'[k]
             /\ values["orders"] \cap Distinct \subseteq values'["orders"]
  <2>1. Working(values["orders"], {p}) \subseteq values["orders"]
    BY DEF Working
  <2>2. values["orders"] \cap Distinct \subseteq Working(values["orders"], {p}) \cup {p}
    BY <1>2 DEF Working, Distinct
  <2> QED
    BY <1>1, <1>2, <1>5, <2>1, <2>2 DEF SocketInv, WireInv, Streams, Requested
<1>6. SocketInv => WireInv' /\ RoundInv'
  BY <1>1, <1>5, QuietRound DEF SocketInv, WireInv
<1>7. ASSUME SocketInv PROVE AnswerInv'
  <2>1. \A n \in Nat, x \in Orders, j \in Requested :
          (j = "orders" => x \in Distinct) /\ Seen(x, j, n) => Seen(x, j, n)'
    BY <1>1, <1>5, <1>7 DEF Seen
  <2>2. ASSUME NEW n \in Nat, NEW k \in Requested, Covers(k, n) PROVE Covers(k, n)'
    <3>1. held \subseteq Orders
      BY <1>2 DEF OrderInv, Requested
    <3>2. Seen(p, "orders", n)'
      BY <1>5, <1>7 DEF Seen
    <3>3. k = "positions" => \A x \in held' : Seen(x, "positions", n)'
      BY <1>1, <2>1, <2>2, <3>1 DEF Covers, Requested
    <3>4. k = "orders" =>
            \A x \in (account'["orders"] \cap Distinct') \ unlisted' : Seen(x, "orders", n)'
      BY <1>1, <1>2, <1>3, <2>1, <2>2, <3>2 DEF Covers, Requested
    <3>5. k = "executions" =>
            \A x \in (account'["orders"] \cup account'["executions"]) \cap Own \cap Distinct' :
              Seen(x, "orders", n)' \/ Seen(x, "executions", n)'
      BY <1>2, <1>3, <2>1, <2>2, <3>2 DEF Covers, Requested
    <3> QED
      BY <3>3, <3>4, <3>5 DEF Covers
  <2>3. DOMAIN wire \subseteq Nat
    BY <1>7 DEF SocketInv, WireInv
  <2> QED
    BY <1>1, <1>7, <2>2, <2>3 DEF SocketInv, AnswerInv, WireInv
<1>8. SocketInv => GateInv'
  BY <1>1, <1>2, <1>3 DEF SocketInv, GateInv
<1> QED
  BY <1>1, <1>4, <1>6, <1>7, <1>8 DEF SyncInv, SocketInv

\* What an appended message leaves as it was.
LEMMA Appended ==
  ASSUME WireInv, NEW s \in Seq(Messages), wire' = wire \o s
  PROVE  /\ wire' \in Seq(Messages) /\ DOMAIN wire' = 1 .. Len(wire) + Len(s)
         /\ DOMAIN wire = 1 .. Len(wire) /\ DOMAIN s = 1 .. Len(s)
         /\ Len(wire) \in Nat /\ Len(s) \in Nat
         /\ \A n \in DOMAIN wire : n \in DOMAIN wire' /\ wire'[n] = wire[n]
         /\ \A n \in DOMAIN wire' \ DOMAIN wire :
              n - Len(wire) \in DOMAIN s /\ wire'[n] = s[n - Len(wire)]
BY DEF WireInv

\* The answer to the oldest request.  The answer to "executions" comes after
\* that to "orders": what has left the book since is among the executions.
LEMMA TwsAnswersStep == SyncInv /\ TwsAnswers => SyncInv'
<1> SUFFICES ASSUME SyncInv, TwsAnswers PROVE SyncInv'
  OBVIOUS
<1>0. PICK k, a : k = Head(requests) /\ a = Len(wire)
  OBVIOUS
<1> DEFINE s == <<Contents(k, account[k]), End(k)>>
<1>1. /\ UNCHANGED <<account, values, ended, connected, known, snapshot, mapped, issued, pending,
                     pc, gaveUp, held, number>>
      /\ requests # <<>> /\ requests' = Tail(requests) /\ wire' = wire \o s
      /\ unlisted' = IF k = "orders" THEN {} ELSE unlisted
  BY <1>0 DEF TwsAnswers, appVars, execVars, workerVars
<1>2. OrderInv /\ OrderInv' /\ Distinct' = Distinct /\ Distinct \subseteq Orders
  BY <1>1 DEF SyncInv, OrderInv, Submitting, Distinct
<1> SUFFICES ASSUME SocketInv PROVE SocketInv'
  BY <1>1, <1>2 DEF SyncInv
<1> USE DEF SocketInv
<1>3. /\ pc = "waiting" /\ k \in Requested /\ requests' \in LeftToAnswer
      /\ \A j : Asked(j) <=> j = k \/ Asked(j)'
      /\ ~ Asked(k)'
      /\ k = "executions" => ~ Asked("orders")
  <2>1. requests \in LeftToAnswer /\ pc = "waiting"
    BY <1>1 DEF RoundInv
  <2>2. CASE requests = RequestOrder
    <3>1. k = "positions" /\ requests' = <<"orders", "executions">>
      BY <1>0, <1>1, <2>2 DEF RequestOrder
    <3> QED
      BY <2>1, <2>2, <3>1 DEF RequestOrder, LeftToAnswer, Asked, Requested
  <2>3. CASE requests = <<"orders", "executions">>
    <3>1. k = "orders" /\ requests' = <<"executions">>
      BY <1>0, <1>1, <2>3
    <3> QED
      BY <2>1, <2>3, <3>1 DEF LeftToAnswer, Asked, Requested
  <2>4. CASE requests = <<"executions">>
    <3>1. k = "executions" /\ requests' = <<>>
      BY <1>0, <1>1, <2>4
    <3> QED
      BY <2>1, <2>4, <3>1 DEF LeftToAnswer, Asked, Requested
  <2> QED
    BY <1>1, <2>1, <2>2, <2>3, <2>4 DEF LeftToAnswer
<1>4. /\ s \in Seq(Messages) /\ Len(s) = 2 /\ s[2] = End(k) /\ s[1].stream = k /\ ~ s[1].end
      /\ s[1].items = account[k] /\ account[k] \subseteq Orders
  BY <1>2, <1>3 DEF Contents, End, Messages, Streams, OrderInv, Requested
<1>5. /\ a \in Nat /\ DOMAIN wire = 1 .. a /\ DOMAIN wire' = 1 .. (a + 2)
      /\ wire' \in Seq(Messages)
      /\ \A n \in DOMAIN wire : n \in DOMAIN wire' /\ wire'[n] = wire[n]
      /\ wire'[a + 1] = s[1] /\ wire'[a + 2] = End(k)
  <2>1. WireInv
    OBVIOUS
  <2>2. /\ wire' \in Seq(Messages) /\ DOMAIN wire' = 1 .. Len(wire) + Len(s)
        /\ DOMAIN wire = 1 .. Len(wire) /\ Len(wire) \in Nat
        /\ \A n \in DOMAIN wire : n \in DOMAIN wire' /\ wire'[n] = wire[n]
        /\ \A n \in DOMAIN wire' \ DOMAIN wire : wire'[n] = s[n - Len(wire)]
    BY <1>1, <1>4, <2>1, Appended
  <2> HIDE DEF s
  <2> QED
    BY <1>0, <1>4, <2>2
<1> HIDE DEF s
<1>6. WireInv'
  BY <1>1, <1>3, <1>4, <1>5 DEF WireInv, End, Requested
<1>7. \A j : Answered(j)' <=> Answered(j) \/ j = k
  <2>1. \A j : End(j).stream = j /\ End(j).end
    BY DEF End
  <2> QED
    BY <1>4, <1>5, <2>1 DEF Answered
<1>8. \A m, n \in DOMAIN wire' :
        wire'[m].end /\ wire'[n].end /\ wire'[m].stream = wire'[n].stream => m = n
  <2>1. \A n \in DOMAIN wire : wire[n].end => wire[n].stream # k
    <3> SUFFICES ASSUME NEW n \in DOMAIN wire, wire[n].end, wire[n].stream = k PROVE FALSE
      OBVIOUS
    <3>0. wire[n] \in Messages /\ wire[n].items = {}
      BY DEF WireInv
    <3>1. wire[n] = End(k)
      BY <3>0 DEF Messages, End
    <3> QED
      BY <1>3, <3>1 DEF RoundInv, Answered
  <2>2. wire'[a + 2].stream = k /\ wire'[a + 2].end /\ ~ wire'[a + 1].end
    BY <1>4, <1>5 DEF End
  <2>3. \A n \in DOMAIN wire' : n \in DOMAIN wire \/ n = a + 1 \/ n = a + 2
    BY <1>5
  <2> QED
    BY <1>5, <2>1, <2>2, <2>3 DEF RoundInv
<1>9. RoundInv'
  BY <1>1, <1>3, <1>7, <1>8 DEF RoundInv
<1>10. \A x, j : \A n \in 0 .. a : Seen(x, j, n) => Seen(x, j, n)'
  BY <1>1, <1>5 DEF Seen
<1>11. \A x, j : \A n \in 0 .. a : Seen(x, j, n) => Seen(x, j, a + 2)'
  BY <1>1, <1>5 DEF Seen
<1>12. \A x \in account[k] : Seen(x, k, a + 2)'
  BY <1>4, <1>5 DEF Seen
<1>13. \A j, n : n \in 0 .. a /\ Covers(j, n) /\ (k = "orders" => j # "orders") => Covers(j, n)'
  BY <1>1, <1>2, <1>10, CoversKept
<1>14. Covers(k, a + 2)'
  <2>1. k = "positions" => \A x \in held' : Seen(x, "positions", a + 2)'
    BY <1>1, <1>2, <1>12 DEF OrderInv
  <2>2. k = "orders" =>
          \A x \in (account'["orders"] \cap Distinct') \ unlisted' : Seen(x, "orders", a + 2)'
    BY <1>1, <1>12
  <2>3. ASSUME k = "executions",
               NEW x \in (account["orders"] \cup account["executions"]) \cap Own \cap Distinct
        PROVE  Seen(x, "orders", a + 2)' \/ Seen(x, "executions", a + 2)'
    <3>1. CASE x \in account["executions"]
      BY <1>12, <2>3, <3>1
    <3>2. CASE x \in account["orders"]
      <4>1. PICK n \in 0 .. a : Covers("orders", n)
        <5>1. Answered("orders") \/ "orders" \in ended
          BY <1>3, <2>3 DEF RoundInv, Requested
        <5> QED
          BY <1>5, <5>1 DEF AnswerInv, Answered, Requested
      <4>2. x \notin unlisted
        BY <1>2, <2>3 DEF OrderInv, Own
      <4> QED
        BY <1>11, <2>3, <3>2, <4>1, <4>2 DEF Covers
    <3> QED
      BY <2>3, <3>1, <3>2
  <2> QED
    BY <1>1, <1>2, <2>1, <2>2, <2>3 DEF Covers
<1>15. AnswerInv'
  <2>1. ASSUME NEW n \in DOMAIN wire', NEW j \in Requested, wire'[n] = End(j) PROVE Covers(j, n)'
    <3>1. CASE n \in DOMAIN wire
      <4>1. wire[n] = End(j) /\ Covers(j, n) /\ n \in 0 .. a
        BY <1>5, <2>1, <3>1 DEF AnswerInv
      <4>2. j # k
        BY <1>3, <3>1, <4>1 DEF RoundInv, Answered
      <4> QED
        BY <1>13, <4>1, <4>2
    <3>2. CASE n = a + 2
      BY <1>5, <1>14, <2>1, <3>2 DEF End
    <3>3. n # a + 1
      BY <1>4, <1>5, <2>1 DEF End
    <3> QED
      BY <1>5, <3>1, <3>2, <3>3
  <2>2. \A j \in ended' : Covers(j, 0)'
    <3>1. 0 \in 0 .. a /\ k \notin ended
      BY <1>3, <1>5 DEF RoundInv
    <3> QED
      BY <1>1, <1>13, <3>1 DEF AnswerInv
  <2> QED
    BY <2>1, <2>2 DEF AnswerInv
<1>16. GateInv'
  BY <1>1, <1>3 DEF GateInv
<1> QED
  BY <1>6, <1>9, <1>15, <1>16

\* What leaves the book was on it, and is among the executions if it filled.
LEMMA OrderLeavesStep ==
  ASSUME SyncInv, NEW o \in Orders, NEW filled \in BOOLEAN, OrderLeaves(o, filled)
  PROVE  SyncInv'
<1>1. /\ UNCHANGED <<requests, values, ended, connected, known, snapshot, mapped, issued, pending,
                     pc, gaveUp, held, number, unlisted>>
      /\ o \in account["orders"]
      /\ account' = [k \in Requested |->
                       IF k = "orders" THEN account[k] \ {o}
                       ELSE IF filled THEN account[k] \cup {o} ELSE account[k]]
  BY DEF OrderLeaves, appVars, execVars, workerVars, historyVars
<1>2. OrderInv /\ Distinct' = Distinct
  BY <1>1 DEF SyncInv, Distinct
<1>3. /\ account' \in [Requested -> SUBSET Orders]
      /\ account["positions"] \subseteq account'["positions"]
      /\ account'["orders"] \subseteq account["orders"]
      /\ account'["executions"] \subseteq account["executions"] \cup account["orders"]
  BY <1>1, <1>2 DEF OrderInv, Requested
<1>4. OrderInv'
  BY <1>1, <1>2, <1>3 DEF OrderInv, Submitting
<1> SUFFICES ASSUME SocketInv PROVE SocketInv'
  BY <1>1, <1>4 DEF SyncInv
<1> USE DEF SocketInv
<1>5. PICK s \in Seq(Messages) :
        /\ wire' = wire \o s
        /\ \A n \in DOMAIN s : ~ s[n].end /\ (s[n].stream = "closed" => s[n].items \subseteq Own)
  <2> DEFINE status == IF o \in Own THEN <<Contents("closed", {o})>> ELSE <<>>
             change == IF filled /\ Subscribed THEN <<Contents("positions", {o})>> ELSE <<>>
  <2>1. /\ status \in Seq(Messages) /\ change \in Seq(Messages)
        /\ \A n \in DOMAIN status : ~ status[n].end /\ status[n].items \subseteq Own
        /\ \A n \in DOMAIN change : ~ change[n].end /\ change[n].stream = "positions"
    <3>1. Contents("closed", {o}) \in Messages /\ Contents("positions", {o}) \in Messages
      BY DEF Contents, Messages, Streams, Requested
    <3>2. CASE o \in Own
      BY <3>1, <3>2 DEF Contents
    <3>3. CASE o \notin Own
      BY <3>1, <3>3 DEF Contents
    <3> QED
      BY <3>2, <3>3
  <2>2. wire' = IF api = "none" THEN wire ELSE wire \o status \o change
    BY DEF OrderLeaves
  <2> HIDE DEF status, change
  <2>3. wire \in Seq(Messages)
    BY DEF WireInv
  <2>4. CASE api = "none"
    <3>1. wire' = wire \o <<>> /\ <<>> \in Seq(Messages) /\ DOMAIN <<>> = {}
      BY <2>2, <2>3, <2>4
    <3> WITNESS <<>> \in Seq(Messages)
    <3> QED
      BY <3>1
  <2>5. CASE api # "none"
    <3>1. wire' = wire \o (status \o change) /\ status \o change \in Seq(Messages)
      BY <2>1, <2>2, <2>3, <2>5
    <3>2. \A n \in DOMAIN (status \o change) :
            /\ ~ (status \o change)[n].end
            /\ (status \o change)[n].stream = "closed" => (status \o change)[n].items \subseteq Own
      BY <2>1
    <3> QED
      BY <3>1, <3>2
  <2> QED
    BY <2>4, <2>5
<1>6. /\ wire \in Seq(Messages) /\ wire' \in Seq(Messages)
      /\ \A n \in DOMAIN wire : n \in DOMAIN wire' /\ wire'[n] = wire[n]
      /\ \A n \in DOMAIN wire' \ DOMAIN wire :
           ~ wire'[n].end /\ (wire'[n].stream = "closed" => wire'[n].items \subseteq Own)
  BY <1>5, Appended DEF WireInv
<1>7. WireInv'
  BY <1>1, <1>6 DEF WireInv
<1>8. \A n \in DOMAIN wire' : wire'[n].end => n \in DOMAIN wire /\ wire'[n] = wire[n]
  BY <1>6
<1>9. \A k : Answered(k)' <=> Answered(k)
  BY <1>6, <1>8 DEF Answered, End
<1>10. RoundInv'
  BY <1>1, <1>6, <1>8, <1>9 DEF RoundInv, Asked
<1>11. \A n, x, j : Seen(x, j, n) => Seen(x, j, n)'
  BY <1>1, <1>6 DEF Seen
<1>12. \A k : \A n \in Nat : Covers(k, n) => Covers(k, n)'
  BY <1>1, <1>2, <1>3, <1>11, CoversKept
<1>13. AnswerInv'
  <2>1. DOMAIN wire \subseteq Nat
    BY <1>6
  <2>2. \A k \in ended' : Covers(k, 0)'
    BY <1>1, <1>12 DEF AnswerInv
  <2>3. ASSUME NEW n \in DOMAIN wire', NEW k \in Requested, wire'[n] = End(k) PROVE Covers(k, n)'
    <3>0. End(k).end = TRUE
      BY DEF End
    <3>1. n \in DOMAIN wire /\ wire[n] = End(k)
      BY <1>8, <2>3, <3>0
    <3> QED
      BY <1>12, <2>1, <3>1 DEF AnswerInv
  <2> QED
    BY <2>2, <2>3 DEF AnswerInv
<1>14. GateInv'
  BY <1>1, <1>2, <1>3 DEF GateInv
<1> QED
  BY <1>7, <1>10, <1>13, <1>14

\* An order of another client is unlisted until TWS lists the open orders.
LEMMA ForeignAppearsStep ==
  ASSUME SyncInv, NEW o \in Orders, ForeignAppears(o)
  PROVE  SyncInv'
<1>1. /\ UNCHANGED <<requests, wire, values, ended, connected, known, snapshot, mapped, issued,
                     pending, pc, gaveUp, held, number>>
      /\ o \in Foreign /\ unlisted' = unlisted \cup {o}
      /\ account' = [account EXCEPT !["orders"] = @ \cup {o}]
  BY DEF ForeignAppears, appVars, execVars, workerVars
<1>2. OrderInv /\ Distinct' = Distinct
  BY <1>1 DEF SyncInv, Distinct
<1>3. /\ account' \in [Requested -> SUBSET Orders]
      /\ account'["positions"] = account["positions"]
      /\ account'["executions"] = account["executions"]
      /\ account'["orders"] = account["orders"] \cup {o}
  BY <1>1, <1>2 DEF OrderInv, Requested
<1>4. OrderInv'
  BY <1>1, <1>2, <1>3 DEF OrderInv, Submitting
<1> SUFFICES ASSUME SocketInv PROVE SocketInv'
  BY <1>1, <1>4 DEF SyncInv
<1> USE DEF SocketInv
<1>5. WireInv' /\ RoundInv'
  BY <1>1 DEF WireInv, RoundInv, Asked, Answered
<1>6. \A n, x, j : Seen(x, j, n) => Seen(x, j, n)'
  BY <1>1 DEF Seen
<1>7. (account'["orders"] \cup account'["executions"]) \cap Own
        \subseteq account["orders"] \cup account["executions"]
  BY <1>1, <1>3 DEF Own
<1>8. \A k : \A n \in Nat : Covers(k, n) => Covers(k, n)'
  BY <1>1, <1>2, <1>3, <1>6, <1>7, CoversKept
<1>9. DOMAIN wire \subseteq Nat
  BY DEF WireInv
<1>10. AnswerInv'
  BY <1>1, <1>8, <1>9 DEF AnswerInv
<1>11. GateInv'
  BY <1>1, <1>2, <1>3, <1>7 DEF GateInv
<1> QED
  BY <1>5, <1>10, <1>11

\* A message moves from the head of the wire into what is collected.
LEMMA DeliverMessageStep == SyncInv /\ DeliverMessage => SyncInv'
<1> SUFFICES ASSUME SyncInv, DeliverMessage PROVE SyncInv'
  OBVIOUS
<1>0. PICK m : m = Head(wire)
  OBVIOUS
<1>1. /\ UNCHANGED <<account, requests, connected, known, snapshot, mapped, issued, pending, pc,
                     gaveUp, held, number, unlisted>>
      /\ wire # <<>> /\ wire' = Tail(wire)
      /\ ended' = IF m.end THEN ended \cup {m.stream} ELSE ended
  BY <1>0 DEF DeliverMessage, brokerVars, execVars, workerVars, historyVars
<1>2. OrderInv /\ OrderInv' /\ Distinct' = Distinct /\ Distinct \subseteq Orders
  BY <1>1 DEF SyncInv, OrderInv, Submitting, Distinct
<1> SUFFICES ASSUME SocketInv PROVE SocketInv'
  BY <1>1, <1>2 DEF SyncInv
<1> USE DEF SocketInv
<1>3. /\ wire' \in Seq(Messages) /\ 1 \in DOMAIN wire /\ wire[1] = m /\ DOMAIN wire \subseteq Nat \ {0}
      /\ \A n \in DOMAIN wire' : n + 1 \in DOMAIN wire /\ wire'[n] = wire[n + 1] /\ n \in Nat \ {0}
      /\ \A n \in DOMAIN wire : n # 1 => n - 1 \in DOMAIN wire' /\ wire'[n - 1] = wire[n]
  BY <1>0, <1>1 DEF WireInv
<1>4. /\ m \in Messages /\ m.stream \in Streams /\ m.items \subseteq Orders /\ m.end \in BOOLEAN
      /\ m.end => m.stream \in Requested /\ m.items = {} /\ m = End(m.stream)
      /\ m.stream = "closed" => m.items \subseteq Own
  <2>1. m \in Messages /\ (m.end => m.stream \in Requested /\ m.items = {})
        /\ (m.stream = "closed" => m.items \subseteq Own)
    BY <1>3 DEF WireInv
  <2> QED
    BY <2>1 DEF Messages, End
<1>5. /\ values' \in [Streams -> SUBSET Orders]
      /\ \A k \in Requested \ {"orders"} :
           values[k] \subseteq values'[k] /\ (m.stream = k => m.items \subseteq values'[k])
      /\ values["orders"] \cap Distinct \subseteq values'["orders"]
      /\ m.stream = "orders" => m.items \cap Distinct \subseteq values'["orders"]
      /\ values'["closed"] \subseteq Own
  <2>1. CASE m.stream # "orders"
    <3>1. values' = [values EXCEPT ![m.stream] = @ \cup m.items]
      BY <1>0, <2>1 DEF DeliverMessage
    <3> QED
      BY <1>4, <2>1, <3>1 DEF WireInv, Streams, Requested
  <2>2. CASE m.stream = "orders"
    <3>1. PICK last \in SUBSET m.items :
            /\ LastPerId(m.items, last)
            /\ values' = [values EXCEPT !["orders"] = Listed(@, m.items, last),
                                        !["closed"] = Working(@, m.items)]
      BY <1>0, <2>2 DEF DeliverMessage
    <3>2. m.items \cap Distinct \subseteq last
      BY <1>4, <3>1 DEF LastPerId, Distinct
    <3>3. values["orders"] \cap Distinct \subseteq Listed(values["orders"], m.items, last)
      BY <1>4, <3>2 DEF Listed, Distinct
    <3>4. Listed(values["orders"], m.items, last) \subseteq values["orders"] \cup m.items
          /\ last \subseteq Listed(values["orders"], m.items, last)
          /\ Working(values["closed"], m.items) \subseteq values["closed"]
      BY DEF Listed, Working
    <3>5. /\ values'["orders"] = Listed(values["orders"], m.items, last)
          /\ values'["closed"] = Working(values["closed"], m.items)
          /\ \A k \in Requested \ {"orders"} : values'[k] = values[k]
          /\ DOMAIN values' = Streams
      BY <3>1 DEF WireInv, Streams, Requested
    <3>6. \A k \in Streams : values'[k] \subseteq Orders
      BY <1>4, <3>4, <3>5 DEF WireInv, Streams, Requested
    <3>7. values' \in [Streams -> SUBSET Orders]
      BY <3>1, <3>6 DEF WireInv
    <3> QED
      BY <2>2, <3>2, <3>3, <3>4, <3>5, <3>7 DEF WireInv, Requested
  <2> QED
    BY <2>1, <2>2
<1>6. WireInv'
  BY <1>1, <1>3, <1>4, <1>5 DEF WireInv
<1>7. \A k : Answered(k) => Answered(k)' \/ (m.end /\ m.stream = k)
  BY <1>3 DEF Answered, End
<1>8. \A k : Answered(k)' => Answered(k)
  BY <1>3 DEF Answered
<1>9. m.end => ~ Answered(m.stream)'
  <2> SUFFICES ASSUME m.end, NEW n \in DOMAIN wire', wire'[n] = m PROVE FALSE
    BY <1>4 DEF Answered
  <2>1. wire[n + 1] = wire[1] /\ n + 1 \in DOMAIN wire /\ n + 1 # 1
    BY <1>3
  <2> QED
    BY <1>3, <2>1 DEF RoundInv
<1>10. \A n, j \in DOMAIN wire' :
         wire'[n].end /\ wire'[j].end /\ wire'[n].stream = wire'[j].stream => n = j
  <2> SUFFICES ASSUME NEW n \in DOMAIN wire', NEW j \in DOMAIN wire', wire'[n].end, wire'[j].end,
                      wire'[n].stream = wire'[j].stream
               PROVE  n = j
    OBVIOUS
  <2>1. n + 1 = j + 1
    BY <1>3 DEF RoundInv
  <2> QED
    BY <1>3, <2>1
<1>11. RoundInv'
  <2>1. m.end => Answered(m.stream) /\ pc = "waiting"
    BY <1>3, <1>4 DEF Answered, RoundInv
  <2>2. \A k \in Requested : Asked(k)' => k \notin ended' /\ ~ Answered(k)'
    BY <1>1, <1>8, <2>1 DEF RoundInv, Asked
  <2>3. \A k \in ended' : ~ Answered(k)'
    BY <1>1, <1>8, <1>9 DEF RoundInv
  <2>4. pc' = "waiting" => \A k \in Requested : Asked(k)' \/ Answered(k)' \/ k \in ended'
    BY <1>1, <1>7 DEF RoundInv, Asked
  <2>5. pc' # "waiting" => requests' = <<>> /\ \A n \in DOMAIN wire' : ~ wire'[n].end
    BY <1>1, <1>3 DEF RoundInv
  <2>6. pc' = "priced" => ended' = Requested
    BY <1>1, <2>1 DEF RoundInv
  <2> QED
    BY <1>1, <1>10, <2>2, <2>3, <2>4, <2>5, <2>6 DEF RoundInv
<1>12. \A x \in Orders, j \in Requested : \A n \in Nat :
         (j = "orders" => x \in Distinct) /\ Seen(x, j, n + 1) => Seen(x, j, n)'
  <2> SUFFICES ASSUME NEW x \in Orders, NEW j \in Requested, NEW n \in Nat,
                      j = "orders" => x \in Distinct, Seen(x, j, n + 1)
               PROVE  Seen(x, j, n)'
    OBVIOUS
  <2>1. CASE x \in values[j]
    BY <1>5, <2>1 DEF Seen
  <2>2. CASE \E i \in DOMAIN wire : i < n + 1 /\ wire[i].stream = j /\ x \in wire[i].items
    <3>1. PICK i \in DOMAIN wire : i < n + 1 /\ wire[i].stream = j /\ x \in wire[i].items
      BY <2>2
    <3>2. CASE i = 1
      BY <1>3, <1>5, <3>1, <3>2 DEF Seen
    <3>3. CASE i # 1
      <4>1. i - 1 \in DOMAIN wire' /\ i - 1 < n /\ wire'[i - 1] = wire[i]
        BY <1>3, <3>1, <3>3
      <4> QED
        BY <3>1, <4>1 DEF Seen
    <3> QED
      BY <3>2, <3>3
  <2> QED
    BY <2>1, <2>2 DEF Seen
<1>13. \A k \in Requested : \A n \in Nat : Covers(k, n + 1) => Covers(k, n)'
  BY <1>1, <1>2, <1>12, CoversKept
<1>14. \A k \in Requested : Covers(k, 0) => Covers(k, 0)'
  <2>1. \A x \in Orders, j \in Requested :
          (j = "orders" => x \in Distinct) /\ Seen(x, j, 0) => Seen(x, j, 0)'
    BY <1>3, <1>5 DEF Seen
  <2> QED
    BY <1>1, <1>2, <2>1, CoversKept
<1>15. AnswerInv'
  <2>1. ASSUME NEW n \in DOMAIN wire', NEW k \in Requested, wire'[n] = End(k) PROVE Covers(k, n)'
    <3>1. n \in Nat /\ n + 1 \in DOMAIN wire /\ wire[n + 1] = End(k)
      BY <1>3, <2>1
    <3>2. Covers(k, n + 1)
      BY <3>1 DEF AnswerInv
    <3> QED
      BY <1>13, <3>1, <3>2
  <2>2. ASSUME NEW k \in ended' PROVE Covers(k, 0)'
    <3>1. CASE k \in ended
      BY <1>14, <3>1 DEF AnswerInv, WireInv
    <3>2. CASE m.end /\ k = m.stream
      <4>1. Covers(k, 0 + 1)
        BY <1>3, <1>4, <3>2 DEF AnswerInv
      <4> QED
        BY <1>4, <1>13, <3>2, <4>1
    <3> QED
      BY <1>1, <2>2, <3>1, <3>2
  <2> QED
    BY <2>1, <2>2 DEF AnswerInv
<1>16. GateInv'
  BY <1>1, <1>2 DEF GateInv
<1> QED
  BY <1>6, <1>11, <1>15, <1>16

\* The callback only closes the gate; when it drops the snapshot, connected is
\* gone or nothing is known (Fresh).
LEMMA CallbackStep ==
  ASSUME SyncInv, Fresh,
         ConnectivityError \/ ErrorIsStored \/ WithdrawReadiness \/ CallbackEnds \/ CallbackRaises
  PROVE  SyncInv'
<1>1. /\ UNCHANGED <<account, requests, wire, values, ended, mapped, issued, pending, pc, gaveUp,
                     held, number, unlisted>>
      /\ connected' => connected
      /\ known' => known
      /\ UNCHANGED snapshot \/ api = "snapshot"
  <2>1. CASE ConnectivityError
    BY <2>1 DEF ConnectivityError, brokerVars, execVars, workerVars, historyVars
  <2>2. CASE ErrorIsStored \/ CallbackEnds \/ CallbackRaises
    BY <2>2 DEF ErrorIsStored, CallbackEnds, CallbackRaises, brokerVars, appVars, execVars,
      workerVars, historyVars
  <2>3. CASE WithdrawReadiness
    BY <2>3 DEF WithdrawReadiness, brokerVars, workerVars
  <2> QED
    BY <2>1, <2>2, <2>3
<1>2. OrderInv /\ OrderInv'
  BY <1>1 DEF SyncInv, OrderInv, Submitting
<1>3. SocketInv => WireInv' /\ AnswerInv'
  BY <1>1, <1>2, Quiet DEF SocketInv
<1>4. SocketInv => RoundInv'
  BY <1>1 DEF SocketInv, RoundInv, Asked, Answered
<1>5. connected' /\ (known' \/ pc' = "publish") => UNCHANGED snapshot
  BY <1>1 DEF Fresh, Cleared
<1>6. SocketInv => GateInv'
  BY <1>1, <1>5 DEF SocketInv, GateInv, Distinct
<1> QED
  BY <1>1, <1>2, <1>3, <1>4, <1>6 DEF SyncInv, SocketInv

\* Both threads keep what a reconciliation learns.
THEOREM SyncInvariant == Spec => []SyncInv
<1>1. Init => SyncInv
  <2> SUFFICES ASSUME Init PROVE SyncInv
    OBVIOUS
  <2>1. OrderInv
    BY SyncAssumption DEF Init, OrderInv, Requested, Submitting
  <2>2. WireInv /\ RoundInv /\ AnswerInv
    BY DEF Init, WireInv, RoundInv, AnswerInv, NoValues, Streams, Messages, LeftToAnswer, Asked,
      Answered
  <2>3. GateInv
    BY DEF Init, GateInv
  <2> QED
    BY <2>1, <2>2, <2>3 DEF SyncInv, SocketInv
<1>2. SyncInv /\ Fresh /\ [Next]_vars => SyncInv'
  <2> SUFFICES ASSUME SyncInv, Fresh, [Next]_vars PROVE SyncInv'
    OBVIOUS
  <2>1. CASE Worker
    BY <2>1, ConnectStep, HandshakeStep, BeginRefreshStep, RefreshTimesOutStep, FinishRefreshStep,
      SnapshotRejectedStep, SnapshotStep, SubmitStep, SendOrderStep DEF Worker
  <2>2. CASE Outside
    BY <2>2, TwsAnswersStep, OrderLeavesStep, ForeignAppearsStep, DeliverMessageStep, CallbackStep
      DEF Outside, ApiThread, Tws
  <2>3. CASE UNCHANGED vars
    BY <2>3, Quiet DEF vars, SyncInv, SocketInv, OrderInv, RoundInv, GateInv, Asked, Answered,
      Distinct
  <2> QED
    BY <2>1, <2>2, <2>3 DEF Next
<1> QED
  BY <1>1, <1>2, GateIsFresh, PTL DEF Spec

\* An order this program has at the broker, under an id no other client has, is
\* in the mapping that keeps submit_order from placing it again, whenever the
\* gate is open.
THEOREM ReconciliationLosesNoOrder == Spec => []NoOrderLost
<1>1. SyncInv => NoOrderLost
  BY DEF SyncInv, SocketInv, GateInv, NoOrderLost, ReadyToSubmit
<1> QED
  BY <1>1, SyncInvariant, PTL

\* The gate is closed while an order of another client works that was there when
\* TWS listed the open orders, under an id of its own.
THEOREM ForeignOrdersBlock == Spec => []ForeignOrderBlocks
<1>1. SyncInv => ForeignOrderBlocks
  BY DEF SyncInv, SocketInv, GateInv, ForeignOrderBlocks, ReadyToSubmit
<1> QED
  BY <1>1, SyncInvariant, PTL

\* The snapshot behind an open gate holds every position there was when its
\* refresh began.
THEOREM SnapshotHoldsPositions == Spec => []HoldingsSeen
<1>1. SyncInv => HoldingsSeen
  BY DEF SyncInv, SocketInv, GateInv, HoldingsSeen, ReadyToSubmit
<1> QED
  BY <1>1, SyncInvariant, PTL

=============================================================================
