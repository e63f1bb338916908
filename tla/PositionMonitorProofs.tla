----------------------- MODULE PositionMonitorProofs -----------------------
(* The managed positions for any number of symbols, decisions, holdings and *)
(* failures.                                                                *)
EXTENDS PositionMonitor, FiniteSetTheorems, TLAPS

Nowhere == Idle.at

Commands == {"none", "monitor", "review", "research", "pending", "risk"}

Jobs == [pc : Pcs, command : Commands, then : Pcs, seen : Symbols \cup {NoSymbol},
         at : Positions \cup {Nowhere}, intent : {"none", "BUY", "HOLD", "CASH", "SWITCH"},
         waits : BOOLEAN]

\* Places of a command that is about a row, and those of a stop.
AboutRow == {"queueing", "stopping", "marking", "deferring", "acting"}
OfStop   == {"stopping", "marking"}

\* A command is where its earlier steps allow it to be: on a row, or on one
\* whose stop is registered.
JobOK(j, stops) ==
  /\ j \in Jobs
  /\ j.pc \in AboutRow \/ j.then \in AboutRow => j.at \in Positions
  /\ j.pc \in OfStop \/ j.then \in OfStop => j.at \in stops

JobInv == JobOK(job, triggers.stop)

AccountInv ==
  /\ held \in Symbols \cup {NoSymbol} /\ level \in Levels /\ holdings \in 0..MaxHoldings
  /\ decided \in [Symbols -> 0..MaxDecisions]

OneRow(states) == \A p, q \in Positions :
  p[1] = q[1] /\ states[p] = "ACTIVE" /\ states[q] = "ACTIVE" => p = q

RowsInv == rows \in [Positions -> {"none", "ACTIVE", "CLOSED"}] /\ OneRow(rows)

\* A review that was queued is a review that was triggered; while it is being
\* queued, it has not been before.
EventsInv ==
  /\ triggers \in [stop : SUBSET Positions, review : SUBSET Positions]
  /\ completed \subseteq triggers.stop
  /\ queued \in [Positions -> Nat]
  /\ \A p \in Positions : queued[p] <= 1 /\ (queued[p] = 1 => p \in triggers.review)
  /\ job.pc = "queueing" => Here \in triggers.review /\ queued[Here] = 0

MonitorInv == JobInv /\ AccountInv /\ RowsInv /\ EventsInv

-----------------------------------------------------------------------------
(* Commands.                                                                *)

LEMMA PlaceOfRow ==
  ASSUME NEW p \in Positions \cup {Nowhere}, p[1] # NoSymbol
  PROVE  p \in Positions /\ p[1] \in Symbols
<1>1. Nowhere = <<NoSymbol, 0>>
  BY DEF Nowhere, Idle
<1>2. p # Nowhere
  BY <1>1
<1> QED BY <1>2 DEF Positions

LEMMA IdleOK == \A stops : JobOK(Idle, stops)
BY DEF JobOK, Jobs, Idle, Pcs, Commands, Nowhere, AboutRow, OfStop

LEMMA BeginsOK ==
  ASSUME NEW command \in Commands, NEW then \in Pcs \ AboutRow, NEW stops
  PROVE  JobOK(Begins(command, then), stops) /\ Begins(command, then).pc = "booking"
BY IdleOK DEF JobOK, Jobs, Idle, Begins, Pcs, Commands, Nowhere, AboutRow, OfStop

LEMMA RebooksOK ==
  ASSUME NEW stops, JobOK(job, stops), NEW then \in Pcs,
         then \in AboutRow => Here \in Positions,
         then \in OfStop => Here \in stops
  PROVE  JobOK(Rebooks(then), stops) /\ Rebooks(then).pc = "booking"
<1> DEFINE j == [job EXCEPT !.pc = "booking", !.then = then]
<1>1. j \in Jobs /\ j.pc = "booking" /\ j.then = then /\ j.at = Here
  BY DEF JobOK, Jobs, Pcs, Here
<1> HIDE DEF j
<1>2. JobOK(j, stops)
  BY <1>1 DEF JobOK, AboutRow, OfStop
<1> QED BY <1>1, <1>2 DEF Rebooks, j

\* A command goes from one place to another of its own.
LEMMA MovesOK ==
  ASSUME NEW stops, JobOK(job, stops), NEW pc \in Pcs,
         pc \in AboutRow => Here \in Positions,
         pc \in OfStop => Here \in stops
  PROVE  JobOK([job EXCEPT !.pc = pc], stops) /\ [job EXCEPT !.pc = pc].pc = pc
<1> DEFINE j == [job EXCEPT !.pc = pc]
<1>1. j \in Jobs /\ j.pc = pc /\ j.then = job.then /\ j.at = Here
  BY DEF JobOK, Jobs, Here
<1> HIDE DEF j
<1>2. JobOK(j, stops)
  BY <1>1 DEF JobOK, Here
<1> QED BY <1>1, <1>2 DEF j

\* Events that a step leaves alone.
LEMMA EventsKept ==
  ASSUME EventsInv, UNCHANGED events, job' = job \/ job'.pc # "queueing"
  PROVE  EventsInv'
<1>1. triggers' = triggers /\ queued' = queued /\ completed' = completed
  BY DEF events
<1>2. job'.pc = "queueing" => Here' = Here /\ job.pc = "queueing"
  BY DEF Here
<1> QED BY <1>1, <1>2 DEF EventsInv

\* What a review asks for.
LEMMA IntentOfReview ==
  ASSUME NEW action \in Actions, NEW broken \in BOOLEAN, NEW gap \in BOOLEAN
  PROVE  IntentOf[Applied(action, broken, gap)] \in {"none", "BUY", "HOLD", "CASH", "SWITCH"}
<1>1. Applied(action, broken, gap) \in Actions
  BY DEF Applied, Actions
<1>2. \A a \in Actions : IntentOf[a] \in {"none", "BUY", "HOLD", "CASH", "SWITCH"}
  BY DEF IntentOf, Actions
<1> QED BY <1>1, <1>2

\* Steps that leave the account or the rows alone.
LEMMA AccountKept == AccountInv /\ UNCHANGED account => AccountInv'
BY DEF AccountInv, account

LEMMA RowsKept == RowsInv /\ UNCHANGED rows => RowsInv'
BY DEF RowsInv, OneRow

LEMMA Acquired ==
  ASSUME AccountInv, NEW s \in Symbols, Acquires(s)
  PROVE  held' \in Symbols \cup {NoSymbol} /\ level' \in Levels /\ holdings' \in 0..MaxHoldings
<1>1. holdings + 1 \in 0..MaxHoldings
  BY MonitorAssumption DEF AccountInv, Acquires
<1> QED BY <1>1 DEF Acquires, Levels

LEMMA Decides ==
  ASSUME AccountInv, NEW s \in Symbols, Stores(s)
  PROVE  decided' \in [Symbols -> 0..MaxDecisions]
<1>1. PICK n \in 1..MaxDecisions : decided' = [decided EXCEPT ![s] = n]
  BY DEF Stores
<1>2. n \in 0..MaxDecisions
  BY MonitorAssumption
<1> QED BY <1>1, <1>2 DEF AccountInv

-----------------------------------------------------------------------------
(* The steps.                                                               *)

LEMMA MonitorStarts == Init => MonitorInv
<1> SUFFICES ASSUME Init PROVE MonitorInv
  OBVIOUS
<1>1. JobInv
  BY IdleOK DEF Init, JobInv
<1>2. AccountInv
  BY MonitorAssumption DEF Init, AccountInv, Levels
<1>3. RowsInv
  BY DEF Init, RowsInv, OneRow
<1>4. EventsInv
  BY DEF Init, EventsInv, Idle
<1> QED BY <1>1, <1>2, <1>3, <1>4 DEF MonitorInv

LEMMA BookStep == MonitorInv /\ Book => MonitorInv'
<1> SUFFICES ASSUME MonitorInv, Book PROVE MonitorInv'
  OBVIOUS
<1> USE DEF MonitorInv
<1>1. JobInv'
  <2>1. job \in Jobs /\ held \in Symbols \cup {NoSymbol}
    BY DEF JobInv, JobOK, AccountInv
  <2>2. /\ job' \in Jobs /\ job'.pc = "closing" /\ job'.then = job.then /\ job'.at = job.at
    BY <2>1 DEF Book, Jobs, Pcs
  <2>3. triggers' = triggers
    BY DEF Book, events
  <2> QED BY <2>2, <2>3 DEF JobInv, JobOK, AboutRow, OfStop
<1>2. RowsInv'
  <2>1. CASE held = NoSymbol
    <3>1. UNCHANGED rows
      BY <2>1 DEF Book
    <3> QED BY <3>1, RowsKept
  <2>2. CASE held # NoSymbol
    <3>1. PICK p \in RowOf(held) : rows' = [rows EXCEPT ![p] = "ACTIVE"]
      BY <2>2 DEF Book
    <3>2. held \in Symbols /\ decided[held] \in 0..MaxDecisions
      BY <2>2 DEF AccountInv
    <3>3. p \in Positions /\ p[1] = held
      BY <3>2 DEF RowOf, ActiveRows, Positions
    <3>4. rows[p] = "ACTIVE" \/ ActiveRows(held) = {}
      BY DEF RowOf, ActiveRows
    <3>5. \A q \in Positions : q[1] = held /\ rows[q] = "ACTIVE" => q = p
      BY <3>3, <3>4 DEF RowsInv, OneRow, ActiveRows
    <3> QED BY <3>1, <3>3, <3>5 DEF RowsInv, OneRow
  <2> QED BY <2>1, <2>2
<1>3. AccountInv'
  BY AccountKept DEF Book
<1>4. EventsInv'
  <2>1. job' = [job EXCEPT !.pc = "closing", !.seen = held] /\ job \in Jobs
    BY DEF Book, JobInv, JobOK
  <2>2. job'.pc # "queueing"
    BY <2>1 DEF Jobs
  <2> QED BY <2>2, EventsKept DEF Book
<1> QED BY <1>1, <1>2, <1>3, <1>4

LEMMA CloseStep == MonitorInv /\ Close => MonitorInv'
<1> SUFFICES ASSUME MonitorInv, Close PROVE MonitorInv'
  OBVIOUS
<1> USE DEF MonitorInv
<1>0. job \in Jobs /\ job.pc = "closing" /\ triggers' = triggers
  BY DEF JobInv, JobOK, Close, events
<1>1. JobInv' /\ job'.pc # "queueing"
  <2>1. CASE job.then = "idle" /\ job' = Idle
    BY <1>0, <2>1, IdleOK DEF JobInv, Idle
  <2>2. CASE /\ job.then \in {"stopping", "marking", "acting"}
             /\ job' = [job EXCEPT !.pc = job.then, !.then = "idle", !.seen = NoSymbol]
    <3>1. /\ job' \in Jobs /\ job'.pc = job.then /\ job'.then = "idle" /\ job'.at = job.at
      BY <1>0, <2>2 DEF Jobs, Pcs
    <3> QED BY <1>0, <2>2, <3>1 DEF JobInv, JobOK, AboutRow, OfStop
  <2>3. CASE /\ job.then \in {"watching", "reviewing", "checking"}
             /\ \E p \in Booked : job' = [job EXCEPT !.pc = job.then, !.then = "idle", !.at = p,
                                                    !.seen = NoSymbol]
    <3>1. PICK p \in Booked : job' = [job EXCEPT !.pc = job.then, !.then = "idle", !.at = p,
                                                 !.seen = NoSymbol]
      BY <2>3
    <3>2. p \in Positions \cup {Nowhere}
      BY DEF Booked, ActiveRows, Nowhere
    <3>3. /\ job' \in Jobs /\ job'.pc = job.then /\ job'.then = "idle"
      BY <1>0, <2>3, <3>1, <3>2 DEF Jobs, Pcs
    <3> QED BY <1>0, <2>3, <3>3 DEF JobInv, JobOK, AboutRow, OfStop
  <2> QED BY <2>1, <2>2, <2>3 DEF Close
<1>2. RowsInv'
  <2>1. \A p \in Positions : rows'[p] = "ACTIVE" => rows[p] = "ACTIVE"
    BY DEF Close
  <2>2. rows' \in [Positions -> {"none", "ACTIVE", "CLOSED"}]
    BY DEF Close, RowsInv
  <2> QED BY <2>1, <2>2 DEF RowsInv, OneRow
<1>3. AccountInv'
  BY AccountKept DEF Close
<1>4. EventsInv'
  BY <1>1, EventsKept DEF Close
<1> QED BY <1>1, <1>2, <1>3, <1>4

-----------------------------------------------------------------------------
(* Steps that leave the rows and the events alone: what is left to show is  *)
(* where the command is, and the account.                                   *)

LEMMA QuietStep ==
  ASSUME MonitorInv, UNCHANGED <<rows, events>>,
         JobOK(job', triggers.stop), job' = job \/ job'.pc # "queueing", AccountInv'
  PROVE  MonitorInv'
<1>1. triggers' = triggers
  BY DEF events
<1>2. JobInv'
  BY <1>1 DEF JobInv, JobOK
<1>3. RowsInv' /\ EventsInv'
  BY RowsKept, EventsKept DEF MonitorInv
<1> QED BY <1>2, <1>3 DEF MonitorInv

\* The commands begin.
LEMMA StartStep ==
  ASSUME MonitorInv,
         StartMonitor \/ StartReview \/ StartRiskCheck \/ RunDeferred
         \/ \E s \in Symbols : BuyByResearch(s) \/ SwitchByResearch(s)
  PROVE  MonitorInv'
<1> USE DEF MonitorInv
<1>1. CASE StartMonitor \/ StartReview \/ StartRiskCheck
  <2>1. \E command \in Commands, then \in Pcs \ AboutRow : job' = Begins(command, then)
    BY <1>1 DEF StartMonitor, StartReview, StartRiskCheck, Commands, Pcs, AboutRow
  <2>2. UNCHANGED <<rows, events, account>>
    BY <1>1 DEF StartMonitor, StartReview, StartRiskCheck
  <2> QED BY <2>1, <2>2, BeginsOK, AccountKept, QuietStep
<1>2. CASE RunDeferred
  <2>1. "pending" \in Commands /\ "idle" \in Pcs \ AboutRow
    BY DEF Commands, Pcs, AboutRow
  <2>2. JobOK(job', triggers.stop) /\ job'.pc = "booking" /\ UNCHANGED <<rows, events>>
    BY <1>2, <2>1, BeginsOK DEF RunDeferred
  <2>3. /\ held' \in Symbols \cup {NoSymbol} /\ level' \in Levels
        /\ holdings' \in 0..MaxHoldings
    <3>1. CASE held' = NoSymbol /\ level' = "fine" /\ UNCHANGED holdings
      BY <3>1 DEF AccountInv, Levels
    <3>2. CASE \E s \in Symbols \ {held} : Acquires(s)
      BY <3>2, Acquired
    <3>3. CASE UNCHANGED <<held, level, holdings>>
      BY <3>3 DEF AccountInv
    <3> QED BY <1>2, <3>1, <3>2, <3>3 DEF RunDeferred
  <2>4. decided' = decided
    BY <1>2 DEF RunDeferred
  <2>5. AccountInv'
    BY <2>3, <2>4 DEF AccountInv
  <2> QED BY <2>2, <2>5, QuietStep
<1>3. CASE \E s \in Symbols : BuyByResearch(s) \/ SwitchByResearch(s)
  <2>1. PICK s \in Symbols : BuyByResearch(s) \/ SwitchByResearch(s)
    BY <1>3
  <2>2. "research" \in Commands /\ "idle" \in Pcs \ AboutRow
    BY DEF Commands, Pcs, AboutRow
  <2>3. JobOK(job', triggers.stop) /\ job'.pc = "booking" /\ UNCHANGED <<rows, events>>
    BY <2>1, <2>2, BeginsOK DEF BuyByResearch, SwitchByResearch
  <2>4. Acquires(s) /\ (Stores(s) \/ decided' = decided)
    BY <2>1 DEF BuyByResearch, SwitchByResearch
  <2>5. /\ held' \in Symbols \cup {NoSymbol} /\ level' \in Levels
        /\ holdings' \in 0..MaxHoldings
    BY <2>4, Acquired
  <2>6. decided' \in [Symbols -> 0..MaxDecisions]
    BY <2>4, Decides DEF AccountInv
  <2>7. AccountInv'
    BY <2>5, <2>6 DEF AccountInv
  <2> QED BY <2>3, <2>7, QuietStep
<1> QED BY <1>1, <1>2, <1>3

\* The command ends, or dies.
LEMMA EndStep ==
  ASSUME MonitorInv, NothingToDo \/ Defer \/ MonitorRaises \/ ReviewEnds \/ Crash
  PROVE  MonitorInv'
<1>1. job' = Idle /\ UNCHANGED <<rows, events, account>>
  BY DEF NothingToDo, Defer, MonitorRaises, ReviewEnds, Crash, Watch, events, account
<1>2. job'.pc # "queueing" /\ JobOK(job', triggers.stop)
  BY <1>1, IdleOK DEF Idle
<1> QED BY <1>1, <1>2, AccountKept, QuietStep DEF MonitorInv

\* The account moves, or the scheduler, and no command.
LEMMA OutsideStep ==
  ASSUME MonitorInv, TradeElsewhere \/ PriceMoves \/ RestartScheduler \/ UNCHANGED vars
  PROVE  MonitorInv'
<1> USE DEF MonitorInv
<1>1. UNCHANGED <<job, rows, events, decided>>
  BY DEF TradeElsewhere, PriceMoves, RestartScheduler, vars, account, events
<1>2. held' \in Symbols \cup {NoSymbol} /\ level' \in Levels /\ holdings' \in 0..MaxHoldings
  <2>1. CASE \E s \in Symbols : Acquires(s)
    BY <2>1, Acquired
  <2>2. CASE held' = NoSymbol /\ level' = "fine" /\ UNCHANGED holdings
    BY <2>2 DEF AccountInv, Levels
  <2>3. CASE UNCHANGED <<held, holdings>> /\ (level' \in Levels \/ level' = level)
    BY <2>3 DEF AccountInv
  <2> QED BY <2>1, <2>2, <2>3 DEF TradeElsewhere, PriceMoves, RestartScheduler, vars, account
<1>3. AccountInv'
  BY <1>1, <1>2 DEF AccountInv
<1>4. JobOK(job', triggers.stop)
  BY <1>1 DEF JobInv
<1> QED BY <1>1, <1>3, <1>4, QuietStep

-----------------------------------------------------------------------------
(* The steps of the monitor.                                                *)

\* A drawdown is registered before its review is queued, and only once.
LEMMA AskForReviewStep == MonitorInv /\ AskForReview => MonitorInv'
<1> SUFFICES ASSUME MonitorInv, AskForReview PROVE MonitorInv'
  OBVIOUS
<1> USE DEF MonitorInv
<1>1. CASE ~ Registers(Here) /\ Watch(Idle) /\ UNCHANGED triggers
  <2>1. job' = Idle /\ UNCHANGED <<rows, events, account>>
    BY <1>1 DEF Watch, events
  <2>2. job'.pc # "queueing" /\ JobOK(job', triggers.stop)
    BY <2>1, IdleOK DEF Idle
  <2> QED BY <2>1, <2>2, AccountKept, QuietStep
<1>2. CASE /\ Registers(Here) /\ Watch([job EXCEPT !.pc = "queueing"])
           /\ triggers' = [triggers EXCEPT !.review = @ \cup {Here}]
  <2>1. job' = [job EXCEPT !.pc = "queueing"] /\ UNCHANGED <<account, rows, queued, completed>>
    BY <1>2 DEF Watch
  <2>2. Here \in Positions
    <3>1. Here \in Positions \cup {Nowhere} /\ Here[1] # NoSymbol
      BY DEF AskForReview, JobInv, JobOK, Jobs, Here
    <3> QED BY <3>1, PlaceOfRow
  <2>3. JobOK(job', triggers.stop) /\ job'.pc = "queueing"
    <3>1. "queueing" \in Pcs /\ "queueing" \notin OfStop
      BY DEF Pcs, OfStop
    <3> QED BY <2>1, <2>2, <3>1, MovesOK DEF JobInv
  <2>4. Here' = Here
    BY <2>1 DEF Here, JobInv, JobOK, Jobs
  <2>5. /\ triggers' \in [stop : SUBSET Positions, review : SUBSET Positions]
        /\ triggers'.stop = triggers.stop /\ triggers'.review = triggers.review \cup {Here}
    BY <1>2, <2>2 DEF EventsInv
  <2>6. queued[Here] = 0
    <3>1. Here \notin triggers.review
      BY <1>2 DEF Registers
    <3>2. queued[Here] \in Nat /\ queued[Here] <= 1 /\ queued[Here] # 1
      BY <2>2, <3>1 DEF EventsInv
    <3> QED BY <3>2
  <2>7. EventsInv'
    <3> HIDE DEF Here
    <3> QED BY <2>1, <2>4, <2>5, <2>6 DEF EventsInv
  <2>8. JobInv'
    BY <2>3, <2>5 DEF JobInv
  <2> QED BY <2>1, <2>7, <2>8, AccountKept, RowsKept
<1> QED BY <1>1, <1>2 DEF AskForReview

LEMMA QueueReviewStep == MonitorInv /\ QueueReview => MonitorInv'
<1> SUFFICES ASSUME MonitorInv, QueueReview PROVE MonitorInv'
  OBVIOUS
<1> USE DEF MonitorInv
<1>1. job' = Idle /\ UNCHANGED <<account, rows, triggers, completed>>
  BY DEF QueueReview
<1>2. JobInv' /\ job'.pc # "queueing"
  BY <1>1, IdleOK DEF JobInv, Idle
<1>3. CASE UNCHANGED queued
  BY <1>1, <1>2, <1>3, AccountKept, RowsKept, EventsKept DEF events
<1>4. ASSUME queued' = [queued EXCEPT ![Here] = @ + 1]
      PROVE  EventsInv'
  <2>1. Here \in Positions /\ Here \in triggers.review /\ queued[Here] = 0
    BY DEF QueueReview, JobInv, JobOK, AboutRow, EventsInv, Here
  <2>2. queued' = [queued EXCEPT ![Here] = queued[Here] + 1]
    BY <1>4
  <2> HIDE DEF Here
  <2>3. queued' \in [Positions -> Nat] /\ queued'[Here] = 1
        /\ \A p \in Positions \ {Here} : queued'[p] = queued[p]
    BY <2>1, <2>2 DEF EventsInv
  <2> QED BY <1>1, <1>2, <2>1, <2>3 DEF EventsInv
<1> QED BY <1>1, <1>2, <1>3, <1>4, AccountKept, RowsKept DEF QueueReview

LEMMA BeginStopStep == MonitorInv /\ BeginStop => MonitorInv'
<1> SUFFICES ASSUME MonitorInv, BeginStop PROVE MonitorInv'
  OBVIOUS
<1> USE DEF MonitorInv
<1>1. Here \in Positions
  <2>1. Here \in Positions \cup {Nowhere} /\ Here[1] # NoSymbol
    BY DEF BeginStop, JobInv, JobOK, Jobs, Here
  <2> QED BY <2>1, PlaceOfRow
<1>2. job' = Rebooks("stopping") /\ UNCHANGED <<account, rows, queued, completed>>
  BY DEF BeginStop, Watch
<1>3. /\ triggers' \in [stop : SUBSET Positions, review : SUBSET Positions]
      /\ triggers'.review = triggers.review /\ triggers'.stop = triggers.stop \cup {Here}
  BY <1>1 DEF BeginStop, Triggered, EventsInv
<1>4. JobOK(job, triggers'.stop)
  BY <1>3 DEF JobInv, JobOK
<1>5. JobOK(job', triggers'.stop) /\ job'.pc = "booking"
  <2>1. "stopping" \in Pcs /\ Here \in triggers'.stop
    BY <1>3 DEF Pcs
  <2> QED BY <1>1, <1>2, <1>4, <2>1, RebooksOK
<1>6. JobInv'
  BY <1>5 DEF JobInv
<1>7. EventsInv'
  BY <1>2, <1>3, <1>5 DEF EventsInv
<1> QED BY <1>2, <1>6, <1>7, AccountKept, RowsKept

LEMMA RunStopStep == MonitorInv /\ RunStop => MonitorInv'
<1> SUFFICES ASSUME MonitorInv, RunStop PROVE MonitorInv'
  OBVIOUS
<1> USE DEF MonitorInv
<1>1. UNCHANGED <<rows, events, holdings, decided>>
  BY DEF RunStop, events
<1>2. Here \in Positions /\ Here \in triggers.stop /\ JobOK(job, triggers.stop)
  BY DEF RunStop, JobInv, JobOK, AboutRow, OfStop, Here
<1>3. JobOK(Rebooks("marking"), triggers.stop) /\ Rebooks("marking").pc = "booking"
  BY <1>2, RebooksOK DEF Pcs
<1>4. JobOK(Rebooks("idle"), triggers.stop) /\ Rebooks("idle").pc = "booking"
  BY <1>2, RebooksOK DEF Pcs, AboutRow, OfStop
<1>5. LET j == [job EXCEPT !.pc = "marking", !.waits = TRUE]
      IN  JobOK(j, triggers.stop) /\ j.pc = "marking"
  <2> DEFINE j == [job EXCEPT !.pc = "marking", !.waits = TRUE]
  <2>1. j \in Jobs /\ j.pc = "marking" /\ j.then = job.then /\ j.at = Here
    BY <1>2 DEF JobOK, Jobs, Pcs, Here
  <2> HIDE DEF j
  <2>2. JobOK(j, triggers.stop)
    BY <1>2, <2>1 DEF JobOK, Here
  <2> QED BY <2>1, <2>2 DEF j
<1>6. JobOK(job', triggers.stop) /\ job'.pc # "queueing"
  BY <1>3, <1>4, <1>5 DEF RunStop
<1>7. AccountInv'
  BY <1>1 DEF RunStop, AccountInv, Levels
<1> QED BY <1>1, <1>6, <1>7, QuietStep

LEMMA MarkDoneStep == MonitorInv /\ MarkDone => MonitorInv'
<1> SUFFICES ASSUME MonitorInv, MarkDone PROVE MonitorInv'
  OBVIOUS
<1> USE DEF MonitorInv
<1>1. UNCHANGED <<account, rows, triggers, queued>> /\ completed' = completed \cup {Here}
  BY DEF MarkDone
<1>2. Here \in Positions /\ Here \in triggers.stop /\ JobOK(job, triggers.stop)
  BY DEF MarkDone, JobInv, JobOK, AboutRow, OfStop, Here
<1>3. JobOK(job', triggers.stop) /\ job'.pc # "queueing"
  <2>1. "deferring" \in Pcs /\ "deferring" \notin OfStop
    BY DEF Pcs, OfStop
  <2>2. CASE job' = [job EXCEPT !.pc = "deferring"]
    BY <1>2, <2>1, <2>2, MovesOK
  <2>3. CASE job' = Idle
    BY <2>3, IdleOK DEF Idle
  <2> QED BY <2>2, <2>3 DEF MarkDone
<1>4. JobInv'
  BY <1>1, <1>3 DEF JobInv
<1>5. EventsInv'
  <2> HIDE DEF Here
  <2> QED BY <1>1, <1>2, <1>3 DEF EventsInv
<1> QED BY <1>1, <1>4, <1>5, AccountKept, RowsKept

-----------------------------------------------------------------------------
(* The steps of a review and of the risk cycle.                             *)

LEMMA ReviewStep == MonitorInv /\ Review => MonitorInv'
<1> SUFFICES ASSUME MonitorInv, Review PROVE MonitorInv'
  OBVIOUS
<1> USE DEF MonitorInv
<1>1. UNCHANGED <<account, rows, events>>
  BY DEF Review
<1>2. Here \in Positions /\ JobOK(job, triggers.stop)
  <2>1. Here \in Positions \cup {Nowhere} /\ Here[1] # NoSymbol
    BY DEF Review, JobInv, JobOK, Jobs, Here
  <2> QED BY <2>1, PlaceOfRow DEF JobInv
<1>3. PICK action \in Actions, broken \in BOOLEAN, gap \in BOOLEAN :
        job' = IF IntentOf[Applied(action, broken, gap)] = "none" THEN Idle
               ELSE [Rebooks("acting") EXCEPT !.intent = IntentOf[Applied(action, broken, gap)]]
  BY DEF Review
<1> DEFINE intent == IntentOf[Applied(action, broken, gap)]
<1>4. intent \in {"none", "BUY", "HOLD", "CASH", "SWITCH"}
  BY IntentOfReview
<1> HIDE DEF intent
<1>5. JobOK(job', triggers.stop) /\ job'.pc # "queueing"
  <2>1. CASE job' = Idle
    BY <2>1, IdleOK DEF Idle
  <2>2. CASE job' = [Rebooks("acting") EXCEPT !.intent = intent]
    <3>1. JobOK(Rebooks("acting"), triggers.stop) /\ Rebooks("acting").pc = "booking"
      BY <1>2, RebooksOK DEF Pcs, OfStop
    <3> DEFINE r == Rebooks("acting")
    <3>2. r \in Jobs /\ JobOK(r, triggers.stop) /\ r.pc = "booking"
      BY <3>1 DEF JobOK
    <3>3. job' = [r EXCEPT !.intent = intent]
      BY <2>2
    <3> HIDE DEF r
    <3>4. /\ job' \in Jobs /\ job'.pc = "booking" /\ job'.then = r.then /\ job'.at = r.at
      BY <1>4, <3>2, <3>3 DEF Jobs
    <3> QED BY <3>2, <3>4 DEF JobOK
  <2> QED BY <1>3, <2>1, <2>2 DEF intent
<1> QED BY <1>1, <1>5, AccountKept, QuietStep

\* What the reviewed intent comes to: it waits, or it has run.
LEMMA ActStep ==
  ASSUME MonitorInv, KeepReviewed \/ SellReviewed \/ SwitchReviewed
  PROVE  MonitorInv'
<1> USE DEF MonitorInv
<1>1. UNCHANGED <<rows, events>> /\ Here[1] \in Symbols
  <2>1. job.pc = "acting" /\ UNCHANGED <<rows, events>>
    BY DEF KeepReviewed, SellReviewed, SwitchReviewed, Acts
  <2>2. Here \in Positions
    BY <2>1 DEF JobInv, JobOK, AboutRow, Here
  <2> QED BY <2>1, <2>2 DEF Positions
<1>2. JobOK(job', triggers.stop) /\ job'.pc # "queueing"
  <2>1. job' = Idle \/ job' = Begins("review", "idle")
    BY DEF KeepReviewed, SellReviewed, SwitchReviewed, Waits
  <2>2. "review" \in Commands /\ "idle" \in Pcs \ AboutRow
    BY DEF Commands, Pcs, AboutRow
  <2>3. JobOK(Idle, triggers.stop) /\ Idle.pc # "queueing"
    BY IdleOK DEF Idle
  <2>4. JobOK(Begins("review", "idle"), triggers.stop) /\ Begins("review", "idle").pc # "queueing"
    BY <2>2, BeginsOK
  <2> QED BY <2>1, <2>3, <2>4
<1>3. decided' \in [Symbols -> 0..MaxDecisions]
  <2>1. Stores(Here[1]) \/ decided' = decided
    BY DEF KeepReviewed, SellReviewed, SwitchReviewed
  <2> QED BY <1>1, <2>1, Decides DEF AccountInv
<1>4. held' \in Symbols \cup {NoSymbol} /\ level' \in Levels /\ holdings' \in 0..MaxHoldings
  <2>1. CASE UNCHANGED <<held, level, holdings>>
    BY <2>1 DEF AccountInv
  <2>2. CASE held' = NoSymbol /\ level' = "fine" /\ UNCHANGED holdings
    BY <2>2 DEF AccountInv, Levels
  <2>3. CASE \E s \in Symbols : Acquires(s)
    BY <2>3, Acquired
  <2>4. CASE KeepReviewed
    BY <2>1, <2>4 DEF KeepReviewed, Waits
  <2>5. CASE SellReviewed
    BY <2>1, <2>2, <2>5 DEF SellReviewed, Waits
  <2>6. CASE SwitchReviewed
    BY <2>1, <2>3, <2>6 DEF SwitchReviewed, Waits
  <2> QED BY <2>4, <2>5, <2>6
<1>5. AccountInv'
  BY <1>3, <1>4 DEF AccountInv
<1> QED BY <1>1, <1>2, <1>5, QuietStep

LEMMA CheckRiskStep == MonitorInv /\ CheckRisk => MonitorInv'
<1> SUFFICES ASSUME MonitorInv, CheckRisk PROVE MonitorInv'
  OBVIOUS
<1> USE DEF MonitorInv
<1>1. UNCHANGED <<rows, events, holdings>>
  BY DEF CheckRisk
<1>2. JobOK(job, triggers.stop) /\ Here \in Positions \cup {Nowhere}
  BY DEF JobInv, JobOK, Jobs, Here
<1>3. CASE /\ Here[1] # NoSymbol /\ Stores(Here[1])
           /\ job' = Rebooks("idle")
           /\ \/ held' = NoSymbol /\ level' = "fine"
              \/ UNCHANGED <<held, level>>
  <2>1. JobOK(job', triggers.stop) /\ job'.pc # "queueing"
    BY <1>2, <1>3, RebooksOK DEF Pcs, AboutRow, OfStop
  <2>2. Here[1] \in Symbols
    BY <1>2, <1>3, PlaceOfRow
  <2>3. decided' \in [Symbols -> 0..MaxDecisions]
    BY <1>3, <2>2, Decides
  <2>4. AccountInv'
    BY <1>1, <1>3, <2>3 DEF AccountInv, Levels
  <2> QED BY <1>1, <2>1, <2>4, QuietStep
<1>4. CASE job' = Idle /\ UNCHANGED <<held, level, decided>>
  <2>1. JobOK(job', triggers.stop) /\ job'.pc # "queueing"
    BY <1>4, IdleOK DEF Idle
  <2>2. AccountInv'
    BY <1>1, <1>4 DEF AccountInv
  <2> QED BY <1>1, <2>1, <2>2, QuietStep
<1> QED BY <1>3, <1>4 DEF CheckRisk

-----------------------------------------------------------------------------
(* What failures cost.                                                      *)

Lost == {p \in triggers.review : queued[p] = 0}

InHand == IF job.pc = "queueing" THEN 1 ELSE 0

LossInv == /\ failures \in Nat
           /\ IsFiniteSet(Lost) /\ Cardinality(Lost) <= failures + InHand

\* A step that neither begins nor ends the queueing of a review.
LEMMA NothingLost ==
  ASSUME LossInv, triggers'.review = triggers.review, queued' = queued, InHand' = InHand,
         failures' = failures \/ failures' = failures + 1
  PROVE  LossInv'
<1>1. Lost' = Lost
  BY DEF Lost
<1>2. InHand \in Nat /\ Cardinality(Lost) \in Nat
  BY FS_CardinalityType DEF InHand, LossInv
<1> QED BY <1>1, <1>2 DEF LossInv

\* A death, or a failed write: the event in hand is lost, and counted.
LEMMA LostByFailure ==
  ASSUME LossInv, triggers' = triggers, queued' = queued, InHand' = 0, failures' = failures + 1
  PROVE  LossInv'
<1>1. Lost' = Lost
  BY DEF Lost
<1>2. InHand \in {0, 1} /\ Cardinality(Lost) \in Nat
  BY FS_CardinalityType DEF InHand, LossInv
<1> QED BY <1>1, <1>2 DEF LossInv

LEMMA AskedIsInHand == MonitorInv /\ LossInv /\ AskForReview => LossInv'
<1> SUFFICES ASSUME MonitorInv, LossInv, AskForReview PROVE LossInv'
  OBVIOUS
<1>1. InHand = 0 /\ UNCHANGED <<queued, failures>>
  BY DEF InHand, AskForReview, Watch
<1>2. CASE job' = Idle /\ UNCHANGED triggers
  <2>1. InHand' = 0
    BY <1>2 DEF InHand, Idle
  <2> QED BY <1>1, <1>2, <2>1, NothingLost
<1>3. CASE /\ Registers(Here) /\ job' = [job EXCEPT !.pc = "queueing"]
           /\ triggers' = [triggers EXCEPT !.review = @ \cup {Here}]
  <2>1. InHand' = 1
    BY <1>3 DEF InHand, MonitorInv, JobInv, JobOK, Jobs
  <2>2. triggers'.review = triggers.review \cup {Here}
    BY <1>3 DEF MonitorInv, EventsInv
  <2>3. Lost' \subseteq Lost \cup {Here}
    BY <1>1, <2>2 DEF Lost
  <2>4. /\ IsFiniteSet(Lost \cup {Here}) /\ Cardinality(Lost) \in Nat
        /\ Cardinality(Lost \cup {Here}) <= Cardinality(Lost) + 1
        /\ Cardinality(Lost \cup {Here}) \in Nat
    <3> DEFINE S == Lost
               x == Here
    <3>1. IsFiniteSet(S)
      BY DEF LossInv
    <3> HIDE DEF S, x
    <3>2. /\ IsFiniteSet(S \cup {x})
          /\ Cardinality(S \cup {x}) = Cardinality(S) \/ Cardinality(S \cup {x}) = Cardinality(S) + 1
      BY <3>1, FS_AddElement
    <3>3. Cardinality(S) \in Nat /\ Cardinality(S \cup {x}) \in Nat
      BY <3>1, <3>2, FS_CardinalityType
    <3> QED BY <3>2, <3>3 DEF S, x
  <2>5. IsFiniteSet(Lost') /\ Cardinality(Lost') <= Cardinality(Lost \cup {Here})
        /\ Cardinality(Lost') \in Nat
    BY <2>3, <2>4, FS_Subset, FS_CardinalityType
  <2> QED BY <1>1, <2>1, <2>4, <2>5 DEF LossInv
<1> QED BY <1>2, <1>3 DEF AskForReview, Watch

LEMMA QueuedIsNotLost == MonitorInv /\ LossInv /\ QueueReview => LossInv'
<1> SUFFICES ASSUME MonitorInv, LossInv, QueueReview PROVE LossInv'
  OBVIOUS
<1>1. InHand = 1 /\ InHand' = 0 /\ triggers' = triggers
  BY DEF InHand, QueueReview, Idle
<1>2. CASE Fails /\ UNCHANGED queued
  BY <1>1, <1>2, LostByFailure DEF Fails
<1>3. CASE queued' = [queued EXCEPT ![Here] = @ + 1] /\ UNCHANGED failures
  <2>1. Here \in Positions /\ Here \in triggers.review /\ queued[Here] = 0
    BY DEF QueueReview, MonitorInv, JobInv, JobOK, AboutRow, EventsInv, Here
  <2>2. /\ triggers.review \subseteq Positions /\ queued'[Here] = 1
        /\ \A p \in Positions \ {Here} : queued'[p] = queued[p]
    BY <1>3, <2>1 DEF MonitorInv, EventsInv
  <2>3. Here \in Lost /\ Lost' = Lost \ {Here}
    <3> HIDE DEF Here
    <3> QED BY <1>1, <2>1, <2>2 DEF Lost
  <2>4. IsFiniteSet(Lost') /\ Cardinality(Lost') = Cardinality(Lost) - 1
        /\ Cardinality(Lost) \in Nat
    BY <2>3, FS_RemoveElement, FS_CardinalityType DEF LossInv
  <2> QED BY <1>1, <1>3, <2>4 DEF LossInv
<1> QED BY <1>2, <1>3 DEF QueueReview

LEMMA LossSteps == MonitorInv /\ LossInv /\ [Next]_vars => LossInv'
<1> SUFFICES ASSUME MonitorInv, LossInv, [Next]_vars PROVE LossInv'
  OBVIOUS
<1>1. CASE AskForReview
  BY <1>1, AskedIsInHand
<1>2. CASE QueueReview
  BY <1>2, QueuedIsNotLost
<1>3. CASE Crash
  <2>1. triggers' = triggers /\ queued' = queued /\ InHand' = 0 /\ failures' = failures + 1
    BY <1>3 DEF Crash, events, Fails, InHand, Idle
  <2> QED BY <2>1, LostByFailure
<1>4. CASE TradeElsewhere \/ PriceMoves \/ RestartScheduler \/ UNCHANGED vars
  <2>1. triggers' = triggers /\ queued' = queued /\ InHand' = InHand /\ failures' = failures
    BY <1>4 DEF TradeElsewhere, PriceMoves, RestartScheduler, vars, events, InHand
  <2> QED BY <2>1, NothingLost
<1>5. CASE BeginStop
  <2>1. InHand = 0 /\ UNCHANGED <<queued, failures>>
    BY <1>5 DEF BeginStop, Watch, InHand
  <2>2. InHand' = 0
    BY <1>5 DEF BeginStop, Watch, InHand, Rebooks, MonitorInv, JobInv, JobOK, Jobs
  <2>3. triggers'.review = triggers.review
    BY <1>5 DEF BeginStop, Triggered, MonitorInv, EventsInv
  <2> QED BY <2>1, <2>2, <2>3, NothingLost
<1>6. ASSUME \/ Book \/ Close \/ NothingToDo \/ RunStop \/ MarkDone \/ Defer \/ Review
             \/ ReviewEnds \/ KeepReviewed \/ SellReviewed \/ SwitchReviewed \/ CheckRisk
             \/ StartMonitor \/ MonitorRaises \/ StartReview \/ RunDeferred \/ StartRiskCheck
             \/ \E s \in Symbols : BuyByResearch(s) \/ SwitchByResearch(s)
      PROVE  LossInv'
  <2>1. triggers' = triggers /\ queued' = queued
    BY <1>6 DEF Book, Close, NothingToDo, RunStop, MarkDone, Defer, Review, ReviewEnds,
       KeepReviewed, SellReviewed, SwitchReviewed, CheckRisk, StartMonitor, MonitorRaises,
       StartReview, RunDeferred, StartRiskCheck, BuyByResearch, SwitchByResearch, Watch, Acts,
       events
  <2>2. failures' = failures \/ failures' = failures + 1
    BY <1>6 DEF Book, Close, NothingToDo, RunStop, MarkDone, Defer, Review, ReviewEnds,
       KeepReviewed, SellReviewed, SwitchReviewed, CheckRisk, StartMonitor, MonitorRaises,
       StartReview, RunDeferred, StartRiskCheck, BuyByResearch, SwitchByResearch, Watch, Acts,
       Fails
  <2>3. InHand = 0
    BY <1>6 DEF Book, Close, NothingToDo, RunStop, MarkDone, Defer, Review, ReviewEnds,
       KeepReviewed, SellReviewed, SwitchReviewed, CheckRisk, StartMonitor, MonitorRaises,
       StartReview, RunDeferred, StartRiskCheck, BuyByResearch, SwitchByResearch, Watch, Acts,
       InHand
  <2>4. job'.pc # "queueing"
    <3>1. job \in Jobs
      BY DEF MonitorInv, JobInv, JobOK
    <3>0. Idle.pc = "idle" /\ Begins("review", "idle").pc = "booking"
      BY DEF Idle, Begins
    <3>9. Rebooks("idle").pc = "booking" /\ DOMAIN Rebooks("acting") = DOMAIN job
          /\ Rebooks("acting").pc = "booking"
      BY <3>1 DEF Rebooks, Jobs
    <3>2. CASE Book \/ Close
      <4>1. CASE Book
        BY <3>1, <4>1 DEF Book, Jobs
      <4>2. CASE Close
        <5>1. \/ job' = Idle
              \/ /\ job.then # "queueing"
                 /\ job' = [job EXCEPT !.pc = job.then, !.then = "idle", !.seen = NoSymbol]
              \/ /\ job.then # "queueing"
                 /\ \E p : job' = [job EXCEPT !.pc = job.then, !.then = "idle", !.at = p,
                                              !.seen = NoSymbol]
          BY <4>2 DEF Close
        <5>2. CASE job' = Idle
          BY <3>0, <5>2
        <5>3. CASE job' # Idle
          BY <3>1, <5>1, <5>3 DEF Jobs
        <5> QED BY <5>2, <5>3
      <4> QED BY <3>2, <4>1, <4>2
    <3>3. CASE NothingToDo \/ Defer \/ ReviewEnds \/ MonitorRaises
      BY <3>3 DEF NothingToDo, Defer, ReviewEnds, MonitorRaises, Watch, Idle
    <3>4. CASE RunStop \/ MarkDone \/ CheckRisk
      <4>1. CASE RunStop
        <5>1. job' \in {Rebooks("marking"), Rebooks("idle"),
                         [job EXCEPT !.pc = "marking", !.waits = TRUE]}
          BY <4>1 DEF RunStop
        <5> QED BY <3>1, <5>1 DEF Rebooks, Jobs
      <4>2. CASE MarkDone
        BY <3>1, <4>2 DEF MarkDone, Idle, Jobs
      <4>3. CASE CheckRisk
        <5>1. job' \in {Rebooks("idle"), Idle}
          BY <4>3 DEF CheckRisk
        <5> QED BY <3>0, <3>9, <5>1
      <4> QED BY <3>4, <4>1, <4>2, <4>3
    <3>5. CASE Review
      <4>1. \/ job' = Idle
            \/ \E action \in Actions, broken, gap \in BOOLEAN :
                 job' = [Rebooks("acting") EXCEPT !.intent = IntentOf[Applied(action, broken, gap)]]
        BY <3>5 DEF Review
      <4>2. CASE job' = Idle
        BY <3>0, <4>2
      <4>3. CASE job' # Idle
        <5>1. PICK i : job' = [Rebooks("acting") EXCEPT !.intent = i]
          BY <4>1, <4>3
        <5>2. job'.pc = "booking"
          BY <3>1, <5>1 DEF Rebooks, Jobs
        <5> QED BY <5>2
      <4> QED BY <4>2, <4>3
    <3>6. CASE KeepReviewed \/ SellReviewed \/ SwitchReviewed
      <4>1. job' \in {Idle, Begins("review", "idle")}
        BY <3>6 DEF KeepReviewed, SellReviewed, SwitchReviewed, Waits
      <4> QED BY <3>0, <4>1
    <3>7. CASE \/ StartMonitor \/ StartReview \/ RunDeferred \/ StartRiskCheck
               \/ \E s \in Symbols : BuyByResearch(s) \/ SwitchByResearch(s)
      BY <3>7 DEF StartMonitor, StartReview, RunDeferred, StartRiskCheck, BuyByResearch,
         SwitchByResearch, Begins, Idle
    <3> QED BY <1>6, <3>2, <3>3, <3>4, <3>5, <3>6, <3>7
  <2>5. InHand' = 0
    BY <2>4 DEF InHand
  <2> QED BY <2>1, <2>2, <2>3, <2>5, NothingLost
<1> QED BY <1>1, <1>2, <1>3, <1>4, <1>5, <1>6 DEF Next, Worker

-----------------------------------------------------------------------------
(* The theorems.                                                            *)

LEMMA MonitorSteps == MonitorInv /\ [Next]_vars => MonitorInv'
BY BookStep, CloseStep, StartStep, EndStep, OutsideStep, AskForReviewStep, QueueReviewStep,
   BeginStopStep, RunStopStep, MarkDoneStep, ReviewStep, ActStep, CheckRiskStep
   DEF Next, Worker

LEMMA MonitorAlways == Spec => []MonitorInv
BY MonitorStarts, MonitorSteps, PTL DEF Spec

\* The account, the rows of the database, the events, the runtime keys and the
\* command of the service keep their types.
THEOREM TypeCorrect == Spec => []TypeOK
<1>1. MonitorInv => TypeOK
  BY DEF MonitorInv, JobInv, JobOK, Jobs, AccountInv, RowsInv, EventsInv, TypeOK, Here, Nowhere
<1> QED BY <1>1, MonitorAlways, PTL

\* Whatever opens, closes and opens again, over any number of symbols and
\* decisions and with a crash anywhere, a symbol has at most one active row.
THEOREM OneActiveRow == Spec => []OneRowPerSymbol
<1>1. MonitorInv => OneRowPerSymbol
  <2> SUFFICES ASSUME MonitorInv, NEW s \in Symbols PROVE Cardinality(ActiveRows(s)) <= 1
    BY DEF OneRowPerSymbol
  <2>1. CASE ActiveRows(s) = {}
    BY <2>1, FS_EmptySet
  <2>2. CASE ActiveRows(s) # {}
    <3>1. PICK p : p \in ActiveRows(s)
      BY <2>2
    <3>2. ActiveRows(s) = {p}
      BY <3>1 DEF ActiveRows, MonitorInv, RowsInv, OneRow
    <3> QED BY <3>2, FS_Singleton
  <2> QED BY <2>1, <2>2
<1> QED BY <1>1, MonitorAlways, PTL

\* register_trigger comes before the command, so a review of a position is
\* queued once, whatever dies in between.
THEOREM AskedOnce == Spec => []ReviewAskedOnce
<1>1. MonitorInv => ReviewAskedOnce
  BY DEF MonitorInv, EventsInv, ReviewAskedOnce
<1> QED BY <1>1, MonitorAlways, PTL

\* However many drawdowns there are, the reviews that are never queued are at
\* most as many as the deaths and the failed writes.
THEOREM FailuresAccount == Spec => []LostToFailures
<1>1. Init => LossInv
  <2> SUFFICES ASSUME Init PROVE LossInv
    OBVIOUS
  <2>1. Lost = {} /\ failures = 0 /\ InHand = 0
    BY DEF Init, Lost, InHand, Idle
  <2> QED BY <2>1, FS_EmptySet DEF LossInv
<1>2. LossInv => LostToFailures
  BY DEF LossInv, LostToFailures, Lost, InHand
<1> QED BY <1>1, <1>2, MonitorAlways, LossSteps, PTL DEF Spec

=============================================================================
