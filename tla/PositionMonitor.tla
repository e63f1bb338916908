-------------------------- MODULE PositionMonitor --------------------------
(***************************************************************************)
(* The managed positions: the rows reconcile_portfolio of                  *)
(* src/src/runner.py books and closes, the monitor that runs the hard stop *)
(* or asks for a review, and the review of src/src/position_manager.py,    *)
(* with the service's part in src/src/service.py.                          *)
(*                                                                         *)
(* A price is a level of the return on the position.  The execution of an  *)
(* intent is one step with the outcomes of a decision cycle.  Taking       *)
(* profit is left out: the configuration turns it off.                     *)
(***************************************************************************)
EXTENDS Naturals, FiniteSets

CONSTANTS
  Symbols, NoSymbol,
  MaxDecisions,      \* bound on BUY decisions
  MaxHoldings,       \* bound on positions opened, one after the other
  MaxFailures        \* bound on deaths of the process, exceptions and failed writes

ASSUME MonitorAssumption ==
  /\ NoSymbol \notin Symbols
  /\ MaxDecisions \in Nat /\ MaxHoldings \in Nat /\ MaxFailures \in Nat

Levels == {"fine", "review", "stop"}   \* above -10 %, above -15 %, below
\* The row of a position is named after the decision that opened it, or after
\* the symbol alone when no decision is known (0).
Positions == Symbols \X (0..MaxDecisions)
Actions   == {"HOLD", "EXTEND_HOLD", "ADD", "REDUCE", "SELL", "EXIT_TO_CASH", "REPLACE"}

VARIABLES
  (* the account *)
  held, level,
  holdings,     \* positions opened so far
  (* SQLite *)
  decided,      \* the latest decision for each symbol that is not a SWITCH
  rows,         \* managed_positions: none, ACTIVE or CLOSED
  triggers,     \* position_triggers: the positions with a stop, with a review
  queued,       \* commands RUN_EVENT_SOL_REVIEW: how often for a position
  completed,    \* position_monitor.completed: the positions whose stop is done
  deferred,     \* pending_execution_intent: none, a CASH intent or another
  scheduling,   \* the scheduler runs
  (* the command under way *)
  job,
  failures

vars == <<held, level, holdings, decided, rows, triggers, queued, completed, deferred,
          scheduling, job, failures>>

account == <<held, level, holdings, decided>>
events  == <<triggers, queued, completed>>

\* seen: the symbol of the snapshot; at: the row the command is about.
Idle == [pc |-> "idle", command |-> "none", then |-> "idle", seen |-> NoSymbol,
         at |-> <<NoSymbol, 0>>, intent |-> "none", waits |-> FALSE]

Init ==
  /\ held = NoSymbol /\ level = "fine" /\ holdings = 0
  /\ decided = [s \in Symbols |-> 0]
  /\ rows = [p \in Positions |-> "none"]
  /\ triggers = [stop |-> {}, review |-> {}]
  /\ queued = [p \in Positions |-> 0]
  /\ completed = {} /\ deferred = "none" /\ scheduling = TRUE
  /\ job = Idle /\ failures = 0

Fails == failures < MaxFailures /\ failures' = failures + 1

Here == job.at

-----------------------------------------------------------------------------
(* reconcile_portfolio: book the position held, then close the others.      *)
(* A command begins with it, and so does run, which ends with it as well.   *)

Begins(command, then) == [Idle EXCEPT !.pc = "booking", !.command = command, !.then = then]

Rebooks(then) == [job EXCEPT !.pc = "booking", !.then = then]

ActiveRows(s) == {p \in Positions : p[1] = s /\ rows[p] = "ACTIVE"}

\* Every reconciliation opens the row of the latest decision.
RowOfLatest(s) == {<<s, decided[s]>>}

\* The row that is active stays; otherwise the latest decision gives its name,
\* and a closed row of that name is opened again.
RowOf(s) == IF ActiveRows(s) # {} THEN ActiveRows(s) ELSE {<<s, decided[s]>>}

Book ==
  /\ job.pc = "booking"
  /\ job' = [job EXCEPT !.pc = "closing", !.seen = held]
  /\ \/ /\ held = NoSymbol
        /\ UNCHANGED rows
     \/ /\ held # NoSymbol
        /\ \E p \in RowOf(held) : rows' = [rows EXCEPT ![p] = "ACTIVE"]
  /\ UNCHANGED <<account, events, deferred, scheduling, failures>>

Booked == IF job.seen = NoSymbol THEN {Idle.at} ELSE ActiveRows(job.seen)

Close ==
  /\ job.pc = "closing"
  /\ rows' = [p \in Positions |-> IF rows[p] = "ACTIVE" /\ p[1] # job.seen THEN "CLOSED" ELSE rows[p]]
  /\ \/ job.then = "idle" /\ job' = Idle
     \/ /\ job.then \in {"stopping", "marking", "acting"}
        /\ job' = [job EXCEPT !.pc = job.then, !.then = "idle", !.seen = NoSymbol]
     \/ /\ job.then \in {"watching", "reviewing", "checking"}
        /\ \E p \in Booked : job' = [job EXCEPT !.pc = job.then, !.then = "idle", !.at = p,
                                                !.seen = NoSymbol]
  /\ UNCHANGED <<account, events, deferred, scheduling, failures>>

-----------------------------------------------------------------------------
(* run_position_monitor, which the scheduler queues while a row is active.  *)

StartMonitor ==
  /\ job.pc = "idle" /\ scheduling
  /\ \E p \in Positions : rows[p] = "ACTIVE"
  /\ job' = Begins("monitor", "watching")
  /\ UNCHANGED <<account, rows, events, deferred, scheduling, failures>>

Watch(next) ==
  /\ job.pc = "watching"
  /\ job' = next
  /\ UNCHANGED <<account, rows, queued, completed, deferred, scheduling, failures>>

MayStopOnce(p) == p \notin completed \cup triggers.stop   \* as for a review

\* ALREADY_HANDLED is for a stop that came to its end, not for one registered.
MayStop(p) == p \notin completed

\* No position, a fine one, or ALREADY_HANDLED.
NothingToDo ==
  /\ \/ Here[1] = NoSymbol
     \/ level = "fine"
     \/ level = "stop" /\ ~ MayStop(Here)
  /\ Watch(Idle) /\ UNCHANGED triggers

RegistersAgain(p) == TRUE   \* a known event is taken for a new one

\* register_trigger knows an event by the position and the kind.
Registers(p) == p \notin triggers.review

AskForReview ==
  /\ Here[1] # NoSymbol /\ level = "review"
  /\ \/ ~ Registers(Here) /\ Watch(Idle) /\ UNCHANGED triggers
     \/ /\ Registers(Here) /\ Watch([job EXCEPT !.pc = "queueing"])
        /\ triggers' = [triggers EXCEPT !.review = @ \cup {Here}]

TriggeredAlike(p) == [triggers EXCEPT !.stop = @ \cup {p}, !.review = @ \cup {p}]   \* one key for both

Triggered(p) == [triggers EXCEPT !.stop = @ \cup {p}]

\* A second try of the stop finds its trigger and goes on.
BeginStop ==
  /\ Here[1] # NoSymbol /\ level = "stop" /\ MayStop(Here)
  /\ Watch(Rebooks("stopping"))
  /\ triggers' = Triggered(Here)

\* The command is written after the trigger; when that write fails, the
\* exception passes by the handler of MonitorRaises.
QueueReview ==
  /\ job.pc = "queueing"
  /\ \/ queued' = [queued EXCEPT ![Here] = @ + 1] /\ UNCHANGED failures
     \/ Fails /\ UNCHANGED queued
  /\ job' = Idle
  /\ UNCHANGED <<account, rows, triggers, completed, deferred, scheduling>>

\* run with the CASH intent of the stop sells; or it ends in ERROR with shares
\* left; or it waits for the broker, without another reconciliation; or the
\* broker refuses the order, which leaves the stop to the next monitor.
RunStop ==
  /\ job.pc = "stopping"
  /\ \/ /\ held' = NoSymbol /\ level' = "fine"
        /\ job' = Rebooks("marking")
        /\ UNCHANGED failures
     \/ /\ job' \in {Rebooks("marking"), [job EXCEPT !.pc = "marking", !.waits = TRUE]}
        /\ UNCHANGED <<held, level, failures>>
     \/ /\ Fails
        /\ job' = Rebooks("idle")
        /\ UNCHANGED <<held, level>>
  /\ UNCHANGED <<holdings, decided, rows, triggers, queued, completed, deferred, scheduling>>

\* The stop is done whatever came of it, but for an exception or a refusal:
\* neither ERROR nor WAITING_FOR_BROKER is among the states that leave it open.
MarkDone ==
  /\ job.pc = "marking"
  /\ completed' = completed \cup {Here}
  /\ job' = IF job.waits THEN [job EXCEPT !.pc = "deferring"] ELSE Idle
  /\ UNCHANGED <<account, rows, triggers, queued, deferred, scheduling, failures>>

Defer ==
  /\ job.pc = "deferring"
  /\ deferred' = "CASH" /\ job' = Idle
  /\ UNCHANGED <<account, rows, events, scheduling, failures>>

\* The service answers an exception with SAFE_MODE and stops the scheduler.
MonitorRaises ==
  /\ job.command = "monitor" /\ job.pc \in {"booking", "closing", "watching", "stopping"}
  /\ Fails
  /\ scheduling' = FALSE /\ job' = Idle
  /\ UNCHANGED <<account, rows, events, deferred>>

-----------------------------------------------------------------------------
(* run_position_review: Sol's review, what apply_review makes of it, and    *)
(* the decision cycle it asks for.                                          *)

StartReview ==
  /\ job.pc = "idle"
  /\ job' = Begins("review", "reviewing")
  /\ UNCHANGED <<account, rows, events, deferred, scheduling, failures>>

\* gap: the alternative leads by the replacement threshold.
Applied(action, broken, gap) ==
  IF \/ broken /\ action \notin {"SELL", "EXIT_TO_CASH", "REPLACE"}
     \/ broken /\ action = "REPLACE" /\ ~ gap
  THEN "EXIT_TO_CASH"
  ELSE IF action = "REPLACE" /\ ~ gap THEN "HOLD" ELSE action

IntentOf ==
  [HOLD |-> "none", EXTEND_HOLD |-> "none", ADD |-> "BUY", REDUCE |-> "HOLD",
   SELL |-> "CASH", EXIT_TO_CASH |-> "CASH", REPLACE |-> "SWITCH"]

NextDecision(n) == (\E s \in Symbols : decided[s] = n - 1) /\ \A s \in Symbols : decided[s] < n

MayDecide == \E n \in 1..MaxDecisions : NextDecision(n)

Review ==
  /\ job.pc = "reviewing" /\ Here[1] # NoSymbol
  /\ \E action \in Actions, broken, gap \in BOOLEAN :
       LET intent == IntentOf[Applied(action, broken, gap)]
       IN  /\ intent \in {"BUY", "HOLD"} => MayDecide
           /\ job' = IF intent = "none" THEN Idle ELSE [Rebooks("acting") EXCEPT !.intent = intent]
  /\ UNCHANGED <<account, rows, events, deferred, scheduling, failures>>

\* No position; an EXTEND_HOLD before the horizon; a REPLACE by itself.
ReviewEnds ==
  /\ job.pc = "reviewing"
  /\ job' = Idle
  /\ UNCHANGED <<account, rows, events, deferred, scheduling, failures>>

\* run stores every intent; the next reconciliation looks for the latest one
\* with the symbol, but for a SWITCH.
Stores(s) == \E n \in 1..MaxDecisions : NextDecision(n) /\ decided' = [decided EXCEPT ![s] = n]

Acquires(s) == /\ holdings < MaxHoldings
               /\ held' = s /\ level' = "fine" /\ holdings' = holdings + 1

Acts == job.pc = "acting" /\ UNCHANGED <<rows, events, scheduling, failures>>

\* The intent that waits for the broker takes the place of any other.
Waits == /\ deferred' = IF job.intent = "CASH" THEN "CASH" ELSE "other"
         /\ job' = Idle /\ UNCHANGED <<held, level, holdings>>

KeepReviewed ==
  /\ Acts /\ job.intent \in {"BUY", "HOLD"}
  /\ Stores(Here[1])
  /\ \/ Waits
     \/ job' = Begins("review", "idle") /\ UNCHANGED <<held, level, holdings, deferred>>

SellReviewed ==
  /\ Acts /\ job.intent = "CASH"
  /\ \/ Waits
     \/ /\ job' = Begins("review", "idle")
        /\ \/ held' = NoSymbol /\ level' = "fine"
           \/ UNCHANGED <<held, level>>
        /\ UNCHANGED <<holdings, deferred>>
  /\ UNCHANGED decided

SwitchReviewed ==
  /\ Acts /\ job.intent = "SWITCH"
  /\ \/ Waits
     \/ /\ job' = Begins("review", "idle")
        /\ \/ \E s \in Symbols \ {Here[1]} : Acquires(s)
           \/ UNCHANGED <<held, level, holdings>>
        /\ UNCHANGED deferred
  /\ UNCHANGED decided

-----------------------------------------------------------------------------
(* The other commands, the account and the process.                         *)

\* A research cycle buys; with a SWITCH no decision is found for the symbol.
BuyByResearch(s) ==
  /\ job.pc = "idle" /\ held = NoSymbol
  /\ Acquires(s) /\ Stores(s)
  /\ job' = Begins("research", "idle")
  /\ UNCHANGED <<rows, events, deferred, scheduling, failures>>

SwitchByResearch(s) ==
  /\ job.pc = "idle" /\ held \notin {NoSymbol, s}
  /\ Acquires(s)
  /\ job' = Begins("research", "idle")
  /\ UNCHANGED <<decided, rows, events, deferred, scheduling, failures>>

\* run_pending_entries: a deferred CASH intent sells whatever is held, another
\* may switch; or it fails, goes on waiting, or has grown old.
RunDeferred ==
  /\ job.pc = "idle" /\ deferred # "none"
  /\ \/ deferred = "CASH" /\ held' = NoSymbol /\ level' = "fine" /\ UNCHANGED holdings
     \/ deferred = "other" /\ held # NoSymbol /\ \E s \in Symbols \ {held} : Acquires(s)
     \/ UNCHANGED <<held, level, holdings>>
  /\ deferred' \in {deferred, "none"}
  /\ job' = Begins("pending", "idle")
  /\ UNCHANGED <<decided, rows, events, scheduling, failures>>

\* The risk cycle runs a HOLD of its own, a decision like any other, which may
\* end in a liquidation; beyond the bound on decisions it only reconciles.
StartRiskCheck ==
  /\ job.pc = "idle" /\ scheduling
  /\ job' = Begins("risk", "checking")
  /\ UNCHANGED <<account, rows, events, deferred, scheduling, failures>>

CheckRisk ==
  /\ job.pc = "checking"
  /\ \/ /\ Here[1] # NoSymbol /\ Stores(Here[1])
        /\ job' = Rebooks("idle")
        /\ \/ held' = NoSymbol /\ level' = "fine"
           \/ UNCHANGED <<held, level>>
     \/ /\ Here[1] = NoSymbol \/ ~ MayDecide
        /\ job' = Idle
        /\ UNCHANGED <<held, level, decided>>
  /\ UNCHANGED <<holdings, rows, events, deferred, scheduling, failures>>

\* An order of an earlier cycle, or another client of the account.
TradeElsewhere ==
  /\ \/ \E s \in Symbols : held = NoSymbol /\ Acquires(s)
     \/ held # NoSymbol /\ held' = NoSymbol /\ level' = "fine" /\ UNCHANGED holdings
  /\ UNCHANGED <<decided, rows, events, deferred, scheduling, job, failures>>

\* Only the monitor reads the price.
PriceMoves ==
  /\ held # NoSymbol /\ job.pc \in {"idle", "watching"}
  /\ level' \in Levels \ {level}
  /\ UNCHANGED <<held, holdings, decided, rows, events, deferred, scheduling, job, failures>>

\* The operator, or the recovery of the broker.
RestartScheduler ==
  /\ ~ scheduling /\ scheduling' = TRUE
  /\ UNCHANGED <<account, rows, events, deferred, job, failures>>

Crash ==
  /\ job.pc # "idle" /\ Fails
  /\ job' = Idle /\ scheduling' = TRUE
  /\ UNCHANGED <<account, rows, events, deferred>>

Worker == \/ Book \/ Close \/ NothingToDo \/ AskForReview \/ BeginStop \/ QueueReview \/ RunStop
          \/ MarkDone \/ Defer \/ Review \/ ReviewEnds
          \/ KeepReviewed \/ SellReviewed \/ SwitchReviewed \/ CheckRisk

Next ==
  \/ Worker \/ StartMonitor \/ MonitorRaises \/ StartReview \/ RunDeferred \/ StartRiskCheck
  \/ TradeElsewhere \/ PriceMoves \/ RestartScheduler \/ Crash
  \/ \E s \in Symbols : BuyByResearch(s) \/ SwitchByResearch(s)

Spec == Init /\ [][Next]_vars

\* A command that is begun goes on; the scheduler's two commands get their turn
\* among the others; a scheduler that is stopped is started again some day.
Fairness ==
  WF_vars(Worker) /\ SF_vars(StartMonitor) /\ SF_vars(StartRiskCheck) /\ WF_vars(RestartScheduler)

FairSpec == Spec /\ Fairness

-----------------------------------------------------------------------------
(* Properties.                                                              *)

Pcs == {"idle", "booking", "closing", "watching", "queueing", "stopping", "marking", "deferring",
        "reviewing", "acting", "checking"}

\* The state has its types: the account, the rows of managed_positions and
\* position_triggers, the runtime keys and the command of the service.
TypeOK ==
  /\ held \in Symbols \cup {NoSymbol} /\ level \in Levels /\ holdings \in 0..MaxHoldings
  /\ decided \in [Symbols -> 0..MaxDecisions]
  /\ rows \in [Positions -> {"none", "ACTIVE", "CLOSED"}]
  /\ triggers.stop \subseteq Positions /\ triggers.review \subseteq Positions
  /\ completed \subseteq triggers.stop
  /\ job.pc \in Pcs /\ job.then \in Pcs
  /\ Here \in Positions \cup {Idle.at}

\* Of a symbol at most one row is active, over positions closed and opened
\* again, decisions that change the name of the next row, and a crash between
\* booking and closing: active_managed_position takes the latest of them, so a
\* second one would hide the entry price and the events of the first.
OneRowPerSymbol == \A s \in Symbols : Cardinality(ActiveRows(s)) <= 1

\* A drawdown is brought to Sol at most once per position, over crashes and
\* over positions that are closed and opened again under the same name.
ReviewAskedOnce == \A p \in Positions : queued[p] <= 1

\* No drawdown is forgotten but by a failure: of the events that
\* register_trigger knows, and will therefore never accept again, those without
\* a command are the one that is being queued and one for each death of the
\* process or failed write.
LostToFailures ==
  Cardinality({p \in triggers.review : queued[p] = 0})
    <= failures + (IF job.pc = "queueing" THEN 1 ELSE 0)

\* A position below the hard stop is sold, recovers, or has had its stop run to
\* an outcome: exceptions, crashes and a scheduler they stopped delay the stop
\* but do not lose it.
StopIsRun ==
  \A s \in Symbols :
    held = s /\ level = "stop" ~>
      \/ held # s \/ level # "stop"
      \/ \E p \in ActiveRows(s) : p \in completed

=============================================================================
