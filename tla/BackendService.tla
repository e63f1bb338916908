--------------------------- MODULE BackendService ---------------------------
(***************************************************************************)
(* The gates of src/src/service.py: SAFE_MODE, MANUAL_HALT, the risk state *)
(* and trading_enabled, the commands and the broker monitor that move      *)
(* them, and what a command may do to the account meanwhile.               *)
(*                                                                         *)
(* The command worker runs one job at a time: a command of the queue or,   *)
(* when the queue is drained, a heartbeat of the monitor.  A job has three *)
(* steps: its guards (Begin...), its talk with the broker (Broker...),     *)
(* and its writes to runtime_state (Settle...).  TWS, the connectivity     *)
(* callback of the API thread, the operator and the scheduler act in       *)
(* between.  The mode is IBKR_PAPER with EXECUTION_MODE=PAPER.             *)
(***************************************************************************)
EXTENDS RiskRules, Naturals, Sequences

CONSTANTS
  OperatorCommands,  \* what the dashboard queues
  SchedulerCommands, \* what the scheduler queues
  Drawdowns,         \* those a valuation may find, in per cent
  MaxQueue,          \* bound on queued commands
  MaxTrouble         \* bound on link drops, foreign orders and restarts

OperatorNames  == {"START_SCHEDULER", "STOP_SCHEDULER", "RUN_RECONCILIATION", "RUN_RISK_CHECK",
                   "RUN_AI_RESEARCH", "EMERGENCY_STOP", "RESUME_MANUAL_HALT"}
SchedulerNames == {"RUN_FULL_AI_RESEARCH", "RUN_RISK_CHECK", "RUN_PENDING_ENTRIES",
                   "RUN_POSITION_MONITOR", "RUN_DAILY_POSITION_REVIEW"}

ASSUME ServiceAssumption ==
  /\ OperatorCommands \subseteq OperatorNames
  /\ SchedulerCommands \subseteq SchedulerNames
  /\ Drawdowns \subseteq Nat
  /\ MaxQueue \in Nat /\ MaxTrouble \in Nat

Commands == OperatorNames \cup SchedulerNames
Jobs     == Commands \cup {"STARTUP", "RECOVERY", "DEFERRED_INTENT"}

\* How a job fails: TWS is not there or a wait timed out; UNKNOWN BROKER OPEN
\* ORDER; a quote that is missing or stale, a connection lost on the way;
\* anything else.
Errors   == {"login", "unknown", "transient", "other"}
NoError  == "none"

VARIABLES
  (* the account and TWS *)
  link,       \* TWS is logged in and connected
  foreign,    \* another client has a working order
  holding,    \* the account holds a position
  (* runtime_state and the other tables, which survive a restart *)
  service, safe, trading, halt,
  transient,  \* last_error is one _is_recoverable_broker_error accepts
  risk,       \* the risk state of the last saved portfolio
  gateRisk,   \* the risk_state of the runtime, which the gates read
  deferred,   \* pending_execution_intent
  entry,      \* a durable pending entry
  monitored,  \* broker_monitor_connected and broker_reconciliation_ready
  queue,      \* queued commands, oldest first
  (* the process *)
  up,         \* it runs
  connected, known, \* the flags of the executor
  blocked,    \* _broker_auto_recovery_blocked
  sched,      \* the scheduler thread runs
  pc, job, outcome, \* the worker: where, which job, how the broker answered
  checked,    \* the risk state a running risk check will write at its end
  trouble     \* counted for the bound

worldVars   == <<link, foreign>>
runtimeVars == <<service, safe, trading, halt, transient>>
riskVars    == <<risk, gateRisk>>
durableVars == <<deferred, entry, monitored>>
processVars == <<up, connected, known, blocked, sched>>
workerVars  == <<pc, job, outcome, checked>>
vars == <<worldVars, holding, runtimeVars, riskVars, durableVars, queue, processVars,
          workerVars, trouble>>

GateStates == {"NORMAL", "RISK_HALTED"}

Services == {"STARTING", "ONLINE", "SAFE_MODE", "MANUAL_HALT", "RECONNECTING",
             "WAITING_FOR_TWS_PAPER_LOGIN"}

TypeOK ==
  /\ link \in BOOLEAN /\ foreign \in BOOLEAN /\ holding \in BOOLEAN
  /\ service \in Services /\ safe \in BOOLEAN /\ trading \in BOOLEAN /\ halt \in BOOLEAN
  /\ risk \in GateStates /\ gateRisk \in GateStates /\ checked \in GateStates \cup {NoError}
  /\ transient \in BOOLEAN
  /\ deferred \in {NoError, "BUY", "SELL"} /\ entry \in BOOLEAN
  /\ monitored \in [connected : BOOLEAN, ready : {"unset", "no", "yes"}]
  /\ queue \in Seq(Commands)
  /\ up \in BOOLEAN /\ connected \in BOOLEAN /\ known \in BOOLEAN
  /\ blocked \in BOOLEAN /\ sched \in BOOLEAN
  /\ pc \in {"idle", "broker", "settle"}
  /\ job \in Jobs \cup {NoError} /\ (job = NoError <=> pc = "idle")
  /\ outcome \in Errors \cup {NoError, "ok", "llm", "broker"}
  /\ ~ up => pc = "idle" /\ ~ connected /\ ~ known /\ ~ sched
  /\ trouble \in Nat

Init ==
  /\ link = TRUE /\ foreign = FALSE /\ holding \in BOOLEAN
  /\ service = "STARTING" /\ safe = FALSE /\ trading = FALSE /\ halt = FALSE
  /\ risk = "NORMAL" /\ gateRisk = "NORMAL" /\ transient = FALSE
  /\ deferred = NoError /\ entry = FALSE
  /\ monitored = [connected |-> FALSE, ready |-> "unset"]
  /\ queue = <<>>
  /\ up = FALSE /\ connected = FALSE /\ known = FALSE /\ blocked = FALSE /\ sched = FALSE
  /\ pc = "idle" /\ job = NoError /\ outcome = NoError /\ checked = NoError
  /\ trouble = 0

-----------------------------------------------------------------------------
(* Jobs begin                                                              *)

Working(name) ==
  /\ pc' = "broker" /\ job' = name
  /\ UNCHANGED <<outcome, checked>>

\* start(): the lock is taken, the runtime is reset, the portfolio is next.
BeginStartup ==
  /\ ~ up
  /\ up' = TRUE
  /\ service' = "STARTING" /\ trading' = FALSE /\ safe' = FALSE
  /\ Working("STARTUP")
  /\ UNCHANGED <<worldVars, holding, halt, riskVars, transient, durableVars, queue,
                 connected, known, blocked, sched, trouble>>

\* _is_recoverable_broker_error of the persisted error text.
RecoverableSafeMode == safe /\ transient

NeedsRecovery == ~ connected \/ ~ known \/ RecoverableSafeMode

\* monitor_broker_state when the broker needs recovery: the scheduler is
\* stopped and the runtime says so before the broker is talked to.
BeginRecovery ==
  /\ up /\ pc = "idle" /\ queue = <<>>
  /\ NeedsRecovery /\ ~ blocked
  /\ sched' = FALSE
  /\ service' = "RECONNECTING" /\ trading' = FALSE
  /\ Working("RECOVERY")
  /\ UNCHANGED <<worldVars, holding, safe, halt, riskVars, transient, durableVars,
                 queue, up, connected, known, blocked, trouble>>

\* The end of monitor_broker_state with the flags it has seen: the monitor
\* fields, a risk check when they changed (RUN_IMMEDIATE_RISK_CHECK, here
\* RUN_RISK_CHECK, which is what it runs), a resume of deferred execution.
Monitor(isConnected, isReady) ==
  LET rose   == isConnected /\ isReady /\ monitored.ready # "yes"
      event  == \/ rose /\ monitored.ready = "no"
                \/ ~ rose /\ monitored.connected /\ ~ isConnected
  IN /\ monitored' = [connected |-> isConnected, ready |-> IF isReady THEN "yes" ELSE "no"]
     /\ queue' = queue \o (IF event THEN <<"RUN_RISK_CHECK">> ELSE <<>>)
                       \o (IF rose /\ deferred # NoError THEN <<"RUN_PENDING_ENTRIES">> ELSE <<>>)

\* monitor_broker_state when there is nothing to recover, recovery is blocked,
\* or the reconnect interval has not passed yet.
Heartbeat ==
  /\ up /\ pc = "idle" /\ queue = <<>>
  /\ Monitor(connected, known)
  /\ UNCHANGED <<worldVars, holding, runtimeVars, riskVars, deferred, entry, processVars, workerVars,
                 trouble>>

TakeCommand == up /\ pc = "idle" /\ queue # <<>> /\ queue' = Tail(queue)

\* Mutated form of TransactionAllowed: the manual halt is not looked at.
AllowedUnlessSafe ==
  ~ safe /\ gateRisk # "RISK_HALTED" /\ service # "WAITING_FOR_TWS_PAPER_LOGIN"

\* _ensure_transaction_allowed.
TransactionAllowed ==
  /\ ~ safe /\ ~ halt /\ gateRisk # "RISK_HALTED"
  /\ service # "WAITING_FOR_TWS_PAPER_LOGIN"

\* The guard of START_SCHEDULER.
MayStartScheduler == ~ safe /\ ~ halt

\* Commands whose guards pass.
Guard(name) ==
  /\ name = "START_SCHEDULER" => MayStartScheduler
  /\ name = "RESUME_MANUAL_HALT" => ~ safe
  /\ name \in {"RUN_AI_RESEARCH", "RUN_FULL_AI_RESEARCH"} => TransactionAllowed

\* A guard raises: the command fails and nothing else changes.
RefuseCommand ==
  /\ TakeCommand
  /\ ~ Guard(Head(queue))
  /\ UNCHANGED <<worldVars, holding, runtimeVars, riskVars, durableVars, processVars,
                 workerVars, trouble>>

\* START_SCHEDULER and STOP_SCHEDULER do not talk to the broker.
SchedulerCommand ==
  /\ TakeCommand
  /\ \/ /\ Head(queue) = "START_SCHEDULER" /\ Guard("START_SCHEDULER")
        /\ sched' = TRUE /\ service' = "ONLINE"
        /\ trading' \in {FALSE, gateRisk # "RISK_HALTED"}
     \/ /\ Head(queue) = "STOP_SCHEDULER"
        /\ sched' = FALSE
        /\ UNCHANGED <<service, trading>>
  /\ UNCHANGED <<worldVars, holding, safe, halt, riskVars, transient, durableVars,
                 up, connected, known, blocked, workerVars, trouble>>

\* EMERGENCY_STOP persists the halt and stops the scheduler first.
BeginEmergencyStop ==
  /\ TakeCommand
  /\ Head(queue) = "EMERGENCY_STOP"
  /\ halt' = TRUE /\ sched' = FALSE
  /\ Working("EMERGENCY_STOP")
  /\ UNCHANGED <<worldVars, holding, service, safe, trading, riskVars, transient, durableVars, up, connected, known, blocked, trouble>>

\* Every other command goes straight to the runner.
BeginCommand ==
  /\ TakeCommand
  /\ Head(queue) \notin {"START_SCHEDULER", "STOP_SCHEDULER", "EMERGENCY_STOP"}
  /\ Guard(Head(queue))
  /\ Working(Head(queue))
  /\ UNCHANGED <<worldVars, holding, runtimeVars, riskVars, durableVars, processVars,
                 trouble>>

-----------------------------------------------------------------------------
(* Jobs talk with the broker                                               *)

\* REDUCED opens the same gates as NORMAL.
Gate(state) == IF state = "RISK_HALTED" THEN state ELSE "NORMAL"

\* reconcile_portfolio succeeds.  The drawdown moves with the market, so each
\* valuation may find any.
Reconciles ==
  /\ link /\ ~ foreign
  /\ connected' = TRUE /\ known' = TRUE
  /\ \E d \in Drawdowns : risk' = Gate(ReconciledState([drawdown |-> d, state |-> risk]))
  /\ gateRisk' = risk'

\* reconcile_portfolio raises.  A wait may time out on a working link.
ReconcileRaises(error) ==
  /\ \/ error = "login" /\ connected' \in {connected, link}
     \/ error = "unknown" /\ link /\ foreign /\ connected' = TRUE
     \/ error = "transient" /\ link /\ ~ foreign /\ holding /\ connected' = TRUE
     \/ error = "transient" /\ ~ link /\ UNCHANGED connected
     \/ error = "other" /\ link /\ connected' = TRUE
  /\ known' = FALSE
  /\ UNCHANGED riskVars

Answered(result) == pc' = "settle" /\ outcome' = result /\ UNCHANGED <<job, checked>>

\* Jobs that do nothing but reconcile.
BrokerReconciles ==
  /\ pc = "broker"
  /\ job \in {"RUN_RECONCILIATION", "RESUME_MANUAL_HALT", "RECOVERY"}
  /\ Reconciles
  /\ Answered("ok")
  /\ UNCHANGED <<worldVars, holding, runtimeVars, durableVars, queue,
                 up, blocked, sched, trouble>>

\* The reconciliation at the head of any job raises.
BrokerRaises ==
  /\ pc = "broker"
  /\ job # "RUN_PENDING_ENTRIES"
  /\ \E error \in Errors : ReconcileRaises(error) /\ Answered(error)
  /\ UNCHANGED <<worldVars, holding, runtimeVars, durableVars, queue,
                 up, blocked, sched, trouble>>

\* Jobs that may sell: the position is gone, or the order is not done yet,
\* or the run raises after the reconciliation.
BrokerSells ==
  /\ pc = "broker"
  /\ job \in {"STARTUP", "EMERGENCY_STOP"}
  /\ Reconciles
  /\ holding' \in IF job = "STARTUP" /\ risk' = "NORMAL" THEN {holding} ELSE {FALSE, holding}
  /\ \E result \in {"ok", "other"} : Answered(result)
  /\ UNCHANGED <<worldVars, runtimeVars, durableVars, queue,
                 up, blocked, sched, trouble>>

\* run_daily_risk_check, after which run_risk_check_now goes on to the
\* pending entries.
BrokerRiskCheck ==
  /\ pc = "broker"
  /\ job = "RUN_RISK_CHECK"
  /\ Reconciles
  /\ holding' \in {FALSE, holding}
  /\ \/ Answered("other")
     \/ pc' = "broker" /\ job' = "RUN_PENDING_ENTRIES" /\ checked' = risk' /\ UNCHANGED outcome
  /\ UNCHANGED <<worldVars, runtimeVars, durableVars, queue,
                 up, blocked, sched, trouble>>

\* run_position_monitor: it may sell, defer the sale to the next session, or
\* queue a review (RUN_EVENT_SOL_REVIEW, here RUN_DAILY_POSITION_REVIEW).
BrokerMonitor ==
  /\ pc = "broker"
  /\ job = "RUN_POSITION_MONITOR"
  /\ Reconciles
  /\ \/ holding' \in {FALSE, holding} /\ UNCHANGED <<deferred, queue>>
     \/ holding /\ deferred' = "SELL" /\ UNCHANGED <<holding, queue>>
     \/ /\ holding /\ queue' = Append(queue, "RUN_DAILY_POSITION_REVIEW")
        /\ UNCHANGED <<holding, deferred>>
  /\ \E result \in {"ok", "other"} : Answered(result)
  /\ UNCHANGED <<worldVars, runtimeVars, entry, monitored,
                 up, blocked, sched, trouble>>

\* run_position_review: it may sell, and what cannot be executed now is
\* deferred.
BrokerReview ==
  /\ pc = "broker"
  /\ job = "RUN_DAILY_POSITION_REVIEW"
  /\ Reconciles
  /\ \/ holding' \in {FALSE, holding} /\ UNCHANGED deferred
     \/ holding /\ deferred' = "SELL" /\ UNCHANGED holding
  /\ \E result \in {"ok", "other"} : Answered(result)
  /\ UNCHANGED <<worldVars, runtimeVars, entry, monitored, queue,
                 up, blocked, sched, trouble>>

\* What a decision may do to the account: liquidate in a risk halt,
\* otherwise sell or hold or, if it may buy, buy now or leave a pending entry
\* for the session.
DecisionExecutes(buys) ==
  \/ holding' \in {FALSE, holding} /\ UNCHANGED entry
  \/ buys /\ risk' # "RISK_HALTED" /\ holding' = TRUE /\ entry' \in {FALSE, entry}
  \/ buys /\ entry' = TRUE /\ UNCHANGED holding

\* A HOLD or a SWITCH that does not fit the position is rejected before the
\* drawdown is looked at (EvaluatesVetoes), and run writes the state of its
\* tiers, never RISK_HALTED, over the one its reconciliation has found.
RejectsMisfit ==
  /\ link /\ ~ foreign
  /\ connected' = TRUE /\ known' = TRUE
  /\ \E d \in Drawdowns : risk' = Gate(TierState(d))
  /\ gateRisk' = risk'
  /\ UNCHANGED <<holding, entry>>

\* Research and decision: the pipeline fails; the order must wait for the
\* broker (deferred, SAFE_MODE) or, a sale, for the market (deferred); or the
\* decision is executed.
BrokerResearch ==
  /\ pc = "broker"
  /\ job \in {"RUN_AI_RESEARCH", "RUN_FULL_AI_RESEARCH"}
  /\ \/ Reconciles /\ Answered("llm") /\ UNCHANGED <<holding, entry, deferred>>
     \/ /\ Reconciles /\ Answered("broker")
        /\ deferred' \in {"BUY"} \cup (IF holding THEN {"SELL"} ELSE {})
        /\ UNCHANGED <<holding, entry>>
     \/ Reconciles /\ holding /\ Answered("ok") /\ deferred' = "SELL" /\ UNCHANGED <<holding, entry>>
     \/ /\ Reconciles /\ DecisionExecutes(TRUE) /\ UNCHANGED deferred
        /\ \E result \in {"ok", "other"} : Answered(result)
     \/ RejectsMisfit /\ Answered("ok") /\ UNCHANGED deferred
  /\ UNCHANGED <<worldVars, runtimeVars, monitored, queue, up, blocked, sched, trouble>>

\* _queue_research_refresh.
ResearchRefresh ==
  queue' = IF \E n \in DOMAIN queue : queue[n] \in {"RUN_AI_RESEARCH", "RUN_FULL_AI_RESEARCH"}
             THEN queue ELSE Append(queue, "RUN_FULL_AI_RESEARCH")

\* process_pending_entries: nothing is pending, or it waits for the session,
\* a review or a requote; its decision expired; it is bought or refused; or
\* anything raised, a failing reconciliation included, and the entry failed.
EntryProcessed ==
  \/ UNCHANGED <<entry, holding, connected, known, riskVars, queue>>
  \/ entry /\ Reconciles /\ UNCHANGED <<entry, holding, queue>>
  \/ /\ entry /\ entry' = FALSE
     /\ ResearchRefresh
     /\ UNCHANGED <<holding, connected, known, riskVars>>
  \/ /\ entry /\ entry' = FALSE
     /\ Reconciles
     /\ holding' \in IF risk' = "RISK_HALTED" THEN {holding} ELSE {holding, TRUE}
     /\ UNCHANGED queue
  \/ /\ entry /\ entry' = FALSE
     /\ \E error \in Errors : ReconcileRaises(error)
     /\ UNCHANGED <<holding, queue>>

\* run_pending_entries up to the deferred intent.
BrokerEntries ==
  /\ pc = "broker"
  /\ job = "RUN_PENDING_ENTRIES"
  /\ EntryProcessed
  /\ IF deferred # NoError THEN Working("DEFERRED_INTENT") ELSE Answered("ok")
  /\ UNCHANGED <<worldVars, runtimeVars, deferred, monitored, up, blocked, sched, trouble>>

\* The deferred intent: the market is closed; it has expired; it is executed
\* or deferred again; or the broker must recover first, or the run raises.
BrokerDeferred ==
  /\ pc = "broker"
  /\ job = "DEFERRED_INTENT"
  /\ \/ Answered("ok") /\ UNCHANGED <<connected, known, riskVars, holding, entry, deferred, queue>>
     \/ /\ Answered("ok") /\ deferred' = NoError /\ ResearchRefresh
        /\ UNCHANGED <<connected, known, riskVars, holding, entry>>
     \/ /\ Answered("ok") /\ Reconciles /\ DecisionExecutes(deferred = "BUY")
        /\ deferred' \in {NoError, deferred}
        /\ UNCHANGED queue
     \/ RejectsMisfit /\ Answered("ok") /\ UNCHANGED <<deferred, queue>>
     \/ /\ Reconciles
        /\ \E result \in {"broker", "other"} : Answered(result)
        /\ UNCHANGED <<holding, entry, deferred, queue>>
  /\ UNCHANGED <<worldVars, runtimeVars, monitored, up, blocked, sched, trouble>>

-----------------------------------------------------------------------------
(* Jobs write the runtime                                                  *)

Done == pc' = "idle" /\ job' = NoError /\ outcome' = NoError /\ checked' = NoError

\* _enter_safe_mode.
EnterSafeMode(error) ==
  /\ service' = "SAFE_MODE" /\ safe' = TRUE /\ trading' = FALSE
  /\ transient' = (error = "transient")

\* trading_enabled as it is computed, the LLM and market flags left open.
TradingFlag(allowed) == trading' \in {FALSE, allowed /\ risk # "RISK_HALTED"}

\* TWS is not there: the worker waits for the login.
WaitForLogin ==
  /\ service' = "WAITING_FOR_TWS_PAPER_LOGIN" /\ safe' = FALSE
  /\ trading' = FALSE /\ transient' = FALSE

\* The runtime after a full reconciliation: only the manual halt is kept.
BackOnline ==
  /\ service' = IF halt THEN "MANUAL_HALT" ELSE "ONLINE"
  /\ safe' = FALSE /\ transient' = FALSE
  /\ TradingFlag(~ halt)

\* The end of start().
SettleStartup ==
  /\ pc = "settle" /\ job = "STARTUP"
  /\ \/ outcome = "ok" /\ BackOnline /\ sched' = ~ halt
     \/ outcome = "login" /\ WaitForLogin /\ UNCHANGED sched
     \/ outcome \notin {"ok", "login"} /\ EnterSafeMode(outcome) /\ UNCHANGED sched
  /\ Done
  /\ UNCHANGED <<worldVars, holding, halt, riskVars, durableVars, queue,
                 up, connected, known, blocked, trouble>>

\* Mutated form of RestartsScheduler: recovery forgets the manual halt.
RestartsAlways == TRUE

RestartsScheduler == ~ halt

\* The end of _recover_ibkr_after_login and of monitor_broker_state.
SettleRecovery ==
  /\ pc = "settle" /\ job = "RECOVERY"
  /\ \/ /\ outcome = "ok"
        /\ BackOnline
        /\ sched' = RestartsScheduler
        /\ Monitor(TRUE, TRUE)
        /\ UNCHANGED <<blocked>>
     \/ /\ outcome = "login"
        /\ WaitForLogin
        /\ Monitor(connected, FALSE)
        /\ UNCHANGED <<sched, blocked>>
     \/ /\ outcome \notin {"ok", "login"}
        /\ EnterSafeMode(outcome)
        /\ blocked' = (blocked \/ outcome # "transient")
        /\ Monitor(connected, FALSE)
        /\ UNCHANGED sched
  /\ Done
  /\ UNCHANGED <<worldVars, holding, halt, riskVars, deferred, entry, up, connected, known, trouble>>

\* run_reconciliation_now: success clears SAFE_MODE and resumes what was
\* deferred; it does not start the scheduler again.
SettleReconciliation ==
  /\ pc = "settle" /\ job = "RUN_RECONCILIATION"
  /\ \/ /\ outcome = "ok"
        /\ BackOnline
        /\ queue' = IF deferred # NoError /\ \A n \in DOMAIN queue : queue[n] # "RUN_PENDING_ENTRIES"
                      THEN Append(queue, "RUN_PENDING_ENTRIES") ELSE queue
        /\ UNCHANGED sched
     \/ outcome # "ok" /\ EnterSafeMode(outcome) /\ sched' = FALSE /\ UNCHANGED queue
  /\ Done
  /\ UNCHANGED <<worldVars, holding, halt, riskVars, durableVars,
                 up, connected, known, blocked, trouble>>

\* A risk check or position monitor that raised enters SAFE_MODE.
SettleRiskCheck ==
  /\ pc = "settle" /\ job \in {"RUN_RISK_CHECK", "RUN_POSITION_MONITOR"}
  /\ IF outcome = "ok"
       THEN UNCHANGED <<service, safe, trading, transient, sched>>
       ELSE EnterSafeMode(outcome) /\ sched' = FALSE
  /\ Done
  /\ UNCHANGED <<worldVars, holding, halt, riskVars, durableVars, queue,
                 up, connected, known, blocked, trouble>>

\* _mark_waiting_for_broker.
MarkWaitingForBroker ==
  /\ EnterSafeMode("transient")
  /\ sched' = FALSE
  /\ monitored' = [monitored EXCEPT !.ready = IF connected /\ known THEN "yes" ELSE "no"]

\* Pending entries and position reviews: errors fail the command only.  The
\* risk check that ran the entries writes the risk state it had seen.
SettleEntries ==
  /\ pc = "settle"
  /\ job \in {"RUN_PENDING_ENTRIES", "DEFERRED_INTENT", "RUN_DAILY_POSITION_REVIEW"}
  /\ IF outcome = "broker"
       THEN MarkWaitingForBroker
       ELSE UNCHANGED <<service, safe, trading, transient, sched, monitored>>
  /\ gateRisk' = IF checked # NoError /\ outcome # "other" THEN checked ELSE gateRisk
  /\ Done
  /\ UNCHANGED <<worldVars, holding, halt, risk, deferred, entry, queue,
                 up, connected, known, blocked, trouble>>

\* run_ai_research_now and run_weekly_cycle.  _fail_closed_llm keeps the
\* scheduler; only the weekly cycle enters SAFE_MODE for other errors and
\* declares the service online.
SettleResearch ==
  /\ pc = "settle" /\ job \in {"RUN_AI_RESEARCH", "RUN_FULL_AI_RESEARCH"}
  /\ LET weekly == job = "RUN_FULL_AI_RESEARCH" IN
     \/ outcome = "broker" /\ MarkWaitingForBroker
     \/ /\ outcome = "llm"
        /\ service' = "ONLINE" /\ safe' = FALSE /\ trading' = FALSE /\ transient' = FALSE
        /\ UNCHANGED <<sched, monitored>>
     \/ /\ weekly /\ outcome = "ok"
        /\ service' = "ONLINE" /\ safe' = FALSE /\ trading' = (risk # "RISK_HALTED")
        /\ UNCHANGED <<transient, sched, monitored>>
     \/ weekly /\ outcome \in Errors /\ EnterSafeMode(outcome) /\ sched' = FALSE /\ UNCHANGED monitored
     \/ /\ ~ weekly /\ outcome \notin {"broker", "llm"}
        /\ UNCHANGED <<service, safe, trading, transient, sched, monitored>>
  /\ Done
  /\ UNCHANGED <<worldVars, holding, halt, riskVars, deferred, entry, queue,
                 up, connected, known, blocked, trouble>>

\* The end of emergency_stop.
SettleEmergencyStop ==
  /\ pc = "settle" /\ job = "EMERGENCY_STOP"
  /\ service' = "MANUAL_HALT" /\ trading' = FALSE
  /\ safe' = (outcome # "ok")
  /\ transient' = IF outcome = "ok" THEN transient ELSE outcome = "transient"
  /\ Done
  /\ UNCHANGED <<worldVars, holding, halt, riskVars, durableVars, queue, sched,
                 up, connected, known, blocked, trouble>>

\* The end of resume_manual_halt.
SettleResume ==
  /\ pc = "settle" /\ job = "RESUME_MANUAL_HALT"
  /\ IF outcome = "ok" /\ risk # "RISK_HALTED"
       THEN /\ halt' = FALSE /\ sched' = TRUE
            /\ service' = "ONLINE" /\ trading' \in BOOLEAN
       ELSE UNCHANGED <<halt, sched, service, trading>> \* the command fails
  /\ Done
  /\ UNCHANGED <<worldVars, holding, safe, riskVars, transient, durableVars, queue,
                 up, connected, known, blocked, trouble>>

-----------------------------------------------------------------------------
(* TWS, the account, the dashboard, the scheduler, the operating system     *)

\* _handle_app_error of a connectivity loss (1100) and of its end (1101, 1102),
\* on the API thread of a connected executor.
Callback(restored) ==
  /\ connected' = FALSE /\ known' = FALSE
  /\ service' = IF restored THEN "RECONNECTING" ELSE "SAFE_MODE"
  /\ safe' = ~ restored
  /\ trading' = FALSE /\ transient' = FALSE
  /\ UNCHANGED <<halt, up, blocked, sched>>

\* TWS loses the servers, or is logged out; a connected executor is told.
LinkDrops ==
  /\ link /\ trouble < MaxTrouble
  /\ link' = FALSE /\ trouble' = trouble + 1
  /\ IF up /\ connected THEN Callback(FALSE) ELSE UNCHANGED <<runtimeVars, processVars>>
  /\ UNCHANGED <<foreign, holding, riskVars, durableVars, queue, workerVars>>

\* It comes back; the API connection that was never closed may be told.
LinkReturns ==
  /\ ~ link
  /\ link' = TRUE
  /\ (up /\ Callback(TRUE)) \/ UNCHANGED <<runtimeVars, processVars>>
  /\ UNCHANGED <<foreign, holding, riskVars, durableVars, queue, workerVars, trouble>>

\* Another client places an order, or it is done.
ForeignOrder ==
  /\ foreign \/ trouble < MaxTrouble
  /\ foreign' = ~ foreign
  /\ trouble' = IF foreign THEN trouble ELSE trouble + 1
  /\ UNCHANGED <<link, holding, runtimeVars, riskVars, durableVars, queue, processVars,
                 workerVars>>

\* The dashboard queues at any time, the scheduler when its thread runs; the
\* entry callback when something is pending, the position callback when a
\* position is managed.
Queues(name) ==
  /\ Len(queue) < MaxQueue
  /\ \/ name \in OperatorCommands
     \/ /\ name \in SchedulerCommands /\ sched
        /\ name = "RUN_PENDING_ENTRIES" => entry \/ deferred # NoError
        /\ name = "RUN_POSITION_MONITOR" => holding
  /\ queue' = Append(queue, name)
  /\ UNCHANGED <<worldVars, holding, runtimeVars, riskVars, durableVars, processVars, workerVars,
                 trouble>>

\* The process ends at any point; the database stays.
Crash ==
  /\ up /\ trouble < MaxTrouble
  /\ up' = FALSE /\ connected' = FALSE /\ known' = FALSE /\ blocked' = FALSE /\ sched' = FALSE
  /\ Done
  /\ trouble' = trouble + 1
  /\ UNCHANGED <<worldVars, holding, runtimeVars, riskVars, durableVars, queue>>

BrokerStep ==
  \/ BrokerReconciles \/ BrokerRaises \/ BrokerSells \/ BrokerRiskCheck \/ BrokerMonitor
  \/ BrokerReview \/ BrokerResearch \/ BrokerEntries \/ BrokerDeferred

SettleStep ==
  \/ SettleStartup \/ SettleRecovery \/ SettleReconciliation \/ SettleRiskCheck
  \/ SettleEntries \/ SettleResearch \/ SettleEmergencyStop \/ SettleResume

TakeStep == RefuseCommand \/ SchedulerCommand \/ BeginEmergencyStop \/ BeginCommand

Next ==
  \/ BeginStartup \/ BeginRecovery \/ Heartbeat
  \/ TakeStep \/ BrokerStep \/ SettleStep
  \/ LinkDrops \/ LinkReturns \/ ForeignOrder \/ Crash
  \/ \E name \in Commands : Queues(name)

Spec == Init /\ [][Next]_vars

-----------------------------------------------------------------------------
(* Properties                                                              *)

ResearchJobs == {"RUN_AI_RESEARCH", "RUN_FULL_AI_RESEARCH"}

\* A manual halt holds whatever the recovery of the broker, a restart, the
\* operator's other commands and the risk checks do: the scheduler is not
\* running, and between jobs nothing reads that the service trades.
HaltIsEnforced ==
  halt /\ up => ~ sched /\ (pc = "idle" => ~ trading /\ service # "ONLINE")

\* The AI transaction cycle never buys in a manual halt.
ResearchRespectsHalt ==
  [][~ holding /\ holding' /\ job \in ResearchJobs => ~ halt]_vars

\* Emergency Stop "never resumes automatically" (README): no position is
\* opened while the manual halt stands.
NoBuyWhileHalted ==
  [][~ holding /\ holding' => ~ halt]_vars

=============================================================================
