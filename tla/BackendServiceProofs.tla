----------------------- MODULE BackendServiceProofs -----------------------
(* The service and the queue of commands it empties.                       *)
(*                                                                         *)
(* A manual halt is enforced in every instance of BackendService: any set  *)
(* of commands, any queue length, any number of drops and restarts.  And   *)
(* no configuration lets an answer of the risk engine relax a limit.       *)
(*                                                                         *)
(* HaltIsEnforced is not inductive: a job that began before the halt might *)
(* declare the service online when it settles.  HaltInv adds that the jobs *)
(* which do so are not running in a halt, that only EMERGENCY_STOP and     *)
(* STARTUP may run before the runtime shows the halt, and that a process   *)
(* that is down has no scheduler and no job to come back with.             *)
(*                                                                         *)
(* The command table is proved about in the last part, for every number of *)
(* rows, workers and names.                                                *)
EXTENDS CommandQueue, BackendService, TLAPS

HaltInv ==
  /\ ~ up => ~ sched /\ pc = "idle"
  /\ halt => ~ sched
  /\ halt /\ up /\ job \notin {"EMERGENCY_STOP", "STARTUP"} => ~ trading /\ service # "ONLINE"
  /\ job \in ResearchJobs => ~ halt
  /\ pc = "idle" => job = NoError

\* A job that only talks with the broker touches neither the gates nor the
\* scheduler, and goes on, if at all, with entries and the deferred intent.
Untouched ==
  /\ UNCHANGED <<halt, up, sched, trading, service>>
  /\ pc # "idle" /\ pc' # "idle"
  /\ job' = job \/ (job \notin {"EMERGENCY_STOP", "STARTUP"} /\ job' \notin ResearchJobs)

LEMMA UntouchedKeeps == HaltInv /\ Untouched => HaltInv'
BY DEF HaltInv, Untouched, ResearchJobs, NoError

\* Every broker step leaves the gates as they are.
LEMMA BrokerUntouched == BrokerStep => Untouched
<1> SUFFICES ASSUME BrokerStep PROVE Untouched
  OBVIOUS
<1>1. CASE BrokerReconciles
  BY <1>1 DEF BrokerReconciles, Answered, Untouched, runtimeVars
<1>2. CASE BrokerRaises
  <2>1. PICK error \in Errors : ReconcileRaises(error) /\ Answered(error)
    BY <1>2 DEF BrokerRaises
  <2> QED BY <1>2, <2>1 DEF BrokerRaises, Answered, Untouched, runtimeVars
<1>3. CASE BrokerSells
  <2>1. PICK result \in {"ok", "other"} : Answered(result)
    BY <1>3 DEF BrokerSells
  <2> QED BY <1>3, <2>1 DEF BrokerSells, Answered, Untouched, runtimeVars
<1>4. CASE BrokerRiskCheck
  BY <1>4 DEF BrokerRiskCheck, Answered, Untouched, runtimeVars, ResearchJobs
<1>5. CASE BrokerMonitor
  <2>1. PICK result \in {"ok", "other"} : Answered(result)
    BY <1>5 DEF BrokerMonitor
  <2> QED BY <1>5, <2>1 DEF BrokerMonitor, Answered, Untouched, runtimeVars
<1>6. CASE BrokerReview
  <2>1. PICK result \in {"ok", "other"} : Answered(result)
    BY <1>6 DEF BrokerReview
  <2> QED BY <1>6, <2>1 DEF BrokerReview, Answered, Untouched, runtimeVars
<1>7. CASE BrokerResearch
  <2>1. \E result : Answered(result)
    BY <1>7 DEF BrokerResearch
  <2>2. PICK result : Answered(result)
    BY <2>1
  <2> QED BY <1>7, <2>2 DEF BrokerResearch, Answered, Untouched, runtimeVars
<1>8. CASE BrokerEntries
  BY <1>8 DEF BrokerEntries, Answered, Working, Untouched, runtimeVars, ResearchJobs
<1>9. CASE BrokerDeferred
  <2>1. \E result : Answered(result)
    BY <1>9 DEF BrokerDeferred
  <2>2. PICK result : Answered(result)
    BY <2>1
  <2> QED BY <1>9, <2>2 DEF BrokerDeferred, Answered, Untouched, runtimeVars
<1> QED
  BY <1>1, <1>2, <1>3, <1>4, <1>5, <1>6, <1>7, <1>8, <1>9 DEF BrokerStep

\* The jobs that settle without declaring the service online.
LEMMA SettleKeeps ==
  ASSUME HaltInv, SettleStep
  PROVE  HaltInv'
<1> USE DEF HaltInv, Done, NoError, ResearchJobs
<1>1. CASE SettleStartup
  <2>1. halt' = halt /\ up' = up /\ job' = NoError
    BY <1>1 DEF SettleStartup
  <2>2. halt => ~ sched' /\ ~ trading' /\ service' # "ONLINE"
    BY <1>1 DEF SettleStartup, BackOnline, WaitForLogin, TradingFlag, EnterSafeMode
  <2>3. up
    BY <1>1 DEF SettleStartup
  <2> QED BY <2>1, <2>2, <2>3
<1>2. CASE SettleRecovery
  <2>1. halt' = halt /\ up' = up /\ job' = NoError
    BY <1>2 DEF SettleRecovery
  <2>2. halt => ~ sched' /\ ~ trading' /\ service' # "ONLINE"
    BY <1>2 DEF SettleRecovery, BackOnline, WaitForLogin, TradingFlag, EnterSafeMode,
       RestartsScheduler
  <2>3. up
    BY <1>2 DEF SettleRecovery
  <2> QED BY <2>1, <2>2, <2>3
<1>3. CASE SettleReconciliation
  <2>1. halt' = halt /\ up' = up /\ job' = NoError
    BY <1>3 DEF SettleReconciliation
  <2>2. halt => ~ trading' /\ service' # "ONLINE"
    BY <1>3 DEF SettleReconciliation, BackOnline, TradingFlag, EnterSafeMode
  <2>3. up /\ (sched' = sched \/ ~ sched')
    BY <1>3 DEF SettleReconciliation
  <2> QED BY <2>1, <2>2, <2>3
<1>4. CASE SettleRiskCheck
  BY <1>4 DEF SettleRiskCheck, EnterSafeMode
<1>5. CASE SettleEntries
  BY <1>5 DEF SettleEntries, MarkWaitingForBroker, EnterSafeMode
<1>6. CASE SettleResearch
  <2>1. ~ halt /\ halt' = halt /\ up' = up /\ job' = NoError
    BY <1>6 DEF SettleResearch
  <2>2. up /\ (sched' = sched \/ ~ sched')
    BY <1>6 DEF SettleResearch, MarkWaitingForBroker, EnterSafeMode
  <2> QED BY <2>1, <2>2
<1>7. CASE SettleEmergencyStop
  BY <1>7 DEF SettleEmergencyStop
<1>8. CASE SettleResume
  BY <1>8 DEF SettleResume
<1> QED
  BY <1>1, <1>2, <1>3, <1>4, <1>5, <1>6, <1>7, <1>8 DEF SettleStep

\* What the service does first in a job, and the commands it refuses or
\* carries out at once.
LEMMA BeginKeeps ==
  ASSUME HaltInv, BeginStartup \/ BeginRecovery \/ Heartbeat \/ TakeStep
  PROVE  HaltInv'
<1> USE DEF HaltInv, Working, NoError, ResearchJobs
<1>1. CASE BeginStartup
  BY <1>1 DEF BeginStartup
<1>2. CASE BeginRecovery
  BY <1>2 DEF BeginRecovery
<1>3. CASE Heartbeat
  BY <1>3 DEF Heartbeat, runtimeVars, processVars, workerVars
<1>4. CASE RefuseCommand
  BY <1>4 DEF RefuseCommand, runtimeVars, processVars, workerVars
<1>5. CASE SchedulerCommand
  <2>1. halt' = halt /\ up' = up /\ up /\ job' = job /\ pc' = pc
    BY <1>5 DEF SchedulerCommand, TakeCommand, workerVars
  <2>2. \/ ~ halt
        \/ ~ sched' /\ service' = service /\ trading' = trading
    BY <1>5 DEF SchedulerCommand, Guard, MayStartScheduler
  <2> QED BY <2>1, <2>2
<1>6. CASE BeginEmergencyStop
  BY <1>6 DEF BeginEmergencyStop, TakeCommand
<1>7. CASE BeginCommand
  BY <1>7 DEF BeginCommand, TakeCommand, Guard, TransactionAllowed, runtimeVars, processVars
<1> QED
  BY <1>1, <1>2, <1>3, <1>4, <1>5, <1>6, <1>7 DEF TakeStep

\* The surroundings: TWS, the account, the queue, and a crash.
LEMMA WorldKeeps ==
  ASSUME HaltInv,
         \/ LinkDrops \/ LinkReturns \/ ForeignOrder \/ Crash
         \/ \E c \in Commands : Queues(c)
  PROVE  HaltInv'
<1> USE DEF HaltInv, NoError, ResearchJobs, runtimeVars, processVars, workerVars
<1>1. CASE LinkDrops
  BY <1>1 DEF LinkDrops, Callback
<1>2. CASE LinkReturns
  BY <1>2 DEF LinkReturns, Callback
<1>3. CASE ForeignOrder
  BY <1>3 DEF ForeignOrder
<1>4. CASE Crash
  BY <1>4 DEF Crash, Done
<1>5. CASE \E c \in Commands : Queues(c)
  <2>1. PICK c \in Commands : Queues(c)
    BY <1>5
  <2> QED BY <2>1 DEF Queues
<1> QED
  BY <1>1, <1>2, <1>3, <1>4, <1>5

LEMMA HaltInductive ==
  ASSUME HaltInv, [Next]_vars
  PROVE  HaltInv'
<1>1. CASE BeginStartup \/ BeginRecovery \/ Heartbeat \/ TakeStep
  BY <1>1, BeginKeeps
<1>2. CASE BrokerStep
  BY <1>2, BrokerUntouched, UntouchedKeeps
<1>3. CASE SettleStep
  BY <1>3, SettleKeeps
<1>4. CASE \/ LinkDrops \/ LinkReturns \/ ForeignOrder \/ Crash
           \/ \E c \in Commands : Queues(c)
  BY <1>4, WorldKeeps
<1>5. CASE UNCHANGED vars
  BY <1>5 DEF HaltInv, vars, runtimeVars, processVars, workerVars
<1> QED
  BY <1>1, <1>2, <1>3, <1>4, <1>5 DEF Next

LEMMA InitHalt == Init => HaltInv
BY DEF Init, HaltInv, ResearchJobs, NoError

\* A manual halt keeps the scheduler stopped and the service from reading
\* ONLINE or trading, until RESUME_MANUAL_HALT: neither recovery, nor a
\* restart, nor another command of service.py undoes it.
THEOREM HaltHolds == Spec => []HaltIsEnforced
<1>1. HaltInv => HaltIsEnforced
  BY DEF HaltInv, HaltIsEnforced, NoError
<1> QED
  BY <1>1, InitHalt, HaltInductive, PTL DEF Spec

\* The AI transaction cycle never buys in a manual halt.
THEOREM HaltedCyclesBuyNothing == Spec => ResearchRespectsHalt
<1>1. HaltInv => (~ holding /\ holding' /\ job \in ResearchJobs => ~ halt)
  BY DEF HaltInv
<1>2. ASSUME HaltInv, [Next]_vars
      PROVE  [~ holding /\ holding' /\ job \in ResearchJobs => ~ halt]_vars
  BY <1>1, <1>2
<1> QED
  BY <1>2, InitHalt, HaltInductive, PTL DEF Spec, ResearchRespectsHalt

-----------------------------------------------------------------------------
(* Types of the service.                                                    *)

LEMMA QueueGrows ==
  ASSUME queue \in Seq(Commands), NEW c \in Commands
  PROVE  Append(queue, c) \in Seq(Commands)
OBVIOUS

LEMMA MonitorTypes ==
  ASSUME queue \in Seq(Commands), NEW isConnected \in BOOLEAN, NEW isReady \in BOOLEAN,
         Monitor(isConnected, isReady)
  PROVE  /\ queue' \in Seq(Commands)
         /\ monitored' \in [connected : BOOLEAN, ready : {"unset", "no", "yes"}]
<1>1. "RUN_RISK_CHECK" \in Commands /\ "RUN_PENDING_ENTRIES" \in Commands
  BY DEF Commands, OperatorNames, SchedulerNames
<1>2. \A s, t \in Seq(Commands) : queue \o s \o t \in Seq(Commands)
  OBVIOUS
<1>3. <<>> \in Seq(Commands) /\ <<"RUN_RISK_CHECK">> \in Seq(Commands)
      /\ <<"RUN_PENDING_ENTRIES">> \in Seq(Commands)
  BY <1>1
<1>4. PICK s \in Seq(Commands), t \in Seq(Commands) : queue' = queue \o s \o t
  BY <1>3 DEF Monitor
<1> QED BY <1>2, <1>4 DEF Monitor

LEMMA GateTypes == \A state : Gate(state) \in GateStates
BY DEF Gate, GateStates

LEMMA ReconcilesTypes ==
  ASSUME Reconciles \/ RejectsMisfit
  PROVE  connected' \in BOOLEAN /\ known' \in BOOLEAN /\ risk' \in GateStates /\ gateRisk' \in GateStates
BY GateTypes DEF Reconciles, RejectsMisfit

LEMMA ReconcileRaisesTypes ==
  ASSUME TypeOK, NEW error, ReconcileRaises(error)
  PROVE  connected' \in BOOLEAN /\ known' \in BOOLEAN /\ risk' \in GateStates /\ gateRisk' \in GateStates
BY DEF TypeOK, ReconcileRaises, riskVars

LEMMA RefreshTypes ==
  ASSUME queue \in Seq(Commands), ResearchRefresh
  PROVE  queue' \in Seq(Commands)
<1>1. "RUN_FULL_AI_RESEARCH" \in Commands BY DEF Commands, SchedulerNames
<1> QED BY <1>1 DEF ResearchRefresh

\* What a broker step may do to the variables it touches.
Talked ==
  /\ holding' \in BOOLEAN /\ risk' \in GateStates /\ gateRisk' \in GateStates
  /\ checked' \in GateStates \cup {NoError} /\ deferred' \in {NoError, "BUY", "SELL"}
  /\ entry' \in BOOLEAN /\ queue' \in Seq(Commands)
  /\ connected' \in BOOLEAN /\ known' \in BOOLEAN
  /\ pc' \in {"broker", "settle"} /\ job' \in Jobs
  /\ outcome' \in Errors \cup {NoError, "ok", "llm", "broker"}
  /\ UNCHANGED <<worldVars, runtimeVars, monitored, up, blocked, sched, trouble>>

LEMMA AnsweredTypes ==
  ASSUME TypeOK, pc = "broker", NEW result \in Errors \cup {"ok", "llm", "broker"}, Answered(result)
  PROVE  /\ checked' \in GateStates \cup {NoError} /\ pc' \in {"broker", "settle"} /\ job' \in Jobs
         /\ outcome' \in Errors \cup {NoError, "ok", "llm", "broker"}
<1>1. job \in Jobs BY DEF TypeOK
<1> QED BY <1>1 DEF Answered, TypeOK

LEMMA WorkingTypes ==
  ASSUME TypeOK, NEW c \in Jobs, Working(c)
  PROVE  /\ checked' \in GateStates \cup {NoError} /\ pc' \in {"broker", "settle"} /\ job' \in Jobs
         /\ outcome' \in Errors \cup {NoError, "ok", "llm", "broker"}
BY DEF Working, TypeOK

LEMMA TalkedTypes ==
  ASSUME TypeOK, pc = "broker", Talked
  PROVE  TypeOK'
<1>1. up BY DEF TypeOK
<1>2. NoError \notin Jobs
  BY DEF NoError, Jobs, Commands, OperatorNames, SchedulerNames
<1> QED BY <1>1, <1>2 DEF TypeOK, Talked, worldVars, runtimeVars

LEMMA DecisionTypes ==
  ASSUME TypeOK, NEW buys \in BOOLEAN, DecisionExecutes(buys)
  PROVE  holding' \in BOOLEAN /\ entry' \in BOOLEAN
BY DEF TypeOK, DecisionExecutes

LEMMA BrokerTypes ==
  ASSUME TypeOK, BrokerStep
  PROVE  TypeOK'
<1>0. /\ holding \in BOOLEAN /\ entry \in BOOLEAN /\ queue \in Seq(Commands)
      /\ deferred \in {NoError, "BUY", "SELL"} /\ risk \in GateStates /\ gateRisk \in GateStates
      /\ connected \in BOOLEAN /\ known \in BOOLEAN
  BY DEF TypeOK
<1>1. CASE BrokerReconciles
  <2>1. pc = "broker" /\ Reconciles /\ Answered("ok") BY <1>1 DEF BrokerReconciles
  <2>2. Talked
    BY <1>0, <1>1, <2>1, ReconcilesTypes, AnsweredTypes DEF BrokerReconciles, Talked, durableVars
  <2> QED BY <2>1, <2>2, TalkedTypes
<1>2. CASE BrokerRaises
  <2>1. PICK error \in Errors : ReconcileRaises(error) /\ Answered(error) BY <1>2 DEF BrokerRaises
  <2>2. pc = "broker" BY <1>2 DEF BrokerRaises
  <2>3. Talked
    BY <1>0, <1>2, <2>1, <2>2, ReconcileRaisesTypes, AnsweredTypes DEF BrokerRaises, Talked, durableVars
  <2> QED BY <2>2, <2>3, TalkedTypes
<1>3. CASE BrokerSells
  <2>1. PICK result \in {"ok", "other"} : Answered(result) BY <1>3 DEF BrokerSells
  <2>2. pc = "broker" /\ Reconciles BY <1>3 DEF BrokerSells
  <2>3. Talked
    BY <1>0, <1>3, <2>1, <2>2, ReconcilesTypes, AnsweredTypes
    DEF BrokerSells, Talked, durableVars, Errors
  <2> QED BY <2>2, <2>3, TalkedTypes
<1>4. CASE BrokerRiskCheck
  <2>1. pc = "broker" /\ Reconciles BY <1>4 DEF BrokerRiskCheck
  <2>2. risk' \in GateStates /\ gateRisk' \in GateStates /\ connected' \in BOOLEAN /\ known' \in BOOLEAN
    BY <2>1, ReconcilesTypes
  <2>3. /\ checked' \in GateStates \cup {NoError} /\ pc' \in {"broker", "settle"} /\ job' \in Jobs
        /\ outcome' \in Errors \cup {NoError, "ok", "llm", "broker"}
    <3>1. CASE Answered("other") BY <2>1, <3>1, AnsweredTypes DEF Errors
    <3>2. CASE pc' = "broker" /\ job' = "RUN_PENDING_ENTRIES" /\ checked' = risk' /\ UNCHANGED outcome
      BY <2>2, <3>2 DEF TypeOK, Jobs, Commands, SchedulerNames
    <3> QED BY <1>4, <3>1, <3>2 DEF BrokerRiskCheck
  <2>4. Talked
    BY <1>0, <1>4, <2>2, <2>3 DEF BrokerRiskCheck, Talked, durableVars
  <2> QED BY <2>1, <2>4, TalkedTypes
<1>5. CASE BrokerMonitor
  <2>1. PICK result \in {"ok", "other"} : Answered(result) BY <1>5 DEF BrokerMonitor
  <2>2. pc = "broker" /\ Reconciles BY <1>5 DEF BrokerMonitor
  <2>3. "RUN_DAILY_POSITION_REVIEW" \in Commands BY DEF Commands, SchedulerNames
  <2>4. Talked
    BY <1>0, <1>5, <2>1, <2>2, <2>3, ReconcilesTypes, AnsweredTypes, QueueGrows
    DEF BrokerMonitor, Talked, Errors
  <2> QED BY <2>2, <2>4, TalkedTypes
<1>6. CASE BrokerReview
  <2>1. PICK result \in {"ok", "other"} : Answered(result) BY <1>6 DEF BrokerReview
  <2>2. pc = "broker" /\ Reconciles BY <1>6 DEF BrokerReview
  <2>3. Talked
    BY <1>0, <1>6, <2>1, <2>2, ReconcilesTypes, AnsweredTypes DEF BrokerReview, Talked, Errors
  <2> QED BY <2>2, <2>3, TalkedTypes
<1>7. CASE BrokerResearch
  <2>1. PICK result \in {"ok", "other", "llm", "broker"} : Answered(result) BY <1>7 DEF BrokerResearch
  <2>2. pc = "broker" /\ (Reconciles \/ RejectsMisfit) BY <1>7 DEF BrokerResearch
  <2>3. holding' \in BOOLEAN /\ entry' \in BOOLEAN
    BY <1>0, <1>7, DecisionTypes DEF BrokerResearch, RejectsMisfit
  <2>4. deferred' \in {NoError, "BUY", "SELL"}
    BY <1>0, <1>7 DEF BrokerResearch
  <2>5. Talked
    BY <1>0, <1>7, <2>1, <2>2, <2>3, <2>4, ReconcilesTypes, AnsweredTypes
    DEF BrokerResearch, Talked, Errors
  <2> QED BY <2>2, <2>5, TalkedTypes
<1>8. CASE BrokerEntries
  <2>1. pc = "broker" BY <1>8 DEF BrokerEntries
  <2>2. /\ checked' \in GateStates \cup {NoError} /\ pc' \in {"broker", "settle"} /\ job' \in Jobs
        /\ outcome' \in Errors \cup {NoError, "ok", "llm", "broker"}
    <3>1. "DEFERRED_INTENT" \in Jobs BY DEF Jobs
    <3> QED BY <1>8, <2>1, <3>1, AnsweredTypes, WorkingTypes DEF BrokerEntries
  <2>3. /\ holding' \in BOOLEAN /\ entry' \in BOOLEAN /\ queue' \in Seq(Commands)
        /\ risk' \in GateStates /\ gateRisk' \in GateStates /\ connected' \in BOOLEAN /\ known' \in BOOLEAN
    <3>1. EntryProcessed BY <1>8 DEF BrokerEntries
    <3>2. CASE UNCHANGED <<entry, holding, connected, known, riskVars, queue>>
      BY <1>0, <3>2 DEF riskVars
    <3>3. CASE Reconciles /\ UNCHANGED <<entry, holding, queue>>
      BY <1>0, <3>3, ReconcilesTypes
    <3>4. CASE entry' = FALSE /\ ResearchRefresh /\ UNCHANGED <<holding, connected, known, riskVars>>
      BY <1>0, <3>4, RefreshTypes DEF riskVars
    <3>5. CASE /\ entry' = FALSE /\ Reconciles /\ UNCHANGED queue
               /\ holding' \in IF risk' = "RISK_HALTED" THEN {holding} ELSE {holding, TRUE}
      BY <1>0, <3>5, ReconcilesTypes
    <3>6. CASE entry' = FALSE /\ (\E error \in Errors : ReconcileRaises(error)) /\ UNCHANGED <<holding, queue>>
      BY <1>0, <3>6, ReconcileRaisesTypes
    <3> QED BY <3>1, <3>2, <3>3, <3>4, <3>5, <3>6 DEF EntryProcessed
  <2>4. Talked
    BY <1>0, <1>8, <2>2, <2>3 DEF BrokerEntries, Talked
  <2> QED BY <2>1, <2>4, TalkedTypes
<1>9. CASE BrokerDeferred
  <2>1. PICK result \in {"ok", "other", "broker"} : Answered(result) BY <1>9 DEF BrokerDeferred
  <2>2. pc = "broker" BY <1>9 DEF BrokerDeferred
  <2>3. /\ risk' \in GateStates /\ gateRisk' \in GateStates /\ connected' \in BOOLEAN /\ known' \in BOOLEAN
    BY <1>0, <1>9, ReconcilesTypes DEF BrokerDeferred, riskVars
  <2>4. holding' \in BOOLEAN /\ entry' \in BOOLEAN
    BY <1>0, <1>9, DecisionTypes DEF BrokerDeferred, RejectsMisfit
  <2>5. deferred' \in {NoError, "BUY", "SELL"} /\ queue' \in Seq(Commands)
    BY <1>0, <1>9, RefreshTypes DEF BrokerDeferred
  <2>6. Talked
    BY <1>0, <1>9, <2>1, <2>2, <2>3, <2>4, <2>5, AnsweredTypes DEF BrokerDeferred, Talked, Errors
  <2> QED BY <2>2, <2>6, TalkedTypes
<1> QED
  BY <1>1, <1>2, <1>3, <1>4, <1>5, <1>6, <1>7, <1>8, <1>9 DEF BrokerStep

\* What the end of a job writes.
Settled ==
  /\ service' \in Services /\ safe' \in BOOLEAN /\ trading' \in BOOLEAN /\ halt' \in BOOLEAN
  /\ transient' \in BOOLEAN /\ risk' = risk /\ gateRisk' \in GateStates
  /\ monitored' \in [connected : BOOLEAN, ready : {"unset", "no", "yes"}]
  /\ queue' \in Seq(Commands) /\ blocked' \in BOOLEAN /\ sched' \in BOOLEAN
  /\ Done
  /\ UNCHANGED <<worldVars, holding, deferred, entry, up, connected, known, trouble>>

LEMMA SettledTypes ==
  ASSUME TypeOK, pc = "settle", Settled
  PROVE  TypeOK'
<1>1. up BY DEF TypeOK
<1> QED BY <1>1 DEF TypeOK, Settled, Done, worldVars

LEMMA RuntimeTypes ==
  ASSUME TypeOK
  PROVE  /\ \A error : EnterSafeMode(error)
              => service' \in Services /\ safe' \in BOOLEAN /\ trading' \in BOOLEAN /\ transient' \in BOOLEAN
         /\ BackOnline \/ WaitForLogin
              => service' \in Services /\ safe' \in BOOLEAN /\ trading' \in BOOLEAN /\ transient' \in BOOLEAN
BY DEF EnterSafeMode, BackOnline, TradingFlag, WaitForLogin, Services, TypeOK

LEMMA WaitingTypes ==
  ASSUME TypeOK, MarkWaitingForBroker
  PROVE  /\ service' \in Services /\ safe' \in BOOLEAN /\ trading' \in BOOLEAN /\ transient' \in BOOLEAN
         /\ sched' \in BOOLEAN
         /\ monitored' \in [connected : BOOLEAN, ready : {"unset", "no", "yes"}]
BY RuntimeTypes DEF MarkWaitingForBroker, TypeOK

LEMMA SettleTypes ==
  ASSUME TypeOK, SettleStep
  PROVE  TypeOK'
<1>0. /\ service \in Services /\ safe \in BOOLEAN /\ trading \in BOOLEAN /\ halt \in BOOLEAN
      /\ transient \in BOOLEAN /\ gateRisk \in GateStates /\ checked \in GateStates \cup {NoError}
      /\ monitored \in [connected : BOOLEAN, ready : {"unset", "no", "yes"}]
      /\ queue \in Seq(Commands) /\ blocked \in BOOLEAN /\ sched \in BOOLEAN /\ connected \in BOOLEAN
  BY DEF TypeOK
<1> USE DEF riskVars, durableVars, Settled
<1>1. CASE SettleStartup
  <2>1. pc = "settle" /\ Settled
    BY <1>0, <1>1, RuntimeTypes DEF SettleStartup
  <2> QED BY <2>1, SettledTypes
<1>2. CASE SettleRecovery
  <2>1. /\ queue' \in Seq(Commands)
        /\ monitored' \in [connected : BOOLEAN, ready : {"unset", "no", "yes"}]
    BY <1>0, <1>2, MonitorTypes DEF SettleRecovery
  <2>2. service' \in Services /\ safe' \in BOOLEAN /\ trading' \in BOOLEAN /\ transient' \in BOOLEAN
    BY <1>2, RuntimeTypes DEF SettleRecovery
  <2>3. sched' \in BOOLEAN /\ blocked' \in BOOLEAN
    BY <1>0, <1>2 DEF SettleRecovery, RestartsScheduler
  <2>4. pc = "settle" /\ Settled
    BY <1>0, <1>2, <2>1, <2>2, <2>3 DEF SettleRecovery
  <2> QED BY <2>4, SettledTypes
<1>3. CASE SettleReconciliation
  <2>1. queue' \in Seq(Commands)
    <3>1. "RUN_PENDING_ENTRIES" \in Commands BY DEF Commands, SchedulerNames
    <3> QED BY <1>0, <1>3, <3>1, QueueGrows DEF SettleReconciliation
  <2>2. pc = "settle" /\ Settled
    BY <1>0, <1>3, <2>1, RuntimeTypes DEF SettleReconciliation
  <2> QED BY <2>2, SettledTypes
<1>4. CASE SettleRiskCheck
  <2>1. pc = "settle" /\ Settled
    BY <1>0, <1>4, RuntimeTypes DEF SettleRiskCheck
  <2> QED BY <2>1, SettledTypes
<1>5. CASE SettleEntries
  <2>1. pc = "settle" /\ Settled
    BY <1>0, <1>5, WaitingTypes DEF SettleEntries
  <2> QED BY <2>1, SettledTypes
<1>6. CASE SettleResearch
  <2>1. pc = "settle" /\ Settled
    BY <1>0, <1>6, RuntimeTypes, WaitingTypes DEF SettleResearch, Services
  <2> QED BY <2>1, SettledTypes
<1>7. CASE SettleEmergencyStop
  <2>1. pc = "settle" /\ Settled
    BY <1>0, <1>7 DEF SettleEmergencyStop, Services
  <2> QED BY <2>1, SettledTypes
<1>8. CASE SettleResume
  <2>1. pc = "settle" /\ Settled
    BY <1>0, <1>8 DEF SettleResume, Services
  <2> QED BY <2>1, SettledTypes
<1> QED
  BY <1>1, <1>2, <1>3, <1>4, <1>5, <1>6, <1>7, <1>8 DEF SettleStep

\* TypeOK in two parts: the world with the tables, and the process.
TablesTyped ==
  /\ link \in BOOLEAN /\ foreign \in BOOLEAN /\ holding \in BOOLEAN
  /\ service \in Services /\ safe \in BOOLEAN /\ trading \in BOOLEAN /\ halt \in BOOLEAN
  /\ risk \in GateStates /\ gateRisk \in GateStates /\ transient \in BOOLEAN
  /\ deferred \in {NoError, "BUY", "SELL"} /\ entry \in BOOLEAN
  /\ monitored \in [connected : BOOLEAN, ready : {"unset", "no", "yes"}]
  /\ queue \in Seq(Commands)

ProcessTyped ==
  /\ checked \in GateStates \cup {NoError}
  /\ up \in BOOLEAN /\ connected \in BOOLEAN /\ known \in BOOLEAN
  /\ blocked \in BOOLEAN /\ sched \in BOOLEAN
  /\ pc \in {"idle", "broker", "settle"}
  /\ job \in Jobs \cup {NoError} /\ (job = NoError <=> pc = "idle")
  /\ outcome \in Errors \cup {NoError, "ok", "llm", "broker"}
  /\ ~ up => pc = "idle" /\ ~ connected /\ ~ known /\ ~ sched
  /\ trouble \in Nat

LEMMA TypeParts ==
  /\ TypeOK  <=> TablesTyped /\ ProcessTyped
  /\ TypeOK' <=> TablesTyped' /\ ProcessTyped'
BY DEF TypeOK, TablesTyped, ProcessTyped

LEMMA BeginTypes ==
  ASSUME TypeOK, BeginStartup \/ BeginRecovery \/ Heartbeat \/ TakeStep
  PROVE  TypeOK'
<1>0. queue \in Seq(Commands) /\ connected \in BOOLEAN /\ known \in BOOLEAN BY DEF TypeOK
<1>1. NoError \notin Jobs
  BY DEF NoError, Jobs, Commands, OperatorNames, SchedulerNames
<1>2. TakeCommand => queue' \in Seq(Commands) /\ Head(queue) \in Commands /\ up /\ pc = "idle"
  BY <1>0 DEF TakeCommand
<1>3. TablesTyped /\ ProcessTyped BY TypeParts
<1>4. CASE BeginStartup
  <2>1. TablesTyped' BY <1>3, <1>4 DEF BeginStartup, TablesTyped, Services, worldVars, riskVars, durableVars
  <2>2. ProcessTyped' BY <1>1, <1>3, <1>4 DEF BeginStartup, Working, ProcessTyped, Jobs
  <2> QED BY <2>1, <2>2, TypeParts
<1>5. CASE BeginRecovery
  <2>1. TablesTyped' BY <1>3, <1>5 DEF BeginRecovery, TablesTyped, Services, worldVars, riskVars, durableVars
  <2>2. ProcessTyped' BY <1>1, <1>3, <1>5 DEF BeginRecovery, Working, ProcessTyped, Jobs
  <2> QED BY <2>1, <2>2, TypeParts
<1>6. CASE Heartbeat
  <2>1. /\ queue' \in Seq(Commands)
        /\ monitored' \in [connected : BOOLEAN, ready : {"unset", "no", "yes"}]
    BY <1>0, <1>6, MonitorTypes DEF Heartbeat
  <2>2. TablesTyped' BY <1>3, <1>6, <2>1 DEF Heartbeat, TablesTyped, worldVars, riskVars, runtimeVars
  <2>3. ProcessTyped' BY <1>3, <1>6 DEF Heartbeat, ProcessTyped, processVars, workerVars
  <2> QED BY <2>2, <2>3, TypeParts
<1>7. CASE RefuseCommand
  <2>1. TablesTyped' BY <1>2, <1>3, <1>7 DEF RefuseCommand, TablesTyped, worldVars, riskVars, durableVars, runtimeVars
  <2>2. ProcessTyped' BY <1>3, <1>7 DEF RefuseCommand, ProcessTyped, processVars, workerVars
  <2> QED BY <2>1, <2>2, TypeParts
<1>8. CASE SchedulerCommand
  <2>1. service' \in Services BY <1>8 DEF SchedulerCommand, Services, TypeOK
  <2>2. trading' \in BOOLEAN BY <1>8 DEF SchedulerCommand, TypeOK
  <2>3. TablesTyped'
    BY <1>2, <1>3, <1>8, <2>1, <2>2
    DEF SchedulerCommand, TablesTyped, worldVars, riskVars, durableVars
  <2>4. ProcessTyped' BY <1>2, <1>3, <1>8 DEF SchedulerCommand, ProcessTyped, workerVars
  <2> QED BY <2>3, <2>4, TypeParts
<1>9. CASE BeginEmergencyStop
  <2>1. TablesTyped' BY <1>2, <1>3, <1>9 DEF BeginEmergencyStop, TablesTyped, worldVars, riskVars, durableVars
  <2>2. ProcessTyped' BY <1>1, <1>2, <1>3, <1>9 DEF BeginEmergencyStop, Working, ProcessTyped, Jobs, Commands, OperatorNames
  <2> QED BY <2>1, <2>2, TypeParts
<1>10. CASE BeginCommand
  <2>1. TablesTyped' BY <1>2, <1>3, <1>10 DEF BeginCommand, TablesTyped, worldVars, riskVars, durableVars, runtimeVars
  <2>2. Head(queue) \in Jobs BY <1>2, <1>10 DEF BeginCommand, Jobs
  <2>3. ProcessTyped' BY <1>1, <1>2, <1>3, <1>10, <2>2 DEF BeginCommand, Working, ProcessTyped, processVars
  <2> QED BY <2>1, <2>3, TypeParts
<1> QED
  BY <1>4, <1>5, <1>6, <1>7, <1>8, <1>9, <1>10 DEF TakeStep

LEMMA CallbackTypes ==
  ASSUME NEW restored \in BOOLEAN, Callback(restored)
  PROVE  /\ service' \in Services
         /\ safe' \in BOOLEAN /\ trading' \in BOOLEAN /\ transient' \in BOOLEAN
         /\ ~ connected' /\ ~ known' /\ connected' \in BOOLEAN /\ known' \in BOOLEAN
<1>1. service' \in Services BY DEF Callback, Services
<1>2. safe' \in BOOLEAN /\ trading' \in BOOLEAN /\ transient' \in BOOLEAN
  BY DEF Callback
<1>3. ~ connected' /\ ~ known' /\ connected' \in BOOLEAN /\ known' \in BOOLEAN
  BY DEF Callback
<1> QED BY <1>1, <1>2, <1>3

LEMMA CallbackKeeps ==
  ASSUME TypeOK, up, NEW restored \in BOOLEAN, Callback(restored), link' \in BOOLEAN, trouble' \in Nat,
         UNCHANGED <<foreign, holding, riskVars, durableVars, queue, workerVars>>
  PROVE  TypeOK'
<1>0. TablesTyped /\ ProcessTyped BY TypeParts
<1>1. halt' = halt /\ up' = up /\ blocked' = blocked /\ sched' = sched BY DEF Callback
<1>2. TablesTyped' BY <1>0, <1>1, CallbackTypes DEF TablesTyped, riskVars, durableVars
<1>3. ProcessTyped' BY <1>0, <1>1, CallbackTypes DEF ProcessTyped, workerVars
<1> QED BY <1>2, <1>3, TypeParts

LEMMA WorldTypes ==
  ASSUME TypeOK,
         \/ LinkDrops \/ LinkReturns \/ ForeignOrder \/ Crash
         \/ \E c \in Commands : Queues(c)
  PROVE  TypeOK'
<1>0. TablesTyped /\ ProcessTyped BY TypeParts
<1>1. ASSUME link' \in BOOLEAN, trouble' \in Nat,
             UNCHANGED <<foreign, holding, riskVars, durableVars, queue, workerVars, runtimeVars, processVars>>
      PROVE  TypeOK'
  <2>1. TablesTyped' BY <1>0, <1>1 DEF TablesTyped, riskVars, durableVars, runtimeVars
  <2>2. ProcessTyped' BY <1>0, <1>1 DEF ProcessTyped, workerVars, processVars
  <2> QED BY <2>1, <2>2, TypeParts
<1>2. CASE LinkDrops
  <2>1. link' \in BOOLEAN BY <1>2 DEF LinkDrops
  <2>2. trouble' \in Nat BY <1>2 DEF LinkDrops, TypeOK
  <2>3. CASE up /\ connected BY <1>2, <2>1, <2>2, <2>3, CallbackKeeps DEF LinkDrops
  <2>4. CASE ~ (up /\ connected) BY <1>2, <1>1, <2>1, <2>2, <2>4 DEF LinkDrops
  <2> QED BY <2>3, <2>4
<1>3. CASE LinkReturns
  <2>1. link' \in BOOLEAN BY <1>3 DEF LinkReturns
  <2>2. trouble' \in Nat BY <1>3 DEF LinkReturns, TypeOK
  <2> QED BY <1>3, <1>1, <2>1, <2>2, CallbackKeeps DEF LinkReturns
<1>4. CASE ForeignOrder
  <2>1. TablesTyped' BY <1>0, <1>4 DEF ForeignOrder, TablesTyped, worldVars, riskVars, durableVars, runtimeVars
  <2>2. ProcessTyped' BY <1>0, <1>4 DEF ForeignOrder, ProcessTyped, processVars, workerVars
  <2> QED BY <2>1, <2>2, TypeParts
<1>5. CASE Crash
  <2>1. TablesTyped' BY <1>0, <1>5 DEF Crash, TablesTyped, worldVars, riskVars, durableVars, runtimeVars
  <2>2. ~ up' /\ ~ connected' /\ ~ known' /\ ~ sched' BY <1>5 DEF Crash
  <2>3. /\ up' \in BOOLEAN /\ connected' \in BOOLEAN /\ known' \in BOOLEAN
        /\ blocked' \in BOOLEAN /\ sched' \in BOOLEAN
    BY <1>5 DEF Crash
  <2>4. /\ checked' \in GateStates \cup {NoError} /\ pc' = "idle" /\ job' = NoError
        /\ trouble' \in Nat /\ outcome' \in Errors \cup {NoError, "ok", "llm", "broker"}
    BY <1>5 DEF Crash, Done, TypeOK
  <2>5. ProcessTyped' BY <2>2, <2>3, <2>4 DEF ProcessTyped
  <2> QED BY <2>1, <2>5, TypeParts
<1>6. CASE \E c \in Commands : Queues(c)
  <2>1. PICK c \in Commands : Queues(c) BY <1>6
  <2>2. queue' \in Seq(Commands) BY <1>0, <2>1, QueueGrows DEF Queues, TablesTyped
  <2>3. TablesTyped' BY <1>0, <2>1, <2>2 DEF Queues, TablesTyped, worldVars, riskVars, durableVars, runtimeVars
  <2>4. ProcessTyped' BY <1>0, <2>1 DEF Queues, ProcessTyped, processVars, workerVars
  <2> QED BY <2>3, <2>4, TypeParts
<1> QED
  BY <1>2, <1>3, <1>4, <1>5, <1>6

LEMMA TypesNext ==
  ASSUME TypeOK, [Next]_vars
  PROVE  TypeOK'
<1>1. CASE BeginStartup \/ BeginRecovery \/ Heartbeat \/ TakeStep
  BY <1>1, BeginTypes
<1>2. CASE BrokerStep
  BY <1>2, BrokerTypes
<1>3. CASE SettleStep
  BY <1>3, SettleTypes
<1>4. CASE \/ LinkDrops \/ LinkReturns \/ ForeignOrder \/ Crash
           \/ \E c \in Commands : Queues(c)
  BY <1>4, WorldTypes
<1>5. CASE UNCHANGED vars
  BY <1>5 DEF TypeOK, vars, worldVars, runtimeVars, riskVars, durableVars, processVars, workerVars
<1> QED
  BY <1>1, <1>2, <1>3, <1>4, <1>5 DEF Next

LEMMA TypesInit ==
  ASSUME Init
  PROVE  TypeOK
<1>1. <<>> \in Seq(Commands) OBVIOUS
<1>2. /\ link \in BOOLEAN /\ foreign \in BOOLEAN /\ holding \in BOOLEAN
      /\ service \in Services /\ safe \in BOOLEAN /\ trading \in BOOLEAN /\ halt \in BOOLEAN
  BY DEF Init, Services
<1>3. /\ risk \in GateStates /\ gateRisk \in GateStates /\ transient \in BOOLEAN
      /\ deferred \in {NoError, "BUY", "SELL"} /\ entry \in BOOLEAN
  BY DEF Init, GateStates
<1>4. /\ monitored \in [connected : BOOLEAN, ready : {"unset", "no", "yes"}]
      /\ queue \in Seq(Commands)
  BY <1>1 DEF Init
<1>5. /\ checked \in GateStates \cup {NoError}
      /\ up \in BOOLEAN /\ connected \in BOOLEAN /\ known \in BOOLEAN
      /\ blocked \in BOOLEAN /\ sched \in BOOLEAN
  BY DEF Init
<1>6. /\ pc \in {"idle", "broker", "settle"}
      /\ job \in Jobs \cup {NoError} /\ (job = NoError <=> pc = "idle")
      /\ outcome \in Errors \cup {NoError, "ok", "llm", "broker"}
      /\ ~ up => pc = "idle" /\ ~ connected /\ ~ known /\ ~ sched
      /\ trouble \in Nat
  BY DEF Init
<1> QED BY <1>2, <1>3, <1>4, <1>5, <1>6 DEF TypeOK

\* The runtime, the tables and the worker of the service keep their types, a
\* job runs exactly when the worker is not idle, and a process that is down
\* has no worker, connection or scheduler.
THEOREM TypeCorrect == Spec => []TypeOK
<1>1. Init => TypeOK BY TypesInit
<1>2. TypeOK /\ [Next]_vars => TypeOK'
  BY TypesNext
<1> QED BY <1>1, <1>2, PTL DEF Spec

-----------------------------------------------------------------------------
(* What the risk engine, whose rules BackendService extends, promises for  *)
(* every configuration, portfolio and decision.                            *)

\* An answer is approved with a weight only behind all checks, and then the
\* weight is the smallest limit.
LEMMA ApprovedWeight ==
  ASSUME NEW i \in Intents, NEW p \in Portfolios, NEW f \in Facts, NEW a \in Answers,
         Evaluates(i, p, f, a), a.approved, i.action # "CASH"
  PROVE  /\ PassesVetoes(i, p, f) /\ ~ RefusedForMacro(i, f) /\ ~ RefusedForEarnings(i, f)
         /\ a.weight > 0
         /\ SmallestOf(Limits(i, p, f), a.weight)
<1>1. ~ EvaluatesCash(i, p, a)
  BY DEF EvaluatesCash
<1>2. ~ EvaluatesVetoes(i, p, f, a)
  BY DEF EvaluatesVetoes, Rejects
<1>3. ~ EvaluatesEvents(i, p, f, a)
  BY DEF EvaluatesEvents, Rejects
<1>4. EvaluatesLimits(i, p, f, a)
  BY <1>1, <1>2, <1>3 DEF Evaluates
<1>5. PICK w \in Limits(i, p, f) :
        /\ SmallestOf(Limits(i, p, f), w)
        /\ \/ w = 0 /\ Rejects(a, TRUE, StateUnderEvents(p, f))
           \/ w > 0 /\ Approves(a, w, StateUnderEvents(p, f))
  BY <1>4 DEF EvaluatesLimits
<1>6. w > 0 /\ a.weight = w
  BY <1>5 DEF Rejects, Approves
<1> QED
  BY <1>4, <1>5, <1>6 DEF EvaluatesLimits

LEMMA LimitsAreNumbers ==
  ASSUME NEW i \in Intents, NEW p \in Portfolios, NEW f \in Facts
  PROVE  Limits(i, p, f) \subseteq Nat
<1>1. i.weight \in Nat /\ f.volatility \in Nat
  BY DEF Intents, Facts
<1>2. /\ RiskConfig.absolute \in Nat /\ RiskConfig.macroUnknown \in Nat
      /\ RiskConfig.earnings \in Nat /\ RiskConfig.macroEvent \in Nat
      /\ RiskConfig.tiers \in SUBSET [from : Nat, max : Nat]
  BY RiskConfigAssumption
<1>3. \A t \in ReachedTiers(p.drawdown) : t.max \in Nat
  BY <1>2 DEF ReachedTiers
<1>4. {i.weight, RiskConfig.absolute, f.volatility} \subseteq Nat
  BY <1>1, <1>2
<1>5. {t.max : t \in ReachedTiers(p.drawdown)} \subseteq Nat
  BY <1>3
<1>6. /\ {x \in {RiskConfig.macroUnknown} : CappedForMacro(f)} \subseteq Nat
      /\ {x \in {RiskConfig.earnings} : f.earningsNear} \subseteq Nat
      /\ {x \in {RiskConfig.macroEvent} : f.macroEvent} \subseteq Nat
  BY <1>2
<1> QED
  BY <1>4, <1>5, <1>6 DEF Limits

\* "The model can request a weight, but it cannot relax any of these limits":
\* an approved weight is neither above the request, nor above the absolute or
\* the volatility limit, nor above any tier the drawdown has reached, nor above
\* the limit of an event at hand (RiskEngine.evaluate).
THEOREM NoLimitRelaxed ==
  ASSUME NEW i \in Intents, NEW p \in Portfolios, NEW f \in Facts, NEW a \in Answers,
         Evaluates(i, p, f, a)
  PROVE  /\ a.weight <= i.weight /\ a.weight <= RiskConfig.absolute /\ a.weight <= f.volatility
         /\ \A t \in RiskConfig.tiers : p.drawdown >= t.from => a.weight <= t.max
         /\ f.earningsNear => a.weight <= RiskConfig.earnings
         /\ f.macroEvent => a.weight <= RiskConfig.macroEvent
         /\ CappedForMacro(f) => a.weight <= RiskConfig.macroUnknown
<1> DEFINE L == Limits(i, p, f)
<1>1. \A x \in L : a.weight <= x
  <2>1. CASE a.weight = 0
    BY <2>1, LimitsAreNumbers
  <2>2. CASE a.weight # 0
    <3>1. a.approved /\ i.action # "CASH"
      <4>1. ~ EvaluatesCash(i, p, a)
        BY <2>2 DEF EvaluatesCash, Approves
      <4>2. ~ EvaluatesVetoes(i, p, f, a)
        BY <2>2 DEF EvaluatesVetoes, Rejects
      <4>3. ~ EvaluatesEvents(i, p, f, a)
        BY <2>2 DEF EvaluatesEvents, Rejects
      <4>4. EvaluatesLimits(i, p, f, a)
        BY <4>1, <4>2, <4>3 DEF Evaluates
      <4>5. i.action # "CASH"
        BY <4>4 DEF EvaluatesLimits, PassesVetoes
      <4>6. a.approved
        BY <2>2, <4>4 DEF EvaluatesLimits, Rejects, Approves
      <4> QED BY <4>5, <4>6
    <3>2. SmallestOf(L, a.weight)
      BY <3>1, ApprovedWeight
    <3> QED BY <3>2 DEF SmallestOf
  <2> QED BY <2>1, <2>2
<1>2. i.weight \in L /\ RiskConfig.absolute \in L /\ f.volatility \in L
  BY DEF Limits
<1>3. \A t \in RiskConfig.tiers : p.drawdown >= t.from => t.max \in L
  BY DEF Limits, ReachedTiers
<1>4. f.earningsNear => RiskConfig.earnings \in L
  BY DEF Limits
<1>5. f.macroEvent => RiskConfig.macroEvent \in L
  BY DEF Limits
<1>6. CappedForMacro(f) => RiskConfig.macroUnknown \in L
  BY DEF Limits
<1> QED
  BY <1>1, <1>2, <1>3, <1>4, <1>5, <1>6

\* A deeper drawdown never allows more: of the same decision, on the same facts
\* and from the same risk state, what is approved at the deeper drawdown is
\* approved at the shallower one, and with no smaller a weight.
THEOREM DrawdownNeverHelps ==
  ASSUME NEW i \in Intents, NEW f \in Facts, NEW p \in Portfolios, NEW q \in Portfolios,
         NEW a \in Answers, NEW b \in Answers,
         p.state = q.state, p.drawdown <= q.drawdown, i.action # "CASH",
         Evaluates(i, p, f, a), Evaluates(i, q, f, b),
         b.approved
  PROVE  a.approved /\ b.weight <= a.weight
<1>1. p.drawdown \in Nat /\ q.drawdown \in Nat /\ RiskConfig.hard \in Nat /\ RiskConfig.recovery \in Nat
  BY RiskConfigAssumption DEF Portfolios
<1>2. /\ PassesVetoes(i, q, f) /\ ~ RefusedForMacro(i, f) /\ ~ RefusedForEarnings(i, f)
      /\ b.weight > 0 /\ SmallestOf(Limits(i, q, f), b.weight)
  BY ApprovedWeight
<1>3. ~ Halts(p)
  BY <1>1, <1>2 DEF PassesVetoes, Halts
<1>4. PassesVetoes(i, p, f)
  BY <1>2, <1>3 DEF PassesVetoes
<1>5. EvaluatesLimits(i, p, f, a)
  <2>1. ~ EvaluatesCash(i, p, a)
    BY DEF EvaluatesCash
  <2>2. ~ EvaluatesVetoes(i, p, f, a)
    BY <1>4 DEF EvaluatesVetoes, PassesVetoes
  <2>3. ~ EvaluatesEvents(i, p, f, a)
    BY <1>2 DEF EvaluatesEvents
  <2> QED BY <2>1, <2>2, <2>3 DEF Evaluates
<1>6. Limits(i, p, f) \subseteq Limits(i, q, f)
  <2>1. \A t \in RiskConfig.tiers : t.from \in Nat
    BY RiskConfigAssumption
  <2>2. ReachedTiers(p.drawdown) \subseteq ReachedTiers(q.drawdown)
    BY <1>1, <2>1 DEF ReachedTiers
  <2>3. {t.max : t \in ReachedTiers(p.drawdown)} \subseteq {t.max : t \in ReachedTiers(q.drawdown)}
    BY <2>2
  <2> QED BY <2>3 DEF Limits
<1>7. PICK w \in Limits(i, p, f) :
        \/ w = 0 /\ Rejects(a, TRUE, StateUnderEvents(p, f))
        \/ w > 0 /\ Approves(a, w, StateUnderEvents(p, f))
  BY <1>5 DEF EvaluatesLimits
<1>8. b.weight <= w
  BY <1>2, <1>6 DEF SmallestOf
<1>9. w > 0 /\ w \in Nat /\ b.weight \in Nat
  BY <1>2, <1>8, LimitsAreNumbers DEF Answers
<1>10. a = [approved |-> TRUE, forced |-> FALSE, weight |-> w, state |-> StateUnderEvents(p, f)]
  <2>1. w # 0
    BY <1>9
  <2>2. Approves(a, w, StateUnderEvents(p, f))
    BY <1>7, <2>1
  <2> QED BY <2>2 DEF Approves
<1>11. a.approved /\ a.weight = w
  BY <1>10
<1> QED
  BY <1>8, <1>11

\* A halt outlives a whole run - the reconciliation, the engine, and the write
\* of the engine's state - while the drawdown is above the recovery level, and
\* nothing is bought; unless the decision does not fit the position.
THEOREM HaltOutlivesRun ==
  ASSUME NEW i \in Intents, NEW p \in Portfolios, NEW f \in Facts, NEW a \in Answers,
         p.state = "RISK_HALTED", p.drawdown > RiskConfig.recovery, ~ Misfits(i),
         Evaluates(i, [p EXCEPT !.state = ReconciledState(p)], f, a)
  PROVE  a.state = "RISK_HALTED" /\ a.weight = 0
<1> DEFINE q == [p EXCEPT !.state = ReconciledState(p)]
<1>1. q.state = "RISK_HALTED" /\ q.drawdown = p.drawdown
  BY DEF ReconciledState, Halts, Portfolios
<1> HIDE DEF q
<1>2. Halts(q)
  BY <1>1 DEF Halts
<1>3. CASE EvaluatesCash(i, q, a)
  BY <1>1, <1>3 DEF EvaluatesCash, Approves
<1>4. CASE EvaluatesVetoes(i, q, f, a)
  BY <1>2, <1>4 DEF EvaluatesVetoes, Rejects
<1>5. ~ PassesVetoes(i, q, f)
  BY <1>2 DEF PassesVetoes
<1>6. Evaluates(i, q, f, a)
  BY DEF q
<1> QED
  BY <1>3, <1>4, <1>5, <1>6 DEF Evaluates, EvaluatesEvents, EvaluatesLimits

-----------------------------------------------------------------------------
(* The command table.                                                       *)


\* The initial table satisfies the inductive invariant.
LEMMA InitQueueInv == QueueInit => QueueInv
<1> SUFFICES ASSUME QueueInit PROVE QueueInv
  OBVIOUS
<1>1. QueueTypeOK
  BY DEF QueueInit, QueueTypeOK, Statuses, Lives, Places
<1>2. NeverReplayed /\ WaitingHasNoEffect
  BY DEF QueueInit, NeverReplayed, WaitingHasNoEffect
<1>3. RunnerOwnsRow /\ RunnerStarted
  BY DEF QueueInit, RunnerOwnsRow, RunnerStarted
<1>4. QED
  BY <1>1, <1>2, <1>3 DEF QueueInv

\* Every transaction, process step and tick preserves the inductive invariant.
LEMMA NextQueueInv == QueueInv /\ [QueueNext]_queueVars => QueueInv'
<1> SUFFICES ASSUME QueueInv, [QueueNext]_queueVars
             PROVE  QueueInv'
  OBVIOUS
<1> USE QueueAssumption DEF QueueInv, Statuses, Lives, Places
<1>1. ASSUME NEW n \in Names, NEW i \in Ids, Insert(i, n)
      PROVE  QueueInv'
  BY <1>1 DEF Insert, QueueTypeOK, NeverReplayed, RunnerOwnsRow, RunnerStarted, WaitingHasNoEffect
<1>2. ASSUME NEW w \in Workers, StartBackend(w)
      PROVE  QueueInv'
  BY <1>2 DEF StartBackend, tableVars, QueueTypeOK, NeverReplayed, RunnerOwnsRow, RunnerStarted,
     WaitingHasNoEffect
<1>3. ASSUME NEW w \in Workers, StopBackend(w)
      PROVE  QueueInv'
  BY <1>3 DEF StopBackend, tableVars, QueueTypeOK, NeverReplayed, RunnerOwnsRow, RunnerStarted,
     WaitingHasNoEffect
<1>4. ASSUME NEW w \in Workers, ProcessExit(w)
      PROVE  QueueInv'
  BY <1>4 DEF ProcessExit, tableVars, QueueTypeOK, NeverReplayed, RunnerOwnsRow, RunnerStarted,
     WaitingHasNoEffect
<1>5. ASSUME NEW w \in Workers, StorageError(w)
      PROVE  QueueInv'
  BY <1>5 DEF StorageError, tableVars, QueueTypeOK, NeverReplayed, RunnerOwnsRow, RunnerStarted,
     WaitingHasNoEffect
<1>6. ASSUME NEW w \in Workers, RecoverStaleClaims(w)
      PROVE  QueueInv'
  BY <1>6 DEF RecoverStaleClaims, Requeued, QueueTypeOK, NeverReplayed, RunnerOwnsRow,
     RunnerStarted, WaitingHasNoEffect
<1>7. ASSUME NEW w \in Workers, FailAbandonedRunning(w)
      PROVE  QueueInv'
  BY <1>7 DEF FailAbandonedRunning, Abandoned, QueueTypeOK, NeverReplayed, RunnerOwnsRow,
     RunnerStarted, WaitingHasNoEffect
<1>8. ASSUME NEW w \in Workers, PublishWorker(w)
      PROVE  QueueInv'
  BY <1>8 DEF PublishWorker, QueueTypeOK, NeverReplayed, RunnerOwnsRow, RunnerStarted,
     WaitingHasNoEffect
<1>9. ASSUME NEW w \in Workers, ClaimNext(w)
     PROVE  QueueInv'
  <2>1. QueueTypeOK'
    BY <1>9 DEF ClaimNext, OldestQueued, QueueTypeOK, RunnerStarted
  <2>2. NeverReplayed' /\ WaitingHasNoEffect'
    BY <1>9 DEF ClaimNext, OldestQueued, QueueTypeOK, NeverReplayed, WaitingHasNoEffect,
       RunnerStarted
  <2>3. RunnerOwnsRow'
    BY <1>9 DEF ClaimNext, OldestQueued, QueueTypeOK, RunnerOwnsRow, RunnerStarted
  <2>4. RunnerStarted'
    BY <1>9 DEF ClaimNext, OldestQueued, QueueTypeOK, RunnerOwnsRow, RunnerStarted,
       WaitingHasNoEffect
  <2>5. QED
    BY <2>1, <2>2, <2>3, <2>4
<1>10. ASSUME NEW w \in Workers, MarkRunning(w)
      PROVE  QueueInv'
  <2>1. QueueTypeOK'
    BY <1>10 DEF MarkRunning, StillMine, QueueTypeOK, RunnerStarted
  <2>2. NeverReplayed' /\ WaitingHasNoEffect'
    BY <1>10 DEF MarkRunning, StillMine, QueueTypeOK, NeverReplayed, WaitingHasNoEffect,
       RunnerStarted
  <2>3. RunnerOwnsRow'
    BY <1>10 DEF MarkRunning, StillMine, QueueTypeOK, RunnerOwnsRow, RunnerStarted
  <2>4. RunnerStarted'
    BY <1>10 DEF MarkRunning, StillMine, QueueTypeOK, RunnerOwnsRow, RunnerStarted,
       WaitingHasNoEffect
  <2>5. QED
    BY <2>1, <2>2, <2>3, <2>4
<1>11. ASSUME NEW w \in Workers, Handle(w)
      PROVE  QueueInv'
  <2>1. QueueTypeOK'
    BY <1>11 DEF Handle, tableVars, QueueTypeOK, RunnerStarted
  <2>2. NeverReplayed' /\ WaitingHasNoEffect'
    BY <1>11 DEF Handle, tableVars, QueueTypeOK, NeverReplayed, WaitingHasNoEffect, RunnerStarted
  <2>3. RunnerOwnsRow'
    BY <1>11 DEF Handle, tableVars, QueueTypeOK, RunnerOwnsRow, RunnerStarted
  <2>4. RunnerStarted'
    BY <1>11 DEF Handle, tableVars, QueueTypeOK, RunnerOwnsRow, RunnerStarted, WaitingHasNoEffect
  <2>5. QED
    BY <2>1, <2>2, <2>3, <2>4
<1>12. ASSUME NEW w \in Workers, CompleteCommand(w)
      PROVE  QueueInv'
  <2>1. QueueTypeOK'
    BY <1>12 DEF CompleteCommand, MayComplete, QueueTypeOK, RunnerStarted
  <2>2. NeverReplayed' /\ WaitingHasNoEffect'
    BY <1>12 DEF CompleteCommand, MayComplete, QueueTypeOK, NeverReplayed, WaitingHasNoEffect,
       RunnerStarted
  <2>3. RunnerOwnsRow'
    BY <1>12 DEF CompleteCommand, MayComplete, QueueTypeOK, RunnerOwnsRow, RunnerStarted
  <2>4. RunnerStarted'
    BY <1>12 DEF CompleteCommand, MayComplete, QueueTypeOK, RunnerOwnsRow, RunnerStarted,
       WaitingHasNoEffect
  <2>5. QED
    BY <2>1, <2>2, <2>3, <2>4
<1>13. CASE ClaimsAge
  BY <1>13 DEF ClaimsAge, procVars, QueueTypeOK, NeverReplayed, RunnerOwnsRow, RunnerStarted,
     WaitingHasNoEffect
<1>14. CASE UNCHANGED queueVars
  BY <1>14 DEF queueVars, QueueTypeOK, NeverReplayed, RunnerOwnsRow, RunnerStarted,
     WaitingHasNoEffect
<1>15. QED
  BY <1>1, <1>2, <1>3, <1>4, <1>5, <1>6, <1>7, <1>8, <1>9, <1>10, <1>11, <1>12, <1>13, <1>14
  DEF QueueNext, WorkerStep, EnqueueCommand, EnqueueUnlessActive

THEOREM QueueInvariant == QueueSpec => []QueueInv
BY InitQueueInv, NextQueueInv, PTL DEF QueueSpec

\* The rows, owners and thread places have their types in every reachable state.
THEOREM QueueTypeCorrect == QueueSpec => []QueueTypeOK
BY QueueInvariant, PTL DEF QueueInv

\* No command runs twice, for any number of crashes, restarts and overlaps.
THEOREM AtMostOnce == QueueSpec => []NeverReplayed
BY QueueInvariant, PTL DEF QueueInv

\* A worker inside a handler owns the row it will complete.
THEOREM RunnersOwnRows == QueueSpec => []RunnerOwnsRow
BY QueueInvariant, PTL DEF QueueInv

-----------------------------------------------------------------------------
(* The table refines the ledger: an INSERT submits, the CLAIMED -> RUNNING  *)
(* update starts, a completion or the recovery of abandoned rows closes,    *)
(* and every other step leaves the ledger as it is.                         *)

\* Rows whose ledger place is unchanged leave the ledger unchanged.
LEMMA SameLedger ==
  ASSUME \A i \in Ids :
           /\ status[i] \in {"QUEUED", "CLAIMED"} <=> status'[i] \in {"QUEUED", "CLAIMED"}
           /\ status[i] = "RUNNING" <=> status'[i] = "RUNNING"
           /\ status[i] \in {"SUCCEEDED", "FAILED"} <=> status'[i] \in {"SUCCEEDED", "FAILED"}
  PROVE  UNCHANGED Ledger!ledgerVars
<1>1. {i \in Ids : status[i] \in {"QUEUED", "CLAIMED"}}'
        = {i \in Ids : status[i] \in {"QUEUED", "CLAIMED"}}
  OBVIOUS
<1>2. {i \in Ids : status[i] = "RUNNING"}' = {i \in Ids : status[i] = "RUNNING"}
  OBVIOUS
<1>3. {i \in Ids : Terminal(i)}' = {i \in Ids : Terminal(i)}
  BY DEF Terminal
<1>4. QED
  BY <1>1, <1>2, <1>3 DEF Ledger!ledgerVars

\* An inserted row is submitted.
LEMMA InsertSubmits ==
  ASSUME status \in [Ids -> Statuses], NEW i \in Ids,
         status[i] = "ABSENT", status' = [status EXCEPT ![i] = "QUEUED"]
  PROVE  Ledger!Submit(i)
BY DEF Ledger!Submit, Terminal, Statuses

\* A claimed row marked RUNNING is started.
LEMMA MarkStarts ==
  ASSUME status \in [Ids -> Statuses], NEW i \in Ids,
         status[i] = "CLAIMED", status' = [status EXCEPT ![i] = "RUNNING"]
  PROVE  Ledger!Start(i)
BY DEF Ledger!Start, Terminal, Statuses

\* RUNNING rows that receive a final status together are closed.
LEMMA FinalStatusCloses ==
  ASSUME status \in [Ids -> Statuses], NEW S \in SUBSET Ids,
         \A i \in S : status[i] = "RUNNING" /\ status'[i] \in {"SUCCEEDED", "FAILED"},
         \A i \in Ids \ S : status'[i] = status[i]
  PROVE  Ledger!Close(S)
BY DEF Ledger!Close, Terminal, Statuses

\* Every step of the queue is a ledger step or leaves the ledger unchanged.
LEMMA NextRefines == QueueInv /\ [QueueNext]_queueVars => [Ledger!LedgerNext]_(Ledger!ledgerVars)
<1> SUFFICES ASSUME QueueInv, [QueueNext]_queueVars
             PROVE  [Ledger!LedgerNext]_(Ledger!ledgerVars)
  OBVIOUS
<1>0. status \in [Ids -> Statuses]
  BY DEF QueueInv, QueueTypeOK
<1>1. ASSUME NEW n \in Names, NEW i \in Ids, Insert(i, n)
      PROVE  Ledger!LedgerNext
  BY <1>0, <1>1, InsertSubmits DEF Insert, Ledger!LedgerNext
<1>2. ASSUME NEW w \in Workers, RecoverStaleClaims(w)
      PROVE  UNCHANGED Ledger!ledgerVars
  BY <1>2, SameLedger DEF RecoverStaleClaims, Requeued
<1>3. ASSUME NEW w \in Workers, FailAbandonedRunning(w)
      PROVE  Ledger!LedgerNext
  <2>1. PICK S \in SUBSET Ids : S = Abandoned(w)
    BY DEF Abandoned
  <2>2. /\ \A i \in S : status[i] = "RUNNING" /\ status'[i] \in {"SUCCEEDED", "FAILED"}
        /\ \A i \in Ids \ S : status'[i] = status[i]
    BY <1>3, <2>1 DEF FailAbandonedRunning, Abandoned
  <2>3. Ledger!Close(S)
    BY <1>0, <2>2, FinalStatusCloses
  <2>4. QED
    BY <2>3 DEF Ledger!LedgerNext
<1>4. ASSUME NEW w \in Workers, ClaimNext(w)
      PROVE  UNCHANGED Ledger!ledgerVars
  BY <1>0, <1>4, SameLedger DEF ClaimNext, OldestQueued
<1>5. ASSUME NEW w \in Workers, MarkRunning(w)
      PROVE  [Ledger!LedgerNext]_(Ledger!ledgerVars)
  <2>1. cur[w] \in Ids
    BY <1>5 DEF MarkRunning, QueueInv, RunnerStarted
  <2>2. CASE StillMine(w, cur[w])
    BY <1>0, <1>5, <2>1, <2>2, MarkStarts DEF MarkRunning, StillMine, Ledger!LedgerNext
  <2>3. CASE ~ StillMine(w, cur[w])
    BY <1>5, <2>3, SameLedger DEF MarkRunning
  <2>4. QED
    BY <2>2, <2>3
<1>6. ASSUME NEW w \in Workers, CompleteCommand(w)
      PROVE  [Ledger!LedgerNext]_(Ledger!ledgerVars)
  <2>1. /\ cur[w] \in Ids
        /\ owner[cur[w]] = w
        /\ status[cur[w]] \in {"RUNNING", "SUCCEEDED", "FAILED"}
    BY <1>6 DEF CompleteCommand, QueueInv, RunnerStarted, RunnerOwnsRow
  <2>2. PICK final \in {"SUCCEEDED", "FAILED"} : status' = [status EXCEPT ![cur[w]] = final]
    BY <1>6, <2>1 DEF CompleteCommand, MayComplete
  <2>3. CASE status[cur[w]] = "RUNNING"
    <3>1. PICK S \in SUBSET Ids : S = {cur[w]}
      BY <2>1
    <3>2. /\ \A i \in S : status[i] = "RUNNING" /\ status'[i] \in {"SUCCEEDED", "FAILED"}
          /\ \A i \in Ids \ S : status'[i] = status[i]
      BY <1>0, <2>1, <2>2, <2>3, <3>1
    <3>3. Ledger!Close(S)
      BY <1>0, <3>2, FinalStatusCloses
    <3>4. QED
      BY <3>3 DEF Ledger!LedgerNext
  <2>4. CASE status[cur[w]] \in {"SUCCEEDED", "FAILED"}
    BY <1>0, <2>1, <2>2, <2>4, SameLedger
  <2>5. QED
    BY <2>1, <2>3, <2>4
<1>7. CASE UNCHANGED status
  BY <1>7, SameLedger
<1>8. QED
  BY <1>1, <1>2, <1>3, <1>4, <1>5, <1>6, <1>7
  DEF QueueNext, WorkerStep, EnqueueCommand, EnqueueUnlessActive, StartBackend, StopBackend, ProcessExit,
      StorageError, PublishWorker, Handle, ClaimsAge, tableVars, queueVars

\* The command table implements CommandLedger.
THEOREM QueueRefinesLedger == QueueSpec => RefinesLedger
<1>1. QueueInit => Ledger!LedgerInit
  BY DEF QueueInit, Ledger!LedgerInit, Terminal
<1>2. QED
  BY <1>1, QueueInvariant, NextRefines, PTL DEF QueueSpec, RefinesLedger, Ledger!LedgerSpec
=============================================================================
