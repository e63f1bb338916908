----------------------------- MODULE Scheduler -----------------------------
(***************************************************************************)
(* The clock of src/src/scheduler.py: a thread that polls, compares the    *)
(* time with the period each job last ran in, runs the job's callback and  *)
(* records the period; and the weekly research, whose callback only queues *)
(* a command (main.py) that the scheduler then follows to its outcome.     *)
(*                                                                         *)
(* Every set_runtime is a transaction of its own, so a crash or a locked   *)
(* database can come between any two.  stop() joins the thread for two     *)
(* seconds; SQLite waits five for a lock, so a thread that is inside       *)
(* run_once may outlive stop(), and start() clears the event it was to     *)
(* see.                                                                    *)
(*                                                                         *)
(* Time is a number of slots, five a day: early, pre-market, two slots of  *)
(* the session, evening.                                                   *)
(***************************************************************************)
EXTENDS Integers, Sequences, FiniteSets

CONSTANTS
  Callbacks,    \* the periodic jobs that have a callback
  ResearchDays, \* days that are the configured weekday
  SessionDays,  \* days the exchange opens
  MaxTime,      \* bound on the clock
  MaxCommands,  \* bound on weekly commands
  MaxLoops,     \* bound on threads alive at once
  MaxErrors,    \* bound on raising callbacks and transactions
  MaxCrashes    \* bound on restarts

Periodic == {"position", "entry", "risk", "pre", "daily"}

ASSUME SchedulerAssumption ==
  /\ Callbacks \subseteq Periodic
  /\ MaxTime \in Nat /\ MaxCommands \in Nat /\ MaxLoops \in Nat
  /\ MaxErrors \in Nat /\ MaxCrashes \in Nat

VARIABLES
  clock,        \* the current slot
  commands,     \* weekly commands in order of their ids: day queued and outcome
  mem,          \* the fields of the PaperScheduler object
  db,           \* the runtime_state rows they are saved in
  thread,       \* the loop _thread refers to, 0 for None
  stopping,     \* _stop_event
  loop,         \* loop[l]: a thread of _loop
  errors, crashes, \* counted for the bounds
  called,       \* called[j]: periods job j was called for (history)
  calledHere,   \* the same since the process started (history)
  revived       \* a start() found a thread that an earlier stop() had not seen
                \* end, which goes on beside the new one (history)

faultVars   == <<errors, crashes>>
historyVars == <<called, calledHere, revived>>
vars == <<clock, commands, mem, db, thread, stopping, loop, faultVars, historyVars>>

Day(t)    == t \div 5
Slot(t)   == t % 5
IsOpen(t) == Day(t) \in SessionDays /\ Slot(t) \in {2, 3}

Never     == -1
NoCommand == 0
Loops     == 1 .. MaxLoops
Outcomes  == {"ACTIVE", "COMPLETED", "WAITING_FOR_MARKET", "FAILED"}

\* The parts of run_once in their order.
Parts == <<"refresh", "position", "entry", "risk", "weekly", "pre", "daily">>

\* The period a job is recorded under: a slot of the session, or a day.
Period(j, t) == IF j \in {"position", "entry", "risk"} THEN t ELSE Day(t)

Asleep == [step |-> 0, phase |-> "check", writes |-> <<>>, now |-> 0]
Gone   == [Asleep EXCEPT !.step = -1]

NothingRan ==
  [lastRun |-> [j \in Periodic \cup {"weekly"} |-> Never],
   weeklyStatus |-> "COMPLETED", weeklyId |-> NoCommand, weeklyDay |-> Never]

Init ==
  /\ clock = 0 /\ commands = <<>>
  /\ mem = NothingRan /\ db = NothingRan
  /\ thread = 0 /\ stopping = FALSE
  /\ loop = [l \in Loops |-> Gone]
  /\ errors = 0 /\ crashes = 0
  /\ called = [j \in Periodic |-> {}] /\ calledHere = called
  /\ revived = FALSE

-----------------------------------------------------------------------------
(* The thread                                                              *)

\* start(): nothing to do while _thread is alive.  Clearing the event revives a
\* thread that has not seen it.
Start ==
  /\ thread = 0
  /\ \E l \in Loops :
       /\ loop[l] = Gone
       /\ loop' = [loop EXCEPT ![l] = Asleep]
       /\ thread' = l
  /\ stopping' = FALSE
  /\ revived' = (revived \/ \E k \in Loops : loop[k] # Gone)
  /\ UNCHANGED <<clock, commands, mem, db, faultVars, called, calledHere>>

\* stop(): a sleeping thread ends before it is forgotten, a busy one may not.
Stop ==
  /\ thread # 0
  /\ stopping' = TRUE /\ thread' = 0
  /\ loop' = IF loop[thread] = Asleep THEN [loop EXCEPT ![thread] = Gone] ELSE loop
  /\ UNCHANGED <<clock, commands, mem, db, faultVars, historyVars>>

Exit(l) ==
  /\ loop[l].step = 0 /\ stopping
  /\ loop' = [loop EXCEPT ![l] = Gone]
  /\ UNCHANGED <<clock, commands, mem, db, thread, stopping, faultVars, historyVars>>

\* run_once takes the time at its head.
Wake(l) ==
  /\ loop[l].step = 0 /\ ~ stopping
  /\ loop' = [loop EXCEPT ![l] = [Asleep EXCEPT !.step = 1, !.now = clock]]
  /\ UNCHANGED <<clock, commands, mem, db, thread, stopping, faultVars, historyVars>>

\* Loop l has come to the part p of run_once.
At(l, p, phase) ==
  /\ loop[l].step \in DOMAIN Parts
  /\ Parts[loop[l].step] = p
  /\ loop[l].phase = phase

Sleep(l) == loop' = [loop EXCEPT ![l] = Asleep]

\* On to the next part, or back to sleep.
Proceed(l) ==
  loop' = [loop EXCEPT ![l] = IF loop[l].step = Len(Parts) THEN Asleep
                              ELSE [loop[l] EXCEPT !.step = @ + 1, !.phase = "check", !.writes = <<>>]]

Save(l, fields) == loop' = [loop EXCEPT ![l].phase = "write", ![l].writes = fields]

-----------------------------------------------------------------------------
(* Periodic jobs                                                           *)

Due(j, t) ==
  /\ j \in Callbacks
  /\ mem.lastRun[j] # Period(j, t)
  /\ j \in {"position", "entry", "risk"} => IsOpen(t)
  /\ j = "pre"   => Day(t) \in SessionDays /\ Slot(t) >= 1
  /\ j = "daily" => Day(t) \in SessionDays /\ Slot(t) >= 4

Pass(l, j) ==
  /\ At(l, j, "check")
  /\ ~ Due(j, loop[l].now)
  /\ Proceed(l)
  /\ UNCHANGED <<clock, commands, mem, db, thread, stopping, faultVars, historyVars>>

\* Mutated form of Recorded: the object does not remember the period.
NotRecorded(m, j, period) == m

Recorded(m, j, period) == [m EXCEPT !.lastRun[j] = period]

\* Mutated form of Decide: the period is saved before the callback runs.
DecideSaved(l, j) ==
  /\ At(l, j, "check")
  /\ Due(j, loop[l].now)
  /\ loop' = [loop EXCEPT ![l].phase = "call"]
  /\ db' = Recorded(db, j, Period(j, loop[l].now))
  /\ UNCHANGED <<clock, commands, mem, thread, stopping, faultVars, historyVars>>

Decide(l, j) ==
  /\ At(l, j, "check")
  /\ Due(j, loop[l].now)
  /\ loop' = [loop EXCEPT ![l].phase = "call"]
  /\ UNCHANGED <<clock, commands, mem, db, thread, stopping, faultVars, historyVars>>

\* The callback returns; the object remembers the period, then the database.
Call(l, j) ==
  /\ At(l, j, "call")
  /\ LET period == Period(j, loop[l].now) IN
       /\ mem' = Recorded(mem, j, period)
       /\ called' = [called EXCEPT ![j] = @ \cup {period}]
       /\ calledHere' = [calledHere EXCEPT ![j] = @ \cup {period}]
  /\ Save(l, <<j>>)
  /\ UNCHANGED <<clock, commands, db, thread, stopping, faultVars, revived>>

\* It raises: _loop keeps the error and polls again.
CallRaises(l, j) ==
  /\ At(l, j, "call")
  /\ errors < MaxErrors /\ errors' = errors + 1
  /\ Sleep(l)
  /\ UNCHANGED <<clock, commands, mem, db, thread, stopping, crashes, historyVars>>

-----------------------------------------------------------------------------
(* The weekly research                                                     *)

\* _refresh_weekly_command: nothing is followed.
RefreshNothing(l) ==
  /\ At(l, "refresh", "check")
  /\ mem.weeklyId = NoCommand
  /\ Proceed(l)
  /\ UNCHANGED <<clock, commands, mem, db, thread, stopping, faultVars, historyVars>>

\* Mutated form of Settled: every command that succeeded completes the week.
SettledCompleted(m, outcome) ==
  [m EXCEPT !.weeklyId = NoCommand,
            !.weeklyStatus = IF outcome = "FAILED" THEN "FAILED" ELSE "COMPLETED"]

Settled(m, outcome) == [m EXCEPT !.weeklyId = NoCommand, !.weeklyStatus = outcome]

\* The followed command is waiting, running or has its outcome: an outcome
\* ends the following, and a completion is recorded under the day the
\* command was queued, after the id was cleared in the database.
Refresh(l) ==
  /\ At(l, "refresh", "check")
  /\ mem.weeklyId # NoCommand
  /\ LET outcome == commands[mem.weeklyId].outcome IN
       IF outcome = "ACTIVE"
         THEN /\ mem' = [mem EXCEPT !.weeklyStatus = outcome]
              /\ Save(l, <<"weeklyStatus">>)
         ELSE /\ mem' = Settled(mem, outcome)
              /\ Save(l, IF outcome = "COMPLETED" THEN <<"weeklyId", "weekly", "weeklyStatus">>
                         ELSE <<"weeklyId", "weeklyStatus">>)
  /\ UNCHANGED <<clock, commands, db, thread, stopping, faultVars, historyVars>>

\* Mutated form of ScheduledWeeklyDue: a failed week is tried again at once.
WeeklyDueAfterFailure(t) ==
  /\ mem.weeklyId = NoCommand
  /\ mem.weeklyStatus # "WAITING_FOR_MARKET"
  /\ Day(t) \in ResearchDays /\ Slot(t) >= 2
  /\ mem.lastRun["weekly"] # Day(t)

\* Mutated form of ScheduledWeeklyDue: a followed command does not matter.
WeeklyDueWhileFollowed(t) ==
  /\ mem.weeklyStatus # "WAITING_FOR_MARKET"
  /\ mem.weeklyStatus = "FAILED" => mem.weeklyDay # Day(t)
  /\ Day(t) \in ResearchDays /\ Slot(t) >= 2
  /\ mem.lastRun["weekly"] # Day(t)

ScheduledWeeklyDue(t) ==
  /\ mem.weeklyId = NoCommand
  /\ mem.weeklyStatus # "WAITING_FOR_MARKET"
  /\ mem.weeklyStatus = "FAILED" => mem.weeklyDay # Day(t)
  /\ Day(t) \in ResearchDays /\ Slot(t) >= 2
  /\ mem.lastRun["weekly"] # Day(t)

WaitingRetryDue(t) == mem.weeklyStatus = "WAITING_FOR_MARKET" /\ IsOpen(t)

WeeklyDue(t) == ScheduledWeeklyDue(t) \/ WaitingRetryDue(t)

WeeklyPass(l) ==
  /\ At(l, "weekly", "check")
  /\ ~ WeeklyDue(loop[l].now)
  /\ Proceed(l)
  /\ UNCHANGED <<clock, commands, mem, db, thread, stopping, faultVars, historyVars>>

WeeklyDecide(l) ==
  /\ At(l, "weekly", "check")
  /\ WeeklyDue(loop[l].now)
  /\ loop' = [loop EXCEPT ![l].phase = "call"]
  /\ UNCHANGED <<clock, commands, mem, db, thread, stopping, faultVars, historyVars>>

\* Mutated form of Followed: the day of the command is not updated.
FollowedSinceFirst(m, id, day) ==
  [m EXCEPT !.weeklyId = id, !.weeklyStatus = "ACTIVE",
            !.weeklyDay = IF @ = Never THEN day ELSE @]

Followed(m, id, day) ==
  [m EXCEPT !.weeklyId = id, !.weeklyDay = day, !.weeklyStatus = "ACTIVE"]

\* The command RUN_FULL_AI_RESEARCH is queued and followed.
WeeklyCall(l) ==
  /\ At(l, "weekly", "call")
  /\ Len(commands) < MaxCommands
  /\ LET day == Day(loop[l].now) IN
       /\ commands' = Append(commands, [day |-> day, outcome |-> "ACTIVE"])
       /\ mem' = Followed(mem, Len(commands'), day)
  /\ Save(l, <<"weeklyId", "weeklyDay", "weeklyStatus">>)
  /\ UNCHANGED <<clock, db, thread, stopping, faultVars, historyVars>>

\* The INSERT raises: the week is FAILED, under the day of an earlier command.
WeeklyCallRaises(l) ==
  /\ At(l, "weekly", "call")
  /\ errors < MaxErrors /\ errors' = errors + 1
  /\ mem' = [mem EXCEPT !.weeklyStatus = "FAILED"]
  /\ Save(l, <<"weeklyStatus">>)
  /\ UNCHANGED <<clock, commands, db, thread, stopping, crashes, historyVars>>

-----------------------------------------------------------------------------
(* Transactions                                                            *)

\* _last_weekly_run is assigned just before it is saved, the rest earlier.
Assigned(field) ==
  IF field = "weekly" /\ mem.weeklyDay # Never
    THEN [mem EXCEPT !.lastRun["weekly"] = mem.weeklyDay] ELSE mem

Saved(field, m) ==
  IF field \in DOMAIN m.lastRun
    THEN [db EXCEPT !.lastRun[field] = m.lastRun[field]]
    ELSE [db EXCEPT ![field] = m[field]]

\* set_runtime of the next field.  Queueing the weekly command ends run_once.
Write(l) ==
  /\ loop[l].phase = "write"
  /\ LET field == Head(loop[l].writes) IN
       /\ mem' = Assigned(field)
       /\ db' = Saved(field, mem')
  /\ \/ Len(loop[l].writes) > 1 /\ Save(l, Tail(loop[l].writes))
     \/ Len(loop[l].writes) = 1 /\ At(l, "weekly", "write") /\ Sleep(l)
     \/ Len(loop[l].writes) = 1 /\ ~ At(l, "weekly", "write") /\ Proceed(l)
  /\ UNCHANGED <<clock, commands, thread, stopping, faultVars, historyVars>>

\* It raises, which ends run_once.  While the weekly command is being queued
\* the week is marked FAILED first.
WriteRaises(l) ==
  /\ loop[l].phase = "write"
  /\ errors < MaxErrors /\ errors' = errors + 1
  /\ \/ /\ At(l, "weekly", "write") /\ mem.weeklyStatus # "FAILED"
        /\ mem' = [mem EXCEPT !.weeklyStatus = "FAILED"]
        /\ Save(l, <<"weeklyStatus">>)
     \/ /\ At(l, "weekly", "write") => mem.weeklyStatus = "FAILED"
        /\ mem' = Assigned(Head(loop[l].writes))
        /\ Sleep(l)
  /\ UNCHANGED <<clock, commands, db, thread, stopping, crashes, historyVars>>

-----------------------------------------------------------------------------
(* The command worker, time, the process                                   *)

\* The research ends, waits for the market (or leaves a pending entry), or
\* fails.
Finish(i, outcome) ==
  /\ commands[i].outcome = "ACTIVE"
  /\ commands' = [commands EXCEPT ![i].outcome = outcome]
  /\ UNCHANGED <<clock, mem, db, thread, stopping, loop, faultVars, historyVars>>

Tick ==
  /\ clock < MaxTime
  /\ clock' = clock + 1
  /\ UNCHANGED <<commands, mem, db, thread, stopping, loop, faultVars, historyVars>>

\* The process ends; the next one reads the rows back.
Restart ==
  /\ crashes < MaxCrashes /\ crashes' = crashes + 1
  /\ mem' = db
  /\ thread' = 0 /\ stopping' = FALSE
  /\ loop' = [l \in Loops |-> Gone]
  /\ calledHere' = [j \in Periodic |-> {}]
  /\ UNCHANGED <<clock, commands, db, errors, called, revived>>

LoopStep(l) ==
  \/ Exit(l) \/ Wake(l)
  \/ RefreshNothing(l) \/ Refresh(l)
  \/ \E j \in Periodic : Pass(l, j) \/ Decide(l, j) \/ Call(l, j) \/ CallRaises(l, j)
  \/ WeeklyPass(l) \/ WeeklyDecide(l) \/ WeeklyCall(l) \/ WeeklyCallRaises(l)
  \/ Write(l) \/ WriteRaises(l)

Next ==
  \/ Start \/ Stop \/ Tick \/ Restart
  \/ \E l \in Loops : LoopStep(l)
  \/ \E i \in DOMAIN commands, outcome \in Outcomes \ {"ACTIVE"} : Finish(i, outcome)

Spec == Init /\ [][Next]_vars

-----------------------------------------------------------------------------
(* Properties                                                              *)

Fields == {"weeklyId", "weeklyDay", "weeklyStatus", "weekly"} \cup Periodic

Records ==
  [lastRun : [Periodic \cup {"weekly"} -> Nat \cup {Never}], weeklyStatus : Outcomes,
   weeklyId : Nat, weeklyDay : Nat \cup {Never}]

TypeOK ==
  /\ clock \in 0 .. MaxTime
  /\ commands \in Seq([day : Nat, outcome : Outcomes])
  /\ mem \in Records /\ db \in Records
  /\ mem.weeklyId \in {NoCommand} \cup DOMAIN commands
  /\ thread \in Loops \cup {0} /\ stopping \in BOOLEAN
  /\ loop \in [Loops -> [step : -1 .. Len(Parts), phase : {"check", "call", "write"},
                         writes : Seq(Fields), now : Nat]]
  /\ \A l \in Loops : loop[l].phase = "write" => loop[l].writes # <<>>
  /\ errors \in Nat /\ crashes \in Nat
  /\ called \in [Periodic -> SUBSET Nat] /\ calledHere \in [Periodic -> SUBSET Nat]
  /\ revived \in BOOLEAN

\* No job is called twice for a period in one life of the process, whatever
\* raises and however often the scheduler is stopped and started, unless a
\* start() came before the thread of an earlier stop() had ended.  The
\* description of the class (scheduler.py:66, "once per period") knows no such
\* exception; two loops do call a job twice.
OncePerLife ==
  [][\A l \in Loops, j \in Periodic :
       ~ revived /\ Call(l, j) => Period(j, loop[l].now) \notin calledHere[j]]_vars

\* A period is never recorded as run before its callback has run: a crash may
\* repeat a job and never skips one.
RecordedWasCalled ==
  \A j \in Periodic : db.lastRun[j] \in called[j] \cup {Never}

Active == {i \in DOMAIN commands : commands[i].outcome = "ACTIVE"}

\* Weekly researches are not queued next to one another by one loop: only a
\* restart that comes before the command is on record can lead to one more.
OneWeeklyAtATime == ~ revived => Cardinality(Active) <= 1 + crashes

\* The weekly run is recorded under the day of a command that completed: a
\* failed or market-closed outcome does not consume the week.  This and the
\* next two hold for as long as the process is not restarted between two of
\* the writes that record a command or its outcome, and no loop was revived.
ConsumedByCompletion ==
  \A r \in {mem, db} : crashes = 0 /\ ~ revived /\ r.lastRun["weekly"] # Never =>
    \E i \in DOMAIN commands :
      commands[i].day = r.lastRun["weekly"] /\ commands[i].outcome = "COMPLETED"

\* A failed research is not repeated on the day it was queued (the test
\* test_failed_weekly_research_requeues_at_next_scheduled_week...).
FailedSitsOut ==
  [][\A l \in Loops : ~ revived /\ WeeklyCall(l) =>
       \A i \in DOMAIN commands :
         crashes = 0 /\ commands[i].outcome = "FAILED" => commands[i].day # Day(loop[l].now)]_vars

\* The outcome of the last command is never dropped: it is still followed, or
\* its wait for the market is remembered, or the retry could not be queued.
WaitingIsRemembered ==
  crashes = 0 /\ ~ revived /\ commands # <<>> /\ commands[Len(commands)].outcome = "WAITING_FOR_MARKET" =>
    \/ mem.weeklyId = Len(commands)
    \/ mem.weeklyStatus \in {"WAITING_FOR_MARKET", "FAILED"}

=============================================================================
