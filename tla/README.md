# Verification of the AI fund manager backend

TLA+ models, TLC configurations and TLAPS proofs for the backend in `src/src/`
and the research skill in `src/skills/ai-stock-research/` (paths below are
relative to the repository's parent, so `src/src/runner.py` is the runner and
`src/README.md` the user documentation).

The program trades one Interactive Brokers *Paper* account on the decisions of
two language models, Luna (screening) and Sol (research). A backend process runs
a command worker, a broker monitor and a scheduler; a Streamlit dashboard queues
commands in SQLite; an API thread delivers TWS messages; the scripts of the skill
hand a selected stock from one run to the next. The hard part is not the trading
idea but that nothing is bought when it must not be, nothing is done twice, and
no decision rests on work that was not done, over threads without a common lock,
restarts between any two writes, and a broker that logs out every night.

## 1. Inventory

| Component | State | Operations | Talks to | What is hard |
|---|---|---|---|---|
| Command queue (`storage.py` 315-450, `service.py` 123-185, 364-377, `process_lock.py`) | table `control_commands`, `command_worker_id`, `backend.lock` | enqueue, claim, run, complete, recover | dashboard, scheduler, worker through SQLite | crash between two transactions; an old worker that overlaps a new one; starvation |
| IBKR adapter (`execution/ibkr.py`) | readiness flags, callback dictionaries, end events, order mappings, snapshot | connect, reconcile, submit, cancel, await; TWS callbacks | TWS; service through the connectivity handler | two threads without a lock; late, missing and reordered messages; waits between check and use |
| Backend service (`service.py`) | `runtime_state`: service status, safe mode, manual halt, trading flag, risk state; recovery flags | start, stop, monitor, one handler per command | queue, runner, scheduler, adapter | who may clear what; state read before a wait and used after it; recovery while commands are queued |
| Scheduler (`scheduler.py`, `market_clock.py`) | last period of each job, weekly command and status, in memory and in SQLite | start, stop, `run_once` | queue (callbacks of `main.py`) | crash or error between writes; a thread that outlives `stop`; retries over days |
| Runner (`runner.py`, `trading_state.py`) | trading state, stored orders, executions | decision cycle, liquidation, switch, risk check | executor, risk engine, storage | idempotent orders over restarts; partial fills; a leg that fails |
| Pending entries (`entry_execution.py`, `runner.py` 600-760) | table `pending_entries` | capture, revalidate, review, submit, requote, expire | runner, quotes | several orders of one entry; a holding that changes between checks; durable status and broker apart |
| Managed positions (`position_manager.py`, `runner.py` 762-966, `service.py` 583-730) | `managed_positions`, `position_triggers`, `position_monitor.completed`, `pending_execution_intent` | book, close, hard stop, trigger, review, defer | runner, agent, queue | what is already done, what must be retried; names that come back |
| Risk engine (`risk_engine.py`) | none (pure); the risk state it answers is kept by the runner | limits, tiers, vetoes | runner | boundaries of the tiers; a halt that has to outlive a cycle |
| LLM gateway (`llm_agent.py` 433-930) | protocol, two memories of conversations | create response, retry, drop a parameter, fall back | the gateway of the provider | nested retries; a protocol change within a conversation |
| LLM pipeline (`llm_agent.py`, `runner.py` 1-330) | candidates, batches, stage events | screen, split, compare, research, decide, resume | gateway, tools, storage | a part of the universe that nobody saw; a resume that repeats or skips |
| Research skill (`src/skills/ai-stock-research/scripts/`, `session_research.py`) | `events.jsonl`, `result.json`, `active_selection.json`, session directories | unified research, top-five comparison, pair recheck, session handoff | each other through files | files of earlier runs of the operator's choice; a process that ends between two files |
| Local paper / observe executors (`execution/paper.py`, `observe.py`) | cash, positions, orders | submit, fill, save | storage | two-step persistence |
| IBKR quotes (`execution/ibkr.py` 770-1000, `execution_quotes.py`) | request ids, tick dictionaries | snapshot, stream, history | TWS | time-outs, completeness, staleness |
| First run, dashboard, setup, analytics, providers | mostly derived | checks, views | storage | little state of their own |

`PROJECT.json` lists every component with its status, and the hazards of the
code, each at its line, with the property that covers it or the reason there is
none.

## 2. Modules

| Module | Models | Proofs |
|---|---|---|
| `CommandLedger` | what the queue promises: submit, start once, close | |
| `CommandQueue` | the table and the processes around it | (in `BackendServiceProofs`) |
| `BrokerSync` | the adapter's connection, reconciliation and submission gate | `BrokerSyncProofs` |
| `OrderViews` | what the adapter says of an order: the rebuilt mappings and the reports | |
| `RiskRules` | `RiskEngine.evaluate` and the risk state of a drawdown | (in `BackendServiceProofs`) |
| `BackendService` | the modes of the service, its command handlers and the broker monitor | `BackendServiceProofs` |
| `Scheduler` | the scheduler's thread, writes and weekly command | `SchedulerProofs` |
| `OrderLifecycle` | a decision cycle of the runner, its orders at the broker, their rows | `OrderLifecycleProofs` |
| `EntryLedger` | what a pending entry promises: wait, be tried, return or be done | |
| `EntryExecution` | the pending entries and the orders they become | `EntryExecutionProofs` |
| `PositionMonitor` | the managed positions, their hard stop and their reviews | `PositionMonitorProofs` |
| `LLMGateway` | the calls of one provider | (in `AgentPipelineProofs`) |
| `LunaScreening` | Luna's screening of the universe | (in `AgentPipelineProofs`) |
| `AgentPipeline` | a run of the pipeline from the snapshot to the decision, and its resume | `AgentPipelineProofs` |
| `UnifiedResearch` | the research of all candidates of a saved decision | (in `SelectionResearchProofs`) |
| `SelectionResearch` | the scripts around the active selection | `SelectionResearchProofs` |
| `MC...` | the instance of each for TLC | |

The components meet at narrow interfaces, so each module carries the other side
as nondeterminism: `CommandQueue` says that a command is handled at most once,
`BackendService` what handling does; `BackendService` sees of the adapter the
flags `connected` and `known` and their withdrawal by the callback, `BrokerSync`
how they come about; `Scheduler` sees of the queue the outcome of its command;
`OrderLifecycle` takes a reconciliation as two steps and `EntryExecution` as one,
whose making is `BrokerSync`, and both say what the "buys" and "sells" of
`BackendService` consist of; `PositionMonitor` takes a decision cycle as one step with its
outcomes. Where two components share an algorithm they share the module:
`BackendService` extends `RiskRules`; `OrderLifecycle` and `EntryExecution`
extend `OrderViews`. `AgentPipeline` extends `LunaScreening` and
`SelectionResearch` extends `UnifiedResearch`: there the steps of the inner
component are steps of the outer one, on the same state.

### CommandQueue

One action per SQL transaction: `EnqueueCommand` and `EnqueueUnlessActive`
(`BEGIN IMMEDIATE` makes the check and the insert one step), `ClaimNext`,
`MarkRunning`, `CompleteCommand`, and at start `RecoverStaleClaims`,
`FailAbandonedRunning`, `PublishWorker`, in the order of `_start_supervisor`. A
handler is one step, `Handle`, counted in `effects`. `StopBackend` is `stop()`:
the control thread has ended or, after the two seconds of the join, goes on
("draining") while the lock is free; `ProcessExit` is death at any point. The
60-second age of a claim is the set `aged`, which grows at any time.
`StorageError` is an exception of any transaction, caught by `_supervise`.
Rows are never deleted, so ids stand for the order of insertion.

### BrokerSync

The worker's place is `pc`; its waits are `handshake`, `waiting` (the events of
the refresh), `priced` (quotes for the positions), `resolving` (the contract of
an order). After the last wait `submit_order` has no lock, so it is in steps too:
`ReadOrderId` (line 1196), `SendOrder` (1202-1207), `ReadNextId` and `WriteNextId`
(1208). The API thread's place is `api`: it delivers messages, or it is inside the
callback of a connectivity or fatal error, which changes the transport flag
(`ConnectivityError`), writes the database (`ErrorIsStored`), clears the five
fields of the readiness one by one in the order of lines 756-762
(`WithdrawReadiness`) and writes the runtime (`CallbackEnds`); either write may
raise, which ends the thread (`CallbackRaises`). The worker acts between any two of
these.

Requests and messages are two first-in first-out channels to TWS. The broker's
side is external: it answers with what the account holds at that moment, orders
leave the book filled or cancelled, and another client places orders, at any time
(`ForeignAppears`). `number` is the order id of each order, counted for each client
apart: `order_values` is keyed by it, so an order of another client can hide an own
one, or be hidden by it (`Listed`, `Working`). `settled`, `fresh`, `unlisted`,
`gaveUp` and `held` are history variables. The account summary and the quotes have
no content here. `disconnect()` waits two seconds for the API thread; a callback
that takes longer and withdraws what the next socket has learned is left out.

### BackendService and RiskRules

The worker runs one job: a command, start-up, a recovery of the monitor, or the
deferred intent that a recovery queues. A job is `Begin...` (its guards),
`Broker...` (what it does at the broker), `Settle...` (its writes), with the API
callback, the operator and the market acting in between; that is where the waits
of the code are. The account is reduced to "holds a position" and the drawdown
to the values of `Drawdowns`, errors to the classes that `is_waiting_for_tws`,
`_is_recoverable_broker_error` and `_reject_unknown_open_orders` tell apart. The
mode is `IBKR_PAPER` with `EXECUTION_MODE=PAPER`, the mode in which the gates
matter.

`RiskRules` has `evaluate` in the order of the code: cash, the vetoes, the events,
the limits (`EvaluatesCash`, `EvaluatesVetoes`, `EvaluatesEvents`,
`EvaluatesLimits`). The answer is a relation, whose weight is the smallest of the
limits that apply, with no order among them; the code folds `min` over them.
Every cycle of `BackendService` asks it. The vetoes that look at one fact each
are one choice, `vetoed`; a decision that does not fit the position is a case of
its own, because it is answered before the halt is looked at.

### Scheduler

`run_once` is cut where the code can be interrupted: before each part, at its
callback, and at each `set_runtime`, which is a transaction of its own. `mem` is
the object's fields, `db` the rows; `Restart` forgets `mem` and the threads.
`Loops` are the threads of `_loop`: one that is inside `run_once` may outlive the
join of `stop()`, and `start()` then revives it next to the new one. `revived` is a
history variable that remembers this. Time is counted in slots, five a day, of
which two are in the session.

### OrderLifecycle

`job` is the local state of `run`: where it is (`pc`), the trading state machine,
the last snapshot, the order or the cancellation under way. A step ends where
the code waits or writes: at each reconciliation, each quote that may fail, each
row, each submission, each wait for an order. `orders` is the broker's book; of
each order it also keeps `seen`, the status in the adapter's `order_values`,
which callbacks change and a refresh rebuilds (`Rebuilt`), and `concealed`, a
history variable: a refresh took the order for filled while it worked. A refresh is
two steps, because TWS answers for the positions before the open orders and the
executions (`ibkr.py` 1038-1042): `PositionsAnswered`, then the step of the cycle
that uses the snapshot, with anything of TWS in between; `late` remembers that a BUY
was filled there, and so is in neither part of the snapshot. `stored`
is `order_records`, of whose status only "active or not" is ever read.
`deferred` is `pending_execution_intent`: `RunAgain` runs the same decision
again, with the same client order ids. TWS fills, cancels, refuses and warns
between any two steps. An exception out of `run` and the death of the process
leave the same behind, so `Crash` is both.

What the risk engine decides is left open but for its comparison of the intent
with the position (`Matches`), and an order may have any size the holdings
allow. The mode is PAPER. `entry_engine_enabled` is left open too: the model has
the BUY that becomes an order at once, which is how the code works without the
engine, and the SELL that finds no quote, which it may with it.

### EntryExecution and EntryLedger

`process_pending_entries` reads the list once (`ProcessEntries`) and takes the
entries in order: skipped in a closed market, expired, or taken up through
reconciliation, `Revalidate`, `QuickReview`, the risk gate, sizing
(`BuildOrder`), the check before submission, the order, its wait, its
cancellation and the next requote. The durable status is written where the code
writes it; `SettleEntry` is the mapping of the last report to a status. The
client order id is the decision and the requote, so a later pass may find the
order of an earlier one (`FoundAtBroker`). The broker fills, cancels, refuses and
warns between any two steps, somebody else may sell, and `Crash` and the failed
refresh leave the entry in whatever status it had. A share costs one: equity and
cash are counted in shares. A refresh is one step here: what fills between two of
its answers is in `OrderLifecycle` only.

`EntryLedger` is the promise: orders go out only for an entry that is being
tried, and what is settled is never tried again. `RefinesLedger` maps the
statuses to its phases and the orders placed to its counter.

### PositionMonitor

A command is `Book` and `Close` (`reconcile_portfolio`) and then its own part:
the monitor's `NothingToDo`, `AskForReview`, `BeginStop`; the stop's `RunStop`,
`MarkDone`, `Defer`; the review's `Review` and the execution of its intent
(`KeepReviewed`, `SellReviewed`, `SwitchReviewed`); the daily risk check; the
deferred intent. A row is named after the symbol and the latest decision found
for it (`position-<decision>`, `runner.py:913`): a holding that comes back can
have the name of a closed row, which is then opened again. Prices are levels of
the return: above -10 %, above -15 %, below. Taking profit is left out: the
configuration turns it off.

### LLMGateway

A request of `create_response` is a sequence of calls: a retry after a transient
error, the same without the reasoning parameter, the one fall-back from Responses
to Chat Completions, the error raised. Errors are the classes the code tells
apart. `ofResponses` and `ofChat` are the provider's memories of conversations,
`atGateway` what the other side keeps for an id; `says` is what the request under
way shows the model. An answer may carry no id: then neither memory keeps it, the
next tool round begins a new conversation, and `begun` is where.

### LunaScreening and AgentPipeline

`LunaScreening` has the whole screening and the batched one: batches, their
halves after a gateway error, the merge in the order of the picks, the partitions
by every n-th place, the global comparison. A row is its place in the universe
and a batch a range of places, which is what `_screen_batched` slices. An answer
is any list that `screen` lets pass.

`AgentPipeline` is a run: the snapshot (`Start`, which builds the batches only in
`StartBatches`), the end of the screening, the fall-back to Sol alone, the tool
rounds of a plain research or the ranking, the dives and the committee of a deep
one, and the records a failure leaves. `runs` is what the events of each run say;
`Resume` reads them as `_persisted_sol_resume_context` does. `Crash` leaves no
event of a failure. The four tools of the ranking evidence stand for one.

### UnifiedResearch and SelectionResearch

`UnifiedResearch` is `equal_depth_candidates.py`: for each candidate a dive, taken
over from the events of an earlier run or made, and its audit; then the ranking.
The events show research that was completed ("answered" or "asked"), that passed its
audit ("passed"), or that is of before there was an audit ("plain", which `OldEvents`
brings in): `read_event_state` takes the last two as completed (`Reusable`).
`SelectionResearch` adds the three scripts that decide: `top_five_deep_research.py`
(supplements, final ranking, incumbent, pair audit, comparison),
`recheck_selection_pair.py` and `session_research.py`, the latter beside the
others because a prepared session waits. `results` is the list of the
`result.json` files of all runs; every start chooses its inputs among them as the
operator may, and `Resolved` is what `resolve_active_selection` makes of one.
Each file is a step of its own that may raise or be the last before a crash, and
`"TORN"` is a `result.json` that was being rewritten when the process ended. A
recheck that cannot write `active_selection.json` rewrites its result as FAILED
(`PairFailsLate`). A script is given the `result.json` of the earlier run or its
`active_selection.json`, which has no assessments: `OldGaps` reads what there is.
`unaudited`, `given`, `seen`, `exposed` and `open` are history variables.

## 3. Runs

| Run | Shows | Distinct states |
|---|---|---|
| `CommandQueue` | `NeverReplayed`, `RunnerOwnsRow`, `QueuedIsTaken` under weak fairness of the worker, refinement of `CommandLedger` | 90 k |
| `BrokerSync` | no order is sent on readiness withdrawn before its id was read (`PlacedOnlyFresh`), a refresh loses no own order (`NoOrderLost`), a listed order of another client blocks (`ForeignOrderBlocks`), holdings are in the snapshot (`HoldingsSeen`) | 7.3 M |
| `BackendHalt` | `HaltIsEnforced`, `ResearchRespectsHalt` | 6.5 M |
| `Scheduler` | one weekly run at a time (`OneWeeklyAtATime`), once a period in a life (`OncePerLife`), a recorded period was run (`RecordedWasCalled`), only a completion consumes a week (`ConsumedByCompletion`), a failed one sits out its day (`FailedSitsOut`), a retry is not forgotten (`WaitingIsRemembered`) | 4.2 M |
| `OrderLifecycle` | no leg is traded twice (`LegSentOnce`), an order has its row (`SentIsStored`), one symbol is held (`OneSymbol`), a confirmed liquidation leaves no BUY at work and nothing held (`CashIsFlat`) | 3.6 M |
| `EntryExecution` | buying stays within the equity (`NoMargin`) and with one symbol (`OneSymbolBought`), a try is not repeated while its order lives or has bought (`EntryTrySentOnce`), refinement of `EntryLedger` | 2.0 M |
| `PositionMonitor` | one active row per symbol (`OneRowPerSymbol`), one review per drawdown (`ReviewAskedOnce`), an event is forgotten only through a failure (`LostToFailures`), a stop is run (`StopIsRun`, liveness) | 0.5 M |
| `LLMGateway` | the model sees the conversation since the last answer without an id (`WholeConversation`), one fall-back (`FallsBackOnce`), bounded calls (`CallsBounded`) | 68 k |
| `AgentPipeline` | every row is screened once (`EveryRowOnce`), no decision on a gap (`NoDecisionOnAGap`), what is bought was compared (`BoughtWasCompared`), a resume goes on where the run failed (`ResumedWhereItFailed`) | 0.8 M |
| `SelectionResearch` | decisions rest on audited research (`RestsOnAuditedResearch`) and even evidence (`DecidedOnEvenEvidence`), continue the selection before them (`ContinuesTheSelection`), and survive a crash (`SelectionSurvives`) | 1.5 M |

`TypeOK` of a module (`QueueTypeOK`, `GatewayTypeOK`) documents its types. It is
proved where there is a theorem for it (`TypeCorrect`, `QueueTypeCorrect`,
`GatewayTypeCorrect`) and is part of no run.

`BackendBuy` ends in a counterexample, against `src/README.md:96` ("Emergency
Stop cancels outstanding BUY orders, liquidates positions, and enters
`MANUAL_HALT`. It never resumes automatically."): neither `run_pending_entries`
nor `process_pending_entries` tests the halt, and the entry stays pending over
the stop, so the next `RUN_PENDING_ENTRIES` buys under `MANUAL_HALT`
(`NoBuyWhileHalted`, quoted in `PROJECT.json`, "findings").

`LegacyResearch` ends in a counterexample, against
`references/verification-and-sizing.md:40` and `SKILL.md:99` of the skill (missing
fields of an old schema, or a `_COMPLETED` event, are not by themselves sufficient
evidence): `read_event_state` takes a completed event without `evidence_assessments`
as completed (`equal_depth_candidates.py:91`), and a selection is decided on it
(`OnlyAuditedResearch`). `RestsOnAuditedResearch` of the passing run says that this
is the only way round an audit.

### Behaviours the models have and no property forbids

Where a property would be false for a reason the code shows, it says so in a
proviso, and the behaviour stays in the model:

- `CommandQueue`: recovery runs at start only, with a 60-second cut-off, so a fast
  restart strands a claim that never ran.
- `BrokerSync`: an order that fills between two answers of a refresh is in no part
  of the snapshot; end events of a refresh that timed out complete the next one.
  Until the callback of a connectivity error has cleared the last field, after a
  database write, orders still go out; and nothing is looked at between the read of
  the order id and `placeOrder`. `src/README.md` promises more: `PlacedOnlyFresh` says
  what is left of it. An order of another client that comes after the last list of
  open orders does not block, nor one with the order id of an own order; of two such
  orders the own one can be lost from the mappings and submitted again.
- `BackendService`: a recovery that waits for the login resets `safe_mode` also
  after an unknown order; a command that reconnects first keeps the monitor from
  restarting the scheduler; a hard failure blocks all later recoveries; a research
  command passes a gate whose risk state is behind; a HOLD or SWITCH that does not
  fit the position ends a risk halt early (`risk_engine.py:41`), which is the
  proviso of the theorem `HaltOutlivesRun`.
- `Scheduler`: a loop that outlives `stop()` is revived by `start()`, and the two run a
  period twice, against `scheduler.py:66` ("once per period"): the properties of the
  weekly research and `OncePerLife` are about lives in which no loop was revived
  (`revived`). A crash between two writes forgets a week that waits for the market.
- `OrderLifecycle`: a BUY that is partly filled is rebuilt as "Filled", neither
  listed nor cancelled, and works on after "cash target confirmed" - the proviso
  "no order is concealed" of its properties; a BUY that fills between the answers of
  the confirming refresh is in neither, and the stock is held after "confirmed"
  (`late`, the second proviso of `CashIsFlat`); two liquidations of which the first
  timed out sell short together. The rebuilt mappings show an execution for ever,
  while `reqExecutions` reaches the current day only (`ibkr.py:1041`): that an order
  of an earlier day is no longer seen is left out, and so are its consequences for
  `LegSentOnce` and `EntryTrySentOnce`.
- `EntryExecution`: an order may pass the check of the holdings while another one
  of the same account works; `NoMargin` and `OneSymbolBought` are about accounts
  where none did (`Alone`). A fill between two answers of the refresh before the check,
  which hides it likewise, is not in this module.
- `PositionMonitor`: a stop is marked done whatever came of it except
  WAITING_FOR_MARKET, PENDING_ENTRY, REJECTED or an exception, so an ERROR with
  shares left is not tried again; a crash between that mark and the deferral
  loses a stop that waited for the broker; a deferred CASH intent outlives the
  position it was about (`service.py:702`) and sells the next one; a holding that
  comes back can take the name, and the finished stop, of an earlier one.
- `AgentPipeline`: a merge that is too long is cut (`llm_agent.py:3165`), and the
  last partition's winners are dropped uncompared; with fewer than five candidates
  the symbol of the decision is not checked (`llm_agent.py:1567`); a failed run
  can be resumed again and again, at any age (`runner.py:63`).
- `SelectionResearch`: any earlier COMPLETE result may be passed as the previous
  one, so a selection can fork; a recheck's result has no ranking and cannot be
  rechecked; gaps an earlier result recorded stay, while a session, and a script given
  `active_selection.json`, knows of none; a recheck that cannot write its
  `active_selection.json` loses its decision (`recheck_selection_pair.py:501`); a
  `finalize` that ends between its files refuses to be repeated
  (`session_research.py:434`).

Some things seen while reading are in no model: symbols are compared before they
are upper-cased (`llm_agent.py:1793`); the token count of a resumed run contains
the earlier run's; a failing probe is recorded under the previous run's id
(`service.py:557`); `best_alternative` of a review is not validated
(`llm_agent.py:1956`).

### Bounds, and why they are enough

- `CommandQueue`: two workers, a backend and its successor, so that an old owner
  is overtaken; two commands, because the table's rows interact only through
  their order and through `Blocks`. No symmetry, which a liveness property does
  not allow.
- `BrokerSync`: one own order, that may be submitted again after it left, and one of
  another client that may come at any time, with the same order id or another
  (`Numberings`); two sockets, two refreshes and two errors in all: late messages need
  an earlier refresh, a stale flag an earlier socket, and a callback that meets a
  callback a second error.
- `BackendService`: one queued command next to the running job (the queue's own
  properties are those of `CommandQueue`) and one disturbance (a link drop, a
  foreign order or a restart), while operator and scheduler queue the commands that
  `MCBackendService` lists. The limits are those of `config.yaml`; the drawdown is
  chosen anew at each valuation, below the recovery level, above it, or at the hard
  limit.
- `Scheduler`: two research weeks, the first of which may fall on a holiday, one
  error, one crash and two loops: each property is about the writes after a single
  interruption, and a second one starts from a state the first leaves. What follows
  the revival of a loop is looked at on the ordinary day only, without a crash or an
  error (`RevivedForADay`, a constraint): of the invariants only `RecordedWasCalled`
  speaks of it.
- `OrderLifecycle`: two symbols, because the second is what `OneSymbol` is about;
  two shares, so that an order fills in parts; two decisions, so that one meets
  the orders of the other; three cycles, so that a deferred decision sends an
  order, is interrupted and runs again; three orders, a switch and one before it;
  one failure, a crash, a failed refresh or a refused submission. The account
  starts flat or with two shares of a symbol.
- `EntryExecution`: two entries over two symbols, alike or not; an equity of two
  shares, so that an order fills in parts and two orders can exceed it; one
  requote; two orders, of one entry or of both; one failure.
- `PositionMonitor`: two symbols and two holdings, so that a position is followed
  by one of another stock or of its own; one decision, so that a row is named with
  and without one; one failure. No symmetry, because of `StopIsRun`.
- `LLMGateway`: two retries, as in the code (`retry_delays`); three
  conversations of three exchanges, so that the fall-back comes before, in or after
  each.
- `AgentPipeline`: a universe of one to five rows in batches of three that split
  down to one, so that halves are uneven and split again; a final comparison of at
  most three, so that the merge needs partitions; three runs, of which one starts
  with a screening and the others resume; a deep research of the best two of three
  candidates; three configurations (default, no fall-back and no deep research,
  no Luna).
- `SelectionResearch`: three stocks, of which two make a ranking, so that the
  incumbent is in or out of it; one unified research and four results (the
  confirmed start, the research and two decisions, one of which reads the other,
  or one unfinished result); one round of targeted research; one gap that an
  earlier result recorded late (`MaxLaterGaps`); one run of before the audit, with one
  stock researched. `MCView` leaves out of a state what no later step reads.

Deadlock checking is off where a bound, a backend that is stopped for good, or an
operator who starts nothing more ends every behaviour; each such cfg says so.

### Fairness

- `CommandQueue`: weak fairness of each worker's steps. The control thread loops
  for ever and catches its errors; nobody is obliged to queue, start, stop or let
  a minute pass. The conclusion allows for the lock being free.
- `PositionMonitor`: weak fairness of a command's steps, the same worker thread.
  Strong fairness of `StartMonitor` and `StartRiskCheck`: the scheduler queues both
  again and again, and the queue is taken in order (`QueuedIsTaken`), so neither is
  passed over for ever. Weak fairness of `RestartScheduler` is an assumption on the
  operator or the broker's recovery: a scheduler that SAFE_MODE stopped is started
  again some day. Nothing is assumed of prices, reviews or trades. `StopIsRun` asks for an
  outcome, not for a sale: an ERROR recorded as done, or the finished stop of an
  earlier holding of that name, satisfies it.

## 4. Proofs

Everything TLAPS proves holds for all constants that satisfy the module's
`ASSUME`: any number of workers, commands, orders, sockets, errors, restarts,
symbols, decisions, retries, conversations, rows and batches.

- The command queue, in `BackendServiceProofs`. `QueueInv` is inductive: besides types it says that a
  worker past `MarkRunning` has a row that has left the waiting statuses and that
  it still owns (`RunnerOwnsRow`, `RunnerStarted`), and that a waiting row has had
  no effect (`WaitingHasNoEffect`). `NeverReplayed` alone is not: that `Handle`
  runs a command the first time follows from these. `AtMostOnce`, `QueueTypeCorrect`,
  `RunnersOwnRows` are its parts. `QueueRefinesLedger` maps each action to
  `Submit`, `Start`, `Close` or a stutter.
- `BrokerSyncProofs`. `Fresh` says for each place of the worker which field a
  finished callback would have taken away; `PlacedOnlyFresh` is the step case of
  `SendOrder`. The callback keeps `Fresh` field by field (`CallbackKeepsFresh`)
  because it clears `connected` before the flags a worker may set again, and the order
  id last, which is what protects the wait in `resolve_instrument`. What is proved is
  about an id read after the withdrawal was finished, not about one read before.
  `SyncInv` follows a refresh message by message. Each of its requests is in one
  place, with TWS, answered or ended (`RoundInv`), and the end mark of a stream
  vouches for everything before it in the pipe (`Covers`, `AnswerInv`): positions
  held at the beginning, orders that work, and own orders wherever they are now.
  The order of the requests matters here: an order that leaves the book after
  the orders were answered is among the executions, which are asked for later.
  `NoOrderLost`, `ForeignOrderBlocks` and `HoldingsSeen` are then what the
  published mappings inherit (`GateInv`), the first two for orders whose id no other
  client's order has (`Distinct`), the second for orders that were there to be listed
  (`unlisted`). The invariant holds until a refresh is
  given up as still running (`gaveUp`), as the properties do.
- The service, in `BackendServiceProofs`. `HaltInv` adds to `HaltIsEnforced` that jobs which put
  the service online at their end do not run in a halt, that only
  `EMERGENCY_STOP` and `STARTUP` run before the runtime shows it, and that a
  process that is down has neither scheduler nor job. `TypeCorrect` is proved in
  two parts, what is stored or outside (`TablesTyped`) and the process with its
  worker (`ProcessTyped`), since most actions change one of them only.
- The last part of `BackendServiceProofs` is about one answer of the risk engine
  (`RiskRules`), so there is no invariant.
  `NoLimitRelaxed`: an approved weight is at most the request and every limit that
  applies; it rests on `ApprovedWeight`, that an approval comes from the last of
  the four parts only. `DrawdownNeverHelps` compares two drawdowns: the tiers
  reached at the smaller one are among those of the larger, so its smallest limit
  is no smaller. `HaltOutlivesRun` composes the reconciliation's state with the
  engine's, which is what `run` writes.
- `PositionMonitorProofs`. `MonitorInv` has four parts. `RowsInv` is
  `OneRowPerSymbol` as a statement about two rows, without cardinality. `EventsInv`
  says that a review which was queued was registered before, and that the one being
  queued has not been queued yet: a trigger that is known is never queued again,
  also after a crash between the two writes. `LossInv`, on top of them, counts: the
  events known and not queued are a finite set, no larger than the failures and the
  one in hand (`FailuresAccount`). `JobInv` ties the command to the rows: it is about
  a position wherever it uses one, and a stop that runs has its trigger.
  `AccountInv` is types. Each action has its lemma.
- The calls of a provider, in `AgentPipelineProofs`. `GatewayInv` says of the memories
  that an id is remembered with exactly its conversation since the last answer
  without an id, or not at all, and that every exchange answered with an id since is
  remembered in one of them, in Responses itself before the fall-back; so what a Chat
  request rebuilds is whole since then. For `CallsBounded` it counts the calls by the
  rounds that lie behind a request: at most one without the reasoning parameter
  and two before the fall-back, each of `MaxRetries + 1` calls.
- A run, in `AgentPipelineProofs`. For `EveryRowOnce` each row is placed: either covered, or
  in exactly one batch of the list (`Placed`). `BeginPlaced` shows it of the
  division into batches (by the quotient of a place), `CompletedPlaced` and
  `SplitPlaced` of a completed and a halved batch. `GapInv` says that a run whose
  screening is incomplete is no longer at a place that leads to a decision.
  `PipelineInv` adds what the evidence of a run is about: the candidates in Sol's
  hands are named by the final screening (`NamesInv`), what was researched in depth
  stays among them (`DeepInv`), and a run that is resumed stands where the failed
  one stood (`ResumeInv`). `BoughtWasCompared` and `ResumedWhereItFailed` follow.
- `SchedulerProofs`. `TypeCorrect` and `RecordsWhatRan` hold whatever loops are
  alive: the callback comes before the record of its period, in the object and in
  the database (`CalledInv`). The other five are false once a loop is revived, and
  their properties say so: until then a `start()` finds no thread that an earlier
  `stop()` had left (`LoneLoop`), and `UnrevivedInv` carries `OneLoopInv` up to it.
  `OneLoopInv` says that nothing
  is recorded or queued ahead of a loop's time (`ClockInv`), that a decision to
  call still stands when the call is made (`DecidedInv`), that a wait for the market
  is no command's after the refresh (`RefreshedInv`), that each crash leaves at
  most one command nobody follows (`OrphanInv`), and, before the first crash, what
  the object knows of the last command (`CommandInv`).
- `EntryExecutionProofs`. `Inv` ties the place of the pass to the row of its entry
  (`EntryInv`, `TodoInv`) and the order under way to the account: it was sized by
  the cash of its snapshot (`SizedBySnapshot`), what the adapter does not know of
  this try is dead and bought nothing (`UnknownIsDead`), and if nothing worked at
  the check, nothing moved until the order goes out (`CheckStillHolds`). The last
  is the heart of `AccountNeverOwes` and `OneSymbolAtATime`: between two steps of
  the pass only an order that works changes the account. The proviso `Alone` of
  both is real: the check of the holdings does not look at working orders.
  `EntriesRefineLedger` maps each action to the ledger, one row at a time; it needs
  `EntryInv`, because a row is written by where the pass stands.
- `OrderLifecycleProofs`. `LegSentOnce` is inductive with `ViewInv`: during a cycle
  the adapter has lost sight only of orders that are dead and traded nothing, which
  is why the look-up by id in `_execute_order` is enough. It breaks between two
  cycles, and `run` restores it by the refresh it begins with. `RowInv` is about the
  order row. `Inv` is for the account: in the places of `Quiet` no BUY works, in
  those of `Counted` the snapshot bounds what is held, the orders that work when a
  decision is made are in its snapshot, and at most one symbol is held or being
  bought (`OneExposed`; `OneSymbol` alone is not inductive, a BUY that works may
  still fill). `GapInv` is about the middle of a refresh: unless a BUY was filled there
  (`late`), the positions answered still bound what is held, and before a submission
  none can have been. A fill changes the account in any place, so each of these parts also
  says which orders can. `CashIsFlat` and `OneSymbol` have the proviso `Clear` (no order is concealed) that
  the runs have, and only these parts of `Inv` do: the types, the legs and the rows
  hold whatever a refresh conceals.
- `SelectionResearchProofs`. `Inv` says of each place of a run what it has seen to.
  `UnifiedInv`: of the candidates up to the one at hand each passed or failed, and the
  ranking begins when none failed; a resumed run takes over marks of `events`, but
  only those that say "passed", or "plain" of a run of before the audit (`Sure`), which
  is the exception `RestsOnAuditedResearch` makes. `JobInv` and `SessionInv`: a comparison starts from an
  audited result and an incumbent that some result retains, and each of the best
  ones is researched again before it is compared. These refer to saved results only by
  what no step takes from one (`Kept`), so that the scripts, the session and the
  results are proved apart. `ContinuesTheSelection` is an induction over the
  results in the order they were written (`Earned`): a decision either wins its stock or
  hands on that of an earlier result. `AuditIsEven` and `SessionIsEven` are about the
  audits alone: what they let pass while a round remains shows no critical gap of one
  stock on which the other is known.

Two of the proofs need an induction, which here is a least counterexample: if a
statement about naturals fails, it fails at a least one (`Least`, from the library's
well-foundedness of `<`), and the step refutes that one. `AgentPipelineProofs` proves
in this way what the picks merged one after the other are, and
`EntryExecutionProofs` what `NoMargin` needs of sums over a
finite table (`TotalOfUpdate`, `TotalOfOne`, `TotalCovers`): a fill of k shares moves
the sum by k, and a sum of zero has no positive part.

Model-checked only: the liveness properties (`QueuedIsTaken`, `StopIsRun`: fairness and ENABLED are out of the prover's
reach). Every safety property of a passing run, invariant or action property, is
a theorem. The types of `AgentPipeline`, `OrderLifecycle` and `SelectionResearch` are
proved as far as the other proofs use them (`PipelineInv`, `TypesHold`, the fields of
`ResultFits` and `JobInv`); the bounds their `TypeOK` puts on numbers are not. In
`BrokerSync` they are proved until a refresh is given up (`WireInv`, `RoundInv`): what
giving up leaves of the requests is a `SelectSeq`, of which the provers know nothing.

## 5. Not modelled

- Local paper and observe executors: one thread and immediate fills, an order's
  whole life is one call. The one thing hard to test in them, two transactions for
  one fill, is the first of the plan; no hazard of `PROJECT.json` is about it yet.
- IBKR market data: a quote enters the models as a choice (usable, to be reviewed,
  missing).
- Research data providers, prompts and the texts of the LLM: downloads, table
  shaping, wording.
- Storage's audit and history tables: inserted and read; the tables with a life are
  in the modules of the components that use them.
- First run and set-up: checks of the environment in a fixed order. The dashboard:
  views, and the queueing of commands, which is `EnqueueCommand`. Entry points and
  helpers: wiring. Windows launchers: installation.
- Of the modelled components: OBSERVE mode and the sizing arithmetic of the runner,
  the market-data half of the adapter, the repair of a malformed answer, the report
  writer of the skill. `PROJECT.json` says of each component what is left out.

## 6. Plan

What is left, in this order:

1. `LocalPaper`: cash and positions over fills and their two transactions.
2. `QuoteRequest`: request ids and ticks of the market-data half of the adapter.
3. `FirstRun`: the ordered checks and the status they result in.
