---------------------------- MODULE CommandQueue ----------------------------
(***************************************************************************)
(* The control-command queue: the SQLite table control_commands, the       *)
(* processes that insert into it (dashboard, scheduler thread, service)    *)
(* and the backend processes whose single command worker takes commands    *)
(* from it.  Each SQL transaction of src/src/storage.py is one action, so  *)
(* the interleavings are those of the transactions.                        *)
(*                                                                         *)
(* A backend process holds the OS lock of process_lock.py from start() to  *)
(* stop(), or to its death.  stop() waits at most two seconds for the      *)
(* worker thread and then releases the lock, so a thread that is inside a  *)
(* long handler goes on until the interpreter exits ("draining").          *)
(***************************************************************************)
EXTENDS Integers

CONSTANTS
  Names,        \* command names
  NoName,       \* the command column of a row not inserted yet
  Workers,      \* worker ids; every backend start draws a fresh one
  NoWorker,     \* SQL NULL in worker_id, and a free lock
  MaxCommands,  \* bound on the number of inserted rows
  Blocks        \* Blocks[n]: active_commands of enqueue_command_unless_active

ASSUME QueueAssumption ==
  /\ MaxCommands \in Nat
  /\ NoName \notin Names
  /\ NoWorker \notin Workers
  /\ Blocks \in [Names -> SUBSET Names]

Ids == 1 .. MaxCommands

VARIABLES
  name,       \* name[i]: the command column
  status,     \* status[i]: the status column, "ABSENT" before the INSERT
  owner,      \* owner[i]: the worker_id column
  aged,       \* ids whose claimed_at is more than 60 seconds ago
  published,  \* runtime_state.command_worker_id
  lock,       \* the worker whose process holds backend.lock
  life,       \* life[w]: "unborn", "up", "draining" or "gone"
  place,      \* place[w]: where the worker's control thread is
  cur,        \* cur[w]: the command it claimed last, 0 before the first claim
  effects     \* effects[i]: how often a handler was run for i (history)

tableVars == <<name, status, owner, aged, published>>
procVars  == <<lock, life, place, cur>>
queueVars == <<name, status, owner, aged, published, lock, life, place, cur, effects>>

Statuses == {"ABSENT", "QUEUED", "CLAIMED", "RUNNING", "SUCCEEDED", "FAILED"}
Lives    == {"unborn", "up", "draining", "gone"}
Places   == {"off", "recover", "fail", "publish", "poll", "claimed", "running", "finish"}

Terminal(i) == status[i] \in {"SUCCEEDED", "FAILED"}

\* The control thread still executes code.
Alive(w) == life[w] \in {"up", "draining"}

\* A command that keeps enqueue_command_unless_active from inserting.
ActiveForPublished(i) ==
  \/ status[i] = "QUEUED"
  \/ status[i] \in {"CLAIMED", "RUNNING"} /\ owner[i] = published

QueueInit ==
  /\ name      = [i \in Ids |-> NoName]
  /\ status    = [i \in Ids |-> "ABSENT"]
  /\ owner     = [i \in Ids |-> NoWorker]
  /\ aged      = {}
  /\ published = NoWorker
  /\ lock      = NoWorker
  /\ life      = [w \in Workers |-> "unborn"]
  /\ place     = [w \in Workers |-> "off"]
  /\ cur       = [w \in Workers |-> 0]
  /\ effects   = [i \in Ids |-> 0]

-----------------------------------------------------------------------------
(* Producers                                                               *)

\* AUTOINCREMENT: the new row gets the smallest id not used yet.
Insert(i, n) ==
  /\ status[i] = "ABSENT"
  /\ \A j \in Ids : j < i => status[j] # "ABSENT"
  /\ name'   = [name EXCEPT ![i] = n]
  /\ status' = [status EXCEPT ![i] = "QUEUED"]
  /\ UNCHANGED <<owner, aged, published, lock, life, place, cur, effects>>

\* enqueue_command: scheduler callbacks, risk and position events, dashboard.
EnqueueCommand(n) == \E i \in Ids : Insert(i, n)

\* enqueue_command_unless_active: one BEGIN IMMEDIATE transaction.
EnqueueUnlessActive(n) ==
  /\ ~ \E j \in Ids : name[j] \in Blocks[n] /\ ActiveForPublished(j)
  /\ \E i \in Ids : Insert(i, n)

-----------------------------------------------------------------------------
(* The life of a backend process                                           *)

\* BackendService.start: the lock is taken first; everything up to
\* _start_supervisor leaves the command table alone.
StartBackend(w) ==
  /\ life[w] = "unborn"
  /\ lock = NoWorker
  /\ lock' = w
  /\ life' = [life EXCEPT ![w] = "up"]
  /\ place' = [place EXCEPT ![w] = "recover"]
  /\ UNCHANGED <<cur, tableVars, effects>>

\* Mutated form of Requeued: the test "status = CLAIMED" is widened to
\* commands that have already reached RUNNING.
RequeuedStarted == {i \in Ids : status[i] \in {"CLAIMED", "RUNNING"} /\ i \in aged}

\* recover_stale_claims: claims of any worker, older than 60 seconds.
Requeued == {i \in Ids : status[i] = "CLAIMED" /\ i \in aged}

RecoverStaleClaims(w) ==
  /\ place[w] = "recover" /\ Alive(w)
  /\ status' = [i \in Ids |-> IF i \in Requeued THEN "QUEUED" ELSE status[i]]
  /\ owner'  = [i \in Ids |-> IF i \in Requeued THEN NoWorker ELSE owner[i]]
  /\ aged'   = aged \ Requeued
  /\ place'  = [place EXCEPT ![w] = "fail"]
  /\ UNCHANGED <<name, published, lock, life, cur, effects>>

\* Mutated form of Abandoned: open claims are closed as well.
AbandonedOrClaimed(w) == {i \in Ids : status[i] \in {"CLAIMED", "RUNNING"} /\ owner[i] # w}

\* fail_abandoned_running_commands: RUNNING rows of every other worker.
Abandoned(w) == {i \in Ids : status[i] = "RUNNING" /\ owner[i] # w}

FailAbandonedRunning(w) ==
  /\ place[w] = "fail" /\ Alive(w)
  /\ status' = [i \in Ids |-> IF i \in Abandoned(w) THEN "FAILED" ELSE status[i]]
  /\ place'  = [place EXCEPT ![w] = "publish"]
  /\ UNCHANGED <<name, owner, aged, published, lock, life, cur, effects>>

\* command_worker_id is written after both recoveries, then the thread starts.
PublishWorker(w) ==
  /\ place[w] = "publish" /\ Alive(w)
  /\ published' = w
  /\ place'     = [place EXCEPT ![w] = "poll"]
  /\ UNCHANGED <<name, status, owner, aged, lock, life, cur, effects>>

\* BackendService.stop: an idle thread is joined and the process ends; a busy
\* one outlives the two second join and the lock is released all the same.
StopBackend(w) ==
  /\ life[w] = "up"
  /\ place[w] \in {"poll", "claimed", "running", "finish"}
  /\ lock' = NoWorker
  /\ life' = [life EXCEPT ![w] = IF place[w] = "poll" THEN "gone" ELSE "draining"]
  /\ UNCHANGED <<place, cur, tableVars, effects>>

\* The process dies: a kill at any point, or the interpreter's exit after
\* stop().  The operating system releases a lock it still held.
ProcessExit(w) ==
  /\ Alive(w)
  /\ lock' = IF lock = w THEN NoWorker ELSE lock
  /\ life' = [life EXCEPT ![w] = "gone"]
  /\ UNCHANGED <<place, cur, tableVars, effects>>

-----------------------------------------------------------------------------
(* The command worker: BackendService.process_commands                     *)

OldestQueued(i) ==
  /\ status[i] = "QUEUED"
  /\ \A j \in Ids : status[j] = "QUEUED" => i <= j

ClaimNext(w) ==
  /\ place[w] = "poll" /\ Alive(w)
  /\ \E i \in Ids :
       /\ OldestQueued(i)
       /\ status' = [status EXCEPT ![i] = "CLAIMED"]
       /\ owner'  = [owner EXCEPT ![i] = w]
       /\ aged'   = aged \ {i}
       /\ cur'    = [cur EXCEPT ![w] = i]
  /\ place' = [place EXCEPT ![w] = "claimed"]
  /\ UNCHANGED <<name, published, lock, life, effects>>

\* Mutated form of StillMine: the worker clause of the UPDATE is dropped.
StillClaimed(w, i) == status[i] = "CLAIMED"

\* rowcount = 1 of the UPDATE in mark_command_running.
StillMine(w, i) == status[i] = "CLAIMED" /\ owner[i] = w

MarkRunning(w) ==
  /\ place[w] = "claimed" /\ Alive(w)
  /\ IF StillMine(w, cur[w])
       THEN /\ status' = [status EXCEPT ![cur[w]] = "RUNNING"]
            /\ place'  = [place EXCEPT ![w] = "running"]
       ELSE /\ place'  = [place EXCEPT ![w] = "poll"]
            /\ UNCHANGED status
  /\ UNCHANGED <<name, owner, aged, published, lock, life, cur, effects>>

\* _handle_command: from here on the command may have touched the broker.
Handle(w) ==
  /\ place[w] = "running" /\ Alive(w)
  /\ effects' = [effects EXCEPT ![cur[w]] = @ + 1]
  /\ place'   = [place EXCEPT ![w] = "finish"]
  /\ UNCHANGED <<tableVars, lock, life, cur>>

\* complete_command with the worker clause; the status of the row is not
\* tested, so a row another process has already closed is overwritten.
MayComplete(w, i) == owner[i] = w

CompleteCommand(w) ==
  /\ place[w] = "finish" /\ Alive(w)
  /\ \E outcome \in {"SUCCEEDED", "FAILED"} :
       status' = IF MayComplete(w, cur[w])
                   THEN [status EXCEPT ![cur[w]] = outcome]
                   ELSE status
  /\ place' = [place EXCEPT ![w] = "poll"]
  /\ UNCHANGED <<name, owner, aged, published, lock, life, cur, effects>>

\* Mutated form of StorageError: the exception ends the control thread.
StorageErrorEndsThread(w) ==
  /\ place[w] \in {"claimed", "finish"} /\ Alive(w)
  /\ place' = [place EXCEPT ![w] = "off"]
  /\ UNCHANGED <<tableVars, lock, life, cur, effects>>

\* An UPDATE raises (the database stayed locked past busy_timeout): _supervise
\* records the error and polls again, and the row keeps its status.
StorageError(w) ==
  /\ place[w] \in {"claimed", "finish"} /\ Alive(w)
  /\ place' = [place EXCEPT ![w] = "poll"]
  /\ UNCHANGED <<tableVars, lock, life, cur, effects>>

-----------------------------------------------------------------------------
\* A minute passes.
ClaimsAge ==
  /\ aged' = aged \cup {i \in Ids : status[i] \in {"CLAIMED", "RUNNING"}}
  /\ aged' # aged
  /\ UNCHANGED <<name, status, owner, published, procVars, effects>>

WorkerStep(w) ==
  \/ RecoverStaleClaims(w)
  \/ FailAbandonedRunning(w)
  \/ PublishWorker(w)
  \/ ClaimNext(w)
  \/ MarkRunning(w)
  \/ Handle(w)
  \/ CompleteCommand(w)

QueueNext ==
  \/ \E n \in Names : EnqueueCommand(n) \/ EnqueueUnlessActive(n)
  \/ \E w \in Workers :
       \/ StartBackend(w)
       \/ StopBackend(w)
       \/ ProcessExit(w)
       \/ StorageError(w)
       \/ WorkerStep(w)
  \/ ClaimsAge

QueueSpec == QueueInit /\ [][QueueNext]_queueVars

\* A running worker thread keeps executing; nobody is obliged to enqueue, to
\* start or to stop a backend, and a minute need not pass.
FairQueueSpec == QueueSpec /\ \A w \in Workers : WF_queueVars(WorkerStep(w))

-----------------------------------------------------------------------------
(* Properties                                                              *)

QueueTypeOK ==
  /\ name      \in [Ids -> Names \cup {NoName}]
  /\ status    \in [Ids -> Statuses]
  /\ owner     \in [Ids -> Workers \cup {NoWorker}]
  /\ aged      \in SUBSET Ids
  /\ published \in Workers \cup {NoWorker}
  /\ lock      \in Workers \cup {NoWorker}
  /\ life      \in [Workers -> Lives]
  /\ place     \in [Workers -> Places]
  /\ cur       \in [Workers -> Ids \cup {0}]
  /\ effects   \in [Ids -> Nat]

\* No command is handed to a handler twice, over every crash, restart, stale
\* claim and overlap of an old worker with a new one (storage.py:412 and 422:
\* a command that may have had a side effect is never replayed).
NeverReplayed == \A i \in Ids : effects[i] <= 1

\* A worker that is executing a command still owns its row, so the outcome it
\* reports with complete_command(worker_id=...) can be recorded.
RunnerOwnsRow ==
  \A w \in Workers :
    place[w] \in {"running", "finish"} => owner[cur[w]] = w

\* The strengthening of NeverReplayed and RunnerOwnsRow that every step
\* preserves: a worker inside a handler owns a row that has left the waiting
\* statuses, and a row that still waits has had no effect.
RunnerStarted ==
  \A w \in Workers :
    /\ place[w] \in {"claimed", "running", "finish"} => cur[w] \in Ids
    /\ place[w] \in {"running", "finish"} => status[cur[w]] \in {"RUNNING", "SUCCEEDED", "FAILED"}
    /\ place[w] = "running" => effects[cur[w]] = 0

WaitingHasNoEffect ==
  \A i \in Ids : status[i] \in {"ABSENT", "QUEUED", "CLAIMED"} => effects[i] = 0

QueueInv ==
  /\ QueueTypeOK
  /\ NeverReplayed
  /\ RunnerOwnsRow
  /\ RunnerStarted
  /\ WaitingHasNoEffect

\* The queue implements its promise: CommandLedger with the claim, the worker
\* and the process hidden.
Ledger == INSTANCE CommandLedger WITH
  waiting <- {i \in Ids : status[i] \in {"QUEUED", "CLAIMED"}},
  started <- {i \in Ids : status[i] = "RUNNING"},
  closed  <- {i \in Ids : Terminal(i)}

\* A command waits, is started at most once and is closed only after it was
\* started, whatever processes stop, die or overlap.
RefinesLedger == Ledger!LedgerSpec

\* While some backend holds the lock, a queued command is eventually claimed:
\* no command, an EMERGENCY_STOP included, is starved by later ones.
QueuedIsTaken ==
  \A i \in Ids : status[i] = "QUEUED" ~> (status[i] # "QUEUED" \/ lock = NoWorker)
=============================================================================
