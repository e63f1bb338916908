--------------------------- MODULE CommandLedger ---------------------------
(***************************************************************************)
(* What the control-command queue promises, without workers, claims or     *)
(* processes: a submitted command waits, is started at most once, and is   *)
(* closed only after it was started.  A command is never moved back from   *)
(* "started": this is the sentence "running commands are never replayed"   *)
(* of src/src/storage.py:412.  CommandQueue.tla is shown to implement it.  *)
(***************************************************************************)
CONSTANT Ids          \* every command id the table can hold

VARIABLES waiting,    \* submitted, no side effect yet
          started,    \* handed to a handler, side effects possible
          closed      \* a final status is recorded

ledgerVars == <<waiting, started, closed>>

LedgerInit ==
  /\ waiting = {}
  /\ started = {}
  /\ closed = {}

Submit(i) ==
  /\ i \notin waiting \cup started \cup closed
  /\ waiting' = waiting \cup {i}
  /\ UNCHANGED <<started, closed>>

Start(i) ==
  /\ i \in waiting
  /\ waiting' = waiting \ {i}
  /\ started' = started \cup {i}
  /\ UNCHANGED closed

\* One recovery transaction may close several abandoned commands at once.
Close(S) ==
  /\ S \subseteq started
  /\ started' = started \ S
  /\ closed' = closed \cup S
  /\ UNCHANGED waiting

LedgerNext ==
  \/ \E i \in Ids : Submit(i) \/ Start(i)
  \/ \E S \in SUBSET Ids : Close(S)

LedgerSpec == LedgerInit /\ [][LedgerNext]_ledgerVars
=============================================================================
