---------------------------- MODULE EntryLedger ----------------------------
(***************************************************************************)
(* What the pending entries of src/src/entry_execution.py promise, whatever*)
(* the quotes, the reviews and the broker do: an entry waits, is tried,    *)
(* goes back to waiting or is done; orders are sent for it only while it   *)
(* is tried; done is final.                                                *)
(***************************************************************************)
EXTENDS Naturals

CONSTANT Entries

VARIABLES
  phase,   \* of each entry
  sent     \* how many orders were sent for it

vars == <<phase, sent>>

Init == /\ phase = [e \in Entries |-> "none"]
        /\ sent = [e \in Entries |-> 0]

Moves(e, from, to) ==
  /\ phase[e] \in from
  /\ phase' = [phase EXCEPT ![e] = to]
  /\ UNCHANGED sent

Capture(e) == Moves(e, {"none"}, "waiting")
Try(e)     == Moves(e, {"waiting"}, "trying")
Return(e)  == Moves(e, {"trying"}, "waiting")
Finish(e)  == Moves(e, {"waiting", "trying"}, "done")

Send(e) == /\ phase[e] = "trying"
           /\ sent' = [sent EXCEPT ![e] = @ + 1]
           /\ UNCHANGED phase

Next == \E e \in Entries : Capture(e) \/ Try(e) \/ Return(e) \/ Finish(e) \/ Send(e)

Spec == Init /\ [][Next]_vars

=============================================================================
