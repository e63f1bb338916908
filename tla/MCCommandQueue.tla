-------------------------- MODULE MCCommandQueue --------------------------
(* Instance of CommandQueue for TLC.                                       *)
EXTENDS CommandQueue

\* RUN_PENDING_ENTRIES is inserted unguarded by the scheduler and guarded by
\* the broker recovery; EMERGENCY_STOP is only inserted unguarded.
MCNames  == {"RUN_PENDING_ENTRIES", "EMERGENCY_STOP"}
MCBlocks == [n \in MCNames |-> IF n = "RUN_PENDING_ENTRIES" THEN {n} ELSE {}]
=============================================================================
