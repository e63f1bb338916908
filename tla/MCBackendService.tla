------------------------- MODULE MCBackendService -------------------------
(* Instances of BackendService for TLC: which commands the dashboard and   *)
(* the scheduler queue, besides those the service queues itself.           *)
EXTENDS BackendService

\* Those left out have the handler of another, set one flag, or are queued
\* by the service itself.
OperatorsUse  == OperatorNames \ {"RUN_AI_RESEARCH", "RUN_RISK_CHECK", "STOP_SCHEDULER"}
SchedulerUses == SchedulerNames \ {"RUN_DAILY_POSITION_REVIEW"}

JustEmergencyStop == {"EMERGENCY_STOP"}

\* config.yaml; below the recovery level, between the two, at the hard limit.
MCRiskConfig ==
  [hard |-> 25, recovery |-> 20,
   tiers |-> {[from |-> 10, max |-> 70], [from |-> 15, max |-> 50],
              [from |-> 20, max |-> 25], [from |-> 25, max |-> 0]},
   absolute |-> 100, macroPolicy |-> "cap", macroUnknown |-> 70,
   earnings |-> 50, refuseEarnings |-> FALSE, macroEvent |-> 70]
MCDrawdowns == {0, 22, 25}
=============================================================================
