SPECIFICATION Spec
CONSTANTS
  OperatorCommands <- OperatorsUse
  SchedulerCommands <- SchedulerUses
  RiskConfig <- MCRiskConfig
  Drawdowns <- MCDrawdowns
  MaxQueue = 1
  MaxTrouble = 1
INVARIANTS HaltIsEnforced
PROPERTIES ResearchRespectsHalt
