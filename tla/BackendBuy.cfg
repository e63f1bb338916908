SPECIFICATION Spec
CONSTANTS
  OperatorCommands <- JustEmergencyStop
  SchedulerCommands <- SchedulerNames
  RiskConfig <- MCRiskConfig
  Drawdowns <- MCDrawdowns
  MaxQueue = 1
  MaxTrouble = 1
PROPERTIES NoBuyWhileHalted
