SPECIFICATION Spec
CONSTANTS
  Callbacks <- DailyJob
  ResearchDays <- TwoWeeks
  SessionDays <- FirstHoliday
  MaxTime = 13
  MaxCommands = 3
  MaxLoops = 2
  MaxErrors = 1
  MaxCrashes = 1
CONSTRAINT RevivedForADay
INVARIANTS
  RecordedWasCalled
  OneWeeklyAtATime
  ConsumedByCompletion
  WaitingIsRemembered
PROPERTIES
  OncePerLife
  FailedSitsOut
\* The bounds on time and commands end every behaviour.
CHECK_DEADLOCK FALSE
