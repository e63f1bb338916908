SPECIFICATION FairQueueSpec
CONSTANTS
  Names <- MCNames
  Blocks <- MCBlocks
  Workers = {w1, w2}
  NoWorker = NoWorker
  NoName = NoName
  MaxCommands = 2
INVARIANTS
  NeverReplayed
  RunnerOwnsRow
PROPERTIES
  RefinesLedger
  QueuedIsTaken
\* The bound on workers ends every behaviour.
CHECK_DEADLOCK FALSE
