SPECIFICATION DSpec
CONSTANTS
  Torn = Torn
  NoFile = NoFile
  NoWorld = NoWorld
  Shapes <- MCShapes
  MaxCommands = 4
  RetryAfterError = FALSE
  PowerLossPossible = TRUE
  DirectorySyncFails = FALSE
  TickShapes <- MCTickShapes
  Population = 1
  TickLimits <- MCTickLimits
  SaveInterval = 2
INVARIANTS
  CleanEndIsSaved
  AutoSaveKeepsUp
PROPERTIES
  PopulatingIsRecoverable
  SignalEndsRun
  LimitedRunEnds
CHECK_DEADLOCK FALSE
