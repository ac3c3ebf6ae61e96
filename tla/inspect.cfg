SPECIFICATION ISpec
CONSTANTS
  Torn = Torn
  NoFile = NoFile
  NoWorld = NoWorld
  Shapes <- MCShapes
  MaxCommands = 3
  RetryAfterError = FALSE
  PowerLossPossible = FALSE
  DirectorySyncFails = FALSE
  FromTicks <- MCFromTicks
  Counts <- MCCounts
INVARIANTS
  ShownWorldHappened
  QuietInspectionAnswers
  CountCoversWorld
  DumpIsASave
  ListingIsATail
