SPECIFICATION Spec
CONSTANTS
  Torn = Torn
  NoFile = NoFile
  NoWorld = NoWorld
  Shapes <- MCShapes
  MaxCommands = 4
  RetryAfterError = TRUE
  PowerLossPossible = FALSE
  DirectorySyncFails = FALSE
PROPERTIES
  SnapshotsExtend
  EffectsAreAcknowledged
