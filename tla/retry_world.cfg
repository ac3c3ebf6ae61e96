SPECIFICATION Spec
CONSTANTS
  Torn = Torn
  NoFile = NoFile
  NoWorld = NoWorld
  Shapes <- MCFewShapes
  MaxCommands = 4
  RetryAfterError = TRUE
  PowerLossPossible = FALSE
  DirectorySyncFails = FALSE
INVARIANTS
  RecoveryIsFaithful
