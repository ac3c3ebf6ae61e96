SPECIFICATION Spec
CONSTANTS
  Torn = Torn
  NoFile = NoFile
  NoWorld = NoWorld
  Shapes <- MCFewShapes
  MaxCommands = 3
  RetryAfterError = FALSE
  PowerLossPossible = TRUE
  DirectorySyncFails = TRUE
INVARIANTS
  AckedDurable
  LiveWorldIsDurable
  RecoveryIsFaithful
PROPERTIES
  ImplementsDurableWorld
