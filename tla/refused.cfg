SPECIFICATION Spec
CONSTANTS
  Torn = Torn
  NoFile = NoFile
  NoWorld = NoWorld
  Shapes <- MCFewShapes
  MaxCommands = 3
  RetryAfterError = FALSE
  PowerLossPossible = FALSE
  DirectorySyncFails = FALSE
INVARIANTS
  RefusedStaysRefused
