SPECIFICATION SSpec
CONSTANTS
  Torn = Torn
  NoFile = NoFile
  NoWorld = NoWorld
  Shapes <- MCShapes
  MaxCommands = 2
  RetryAfterError = FALSE
  PowerLossPossible = FALSE
  DirectorySyncFails = FALSE
INVARIANTS
  AckedDurable
