SPECIFICATION Spec
CONSTANTS
  Torn = Torn
  NoFile = NoFile
  NoWorld = NoWorld
  Shapes <- MCShapes
  MaxCommands = 4
  RetryAfterError = FALSE
  PowerLossPossible = FALSE
  DirectorySyncFails = FALSE
INVARIANTS
  TypeOK
  WalContiguous
  WholeCommands
  AckedDurable
  LiveWorldIsDurable
  SnapshotCovered
  AlwaysRecoverable
  MetaMirrorsSnapshot
PROPERTIES
  SnapshotsExtend
