SPECIFICATION Spec
CONSTANTS
  None = None
  ZoneNames <- MCZoneNames
  RngModulus = 16
  Multiplier = 13
  DepletionHits <- MCDepletionHits
  DegradationHits <- MCDegradationHits
  TickLimit = 2
  ReapEvery = 3
  U32 = 8
  Commands <- MCCommands
  MaxEvents = 8
INVARIANTS
  TypeOK
  RecoveryParity
  TwinParity
  SavesDecode
  IdsNeverReused
  DepletionsAddUp
  DeadAreReaped
  TicksAreClosed
PROPERTIES
  BatchesAreShapes
CHECK_DEADLOCK FALSE
