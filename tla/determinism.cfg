SPECIFICATION DetSpec
CONSTANTS
  None = None
  ZoneNames <- MCZoneNames
  RngModulus = 16
  Multiplier = 13
  DepletionHits <- MCDepletionHits
  DegradationHits <- MCDegradationHits
  TickLimit = 2
  ReapEvery = 3
  Commands <- MCCommands
  InputTicks <- MCInputTicks
  MaxInputs = 2
  Seed = 5
  TotalTicks = 3
  CheckpointEvery = 2
  NameBytes <- MCNameBytes
INVARIANTS
  EqualVerdictEqualWorld
  ReorderedSchedulesAgree
  InputsRunOnTime
CHECK_DEADLOCK FALSE
