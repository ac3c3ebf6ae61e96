SPECIFICATION Spec
CONSTANTS
  None = None
  ZoneNames <- MCZoneNames
  U32 = 2
  Seed = 5
  MaxTick = 1
  U64 = 3
  Zones <- MCZones
  Values <- MCValues
INVARIANTS
  ReplayKeepsSnapshotsValid
CHECK_DEADLOCK FALSE
