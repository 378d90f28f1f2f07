SPECIFICATION Spec
CONSTANTS
  Scenarios <- MCNotCollecting
  SystemProfile <- MCProfile
  Clients = {"c1", "c2"}
  Free = "free"
  max_saved_events = 4
  TicksPerSecond = 3
  Epoch = 10
  kNumSecondsPerDay = 4
  LocalOffset = 1
  kV0EventCodeSize = 2
  kV0NumEventCodes = 5
  kV1EventCodeSize = 3
  kV1NumEventCodes = 4
  kVersionHeaderOffset = 12
  kVersionHeaderSize = 2
  kUint32Size = 4
  max_num_categories = 4
  kBitsPerByte = 2
  kGoMaxOptions = 4
  kGoMaxEventCode = 8
  kGoMaxDimensions = 5
  kMaxAllowedAggregationDays = 2
  kMaxAllowedAggregationHours = 1
  backfill_days = 1
INVARIANT DoNotCollectDrops
CHECK_DEADLOCK FALSE
