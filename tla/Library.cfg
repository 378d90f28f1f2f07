SPECIFICATION Spec
CONSTANTS
  MaxRetries = 4
  UploadTimeouts = {0, 12}
  InitialBackoff = 2
  TicksPerMilli = 2
  Waits = {0, 4, 10}
  PostTimes = {0, 3}
  Overshoots = {0, 1}
  Gaps = {0, 1}
  MaxCalls = 2
  ConfigDirs <- MCConfigDirs
  FlagSets <- MCFlagSets
  kIdRange = 8
  StatusOrs = {x, y, z}
  Values = {"u", "v"}
  LastDay = 49710
  ZoneOffsets = {0, 9}
  Keys <- MCKeys
  Registries <- MCRegistries
  GenerateInterval = 2
  MaxVersion = 1
  MaxRestarts = 2
  MaxTime = 2
INVARIANTS
  TriesAreSpaced
  UploadEventsIsTrue
  
  OutputIsStable
  UnionIsSound
  IndexesFollowTheCalendar
  
  GeneratesOnSchedule
CHECK_DEADLOCK FALSE
