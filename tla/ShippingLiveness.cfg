SPECIFICATION FairSpec
CONSTANTS
  Obs = {o1, o2}
  Callbacks = {c1}
  Outcomes = {"sent", "failed"}
  MayDisable = TRUE
  AlmostFull = 2
  TargetInterval = 2
  MinInterval = 1
  InitialInterval = 1
PROPERTIES
  CallbacksAnswered
  WorkerExits
  EverythingSent
