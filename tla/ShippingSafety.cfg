SPECIFICATION Spec
CONSTANTS
  Obs = {o1, o2}
  Callbacks = {c1, c2}
  Outcomes = {"sent", "failed", "dropped"}
  MayDisable = TRUE
  AlmostFull = 2
  TargetInterval = 2
  MinInterval = 1
  InitialInterval = 1
  c2 = c2
SYMMETRY Symmetry
INVARIANTS
  TrueMeansSent
  NoLostWakeup
  MinIntervalRespected
  IdleIsDone
PROPERTY
  StoreProtocol
