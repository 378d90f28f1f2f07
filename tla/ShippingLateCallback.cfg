SPECIFICATION Spec
CONSTANTS
  Obs = {o1, o2}
  Callbacks = {c1}
  Outcomes = {"sent", "failed"}
  MayDisable = FALSE
  AlmostFull = 2
  TargetInterval = 2
  MinInterval = 1
  InitialInterval = 1
INVARIANT TrueMeansAllSent
