SPECIFICATION FairSpec
CONSTANTS
  o1 = o1
  o2 = o2
  o3 = o3
  o4 = o4
  o5 = o5
  o6 = o6
  o7 = o7
  Obs <- MCObs
  ObsSize <- MCObsSize
  max_bytes_per_observation = 2
  max_bytes_per_envelope = 3
  max_bytes_total = 3
  NoHolder = NoHolder
INVARIANTS
  InOnePlace
  SizesAreTrue
PROPERTIES
  StoreSpec
  EveryoneGetsATurn
