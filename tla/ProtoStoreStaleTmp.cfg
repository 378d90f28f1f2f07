SPECIFICATION Spec
CONSTANTS
  small = small
  large = large
  Protos = {small, large}
  Size <- MixedSizes
  NotFound = NotFound
  Corrupt = Corrupt
  Torn = Torn
  NoFile = NoFile
  Faults = {"crash"}
INVARIANT UnfinishedTmpIsHarmless
