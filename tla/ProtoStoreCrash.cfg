SPECIFICATION Spec
CONSTANTS
  small = small
  large = large
  Protos = {small, large}
  Size <- MixedSizes
  NotFound = NotFound
  Corrupt = Corrupt
  Torn = Torn
  NoFile = NoFile
  Faults = {"open", "serialize", "flush", "rename", "delete", "crash"}
INVARIANT Inv
