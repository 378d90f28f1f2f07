SPECIFICATION Spec
CONSTANTS
  small = small
  large = large
  Protos = {small, large}
  Size <- OneSize
  NotFound = NotFound
  Corrupt = Corrupt
  Torn = Torn
  NoFile = NoFile
  Faults = {"open", "serialize", "rename", "delete", "crash"}
PROPERTY RegisterSpec
