SPECIFICATION Spec
CONSTANTS
  o1 = o1
  o2 = o2
  o3 = o3
  m1 = m1
  m2 = m2
  Obs = {o1, o2, o3}
  Metadata = {m1, m2}
  Meta <- MCMeta
  ObsSize <- MCObsSize
  max_bytes_per_observation = 2
  max_bytes_per_envelope = 3
  max_bytes_total = 4
  MaxFaults = 2
  MaxFile = 3
  Word = 64
  Faults = {"open", "write", "flush", "rename", "delete", "undeleted", "crash"}
  NoFile = NoFile
  NoStream = NoStream
  NoMeta = NoMeta
  NoHolder = NoHolder
INVARIANTS
  BatchIsOpen
  OwnMetadata
  AckedIsKept
  AccountingIsExact
  TakenIsHeld
  UploadedOnce
