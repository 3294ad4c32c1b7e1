SPECIFICATION Spec
CONSTANTS
  k1 = k1
  k2 = k2
  k3 = k3
  Keys = {k1, k2}
  Absent = Absent
  Elem = {e1, e2}
  Opaque = Opaque
  AccessMod = 1
  LfuMax = 0
  ProtNum = 933
  ProtDen = 1000
  Disciplines <- AllDisciplines
  Persistent = TRUE
  Limit = 5
  Policies = {"2Q", "AllKeysRandom"}
  EvictShare = 10
  ExpireArgs <- ExpireTimes
  Epoch = 1
  MaxTime = 3
INVARIANTS
  TypeOK
  MetadataHasData
  WriteThrough
  BytesAreTracked
PROPERTIES
  OnlyWritesChangeValues
  DeadlineKept
