SPECIFICATION Spec
CONSTANTS
  k1 = k1
  k2 = k2
  k3 = k3
  Keys = {k1, k2, k3}
  Absent = Absent
  Elem = {e1}
  Opaque = Opaque
  AccessMod = 2
  LfuMax = 1
  ProtNum = 933
  ProtDen = 1000
  Disciplines <- BytesAndHash
  Persistent = FALSE
  Limit = 6
  Policies = {"NoEviction", "AllKeysLRU", "VolatileLRU", "AllKeysLFU", "VolatileLFU", "AllKeysRandom", "VolatileRandom", "VolatileTTL", "2Q"}
  EvictShare = 1
  ExpireArgs = {0, 3}
  Epoch = 1
  MaxTime = 4
INVARIANTS
  MetadataHasData
  BytesAreTracked
PROPERTIES
  VolatileSparesPersistentKeys
