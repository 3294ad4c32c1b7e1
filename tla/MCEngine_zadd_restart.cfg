SPECIFICATION Spec
CONSTANTS
  k1 = k1
  k2 = k2
  k3 = k3
  Keys = {k1}
  Absent = Absent
  Elem = {e1, e2}
  Opaque = Opaque
  AccessMod = 1
  LfuMax = 0
  ProtNum = 933
  ProtDen = 1000
  Disciplines <- AllZSets
  Persistent = TRUE
  Limit = 0
  Policies = {"2Q"}
  EvictShare = 10
  ExpireArgs = {}
  Epoch = 1
  MaxTime = 3
PROPERTIES
  AddKeepsMembers
