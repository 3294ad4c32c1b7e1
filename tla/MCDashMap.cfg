SPECIFICATION Spec
CONSTANTS
  k1 = k1
  k2 = k2
  k3 = k3
  Keys = {k1, k2, k3}
  Threads = {t1, t2, t3}
  Clearers = {t3}
  NumShards = 2
  ShardIndex <- TwoShards
  SizeMod = 8
  Nobody = Nobody
SYMMETRY ThreadSymmetry
INVARIANTS
  TypeOK
  SizeInRange
  SizeAgrees
  ScanComplete
