SPECIFICATION Spec
CONSTANTS
  Keys = {k1, k2, k3, k4, k5}
  ProtNum = 1
  ProtDen = 2
INVARIANTS
  TypeOK
  QueuesMatchState
  ProtectedInLRUOrder
PROPERTIES
  DemotionTakesLRU
  ProtectedVictimIsLRU
  PromotionLeavesProbation
