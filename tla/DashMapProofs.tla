--------------------------- MODULE DashMapProofs ----------------------------
(***************************************************************************)
(* Type correctness of DashMap, the completeness of its scans and the      *)
(* accuracy of size_, for any number of threads, keys and shards, with     *)
(* threads that clear the map.                                             *)
(*                                                                         *)
(* The inductive invariant ScanInv says of a scan in progress what         *)
(* ScanComplete says of one that is over: of the shards behind it, it has  *)
(* every key that has been there all the time.                             *)
(*                                                                         *)
(* SizeInv says what size_ counts at every moment: a set of keys that      *)
(* differs from the map in at most one key of each locked shard, the one   *)
(* that the holder of the shard's mutex has inserted or removed and has    *)
(* still to count.                                                         *)
(***************************************************************************)
EXTENDS DashMap, FiniteSetTheorems, TLAPS

\* What holds of thread t's scan while it is under way
InProgress(t) ==
  /\ stable[t] \subseteq map
  /\ map \subseteq ever[t]
  /\ seen[t] \subseteq ever[t]
  /\ \A k \in stable[t] : ShardIndex[k] < next[t] => k \in seen[t]

Over(t) ==
  /\ stable[t] \subseteq seen[t]
  /\ seen[t] \subseteq ever[t]

\* The inductive invariant
ScanInv ==
  \A t \in Threads :
    /\ pc[t] = "scanning" => InProgress(t)
    /\ pc[t] = "scanned" => Over(t)

-----------------------------------------------------------------------------
LEMMA InitInv == Init => TypeOK /\ ScanInv
<1> SUFFICES ASSUME Init PROVE TypeOK /\ ScanInv
  OBVIOUS
<1>1. 0 \in 0..(SizeMod - 1) /\ 1 \in 1..(NumShards + 1)
  <2>1. Cardinality(Keys) \in Nat
    BY DashMapAssumption, FS_CardinalityType
  <2> QED
    BY <2>1, DashMapAssumption
<1>2. TypeOK
  BY <1>1 DEF Init, TypeOK, PC
<1>3. ScanInv
  BY DEF Init, ScanInv
<1> QED
  BY <1>2, <1>3

\* Every step keeps the types.
LEMMA NextType ==
  ASSUME TypeOK, [Next]_vars
  PROVE  TypeOK'
<1> USE DEF TypeOK, PC, Go
<1>1. SizeMod \in Nat \ {0} /\ NumShards \in Nat
  <2>1. Cardinality(Keys) \in Nat
    BY DashMapAssumption, FS_CardinalityType
  <2> QED
    BY <2>1, DashMapAssumption
<1>2. \A k \in Keys : ShardIndex[k] \in Shards
  BY DashMapAssumption
<1>3. \A n \in Int : n % SizeMod \in 0..(SizeMod - 1)
  BY <1>1
<1>4. 1 \in 1..(NumShards + 1) /\ \A n \in Shards : n + 1 \in 1..(NumShards + 1)
  BY <1>1 DEF Shards
<1>5. 0 \in 0..(SizeMod - 1) /\ size \in Int
  BY <1>1
<1>6. ASSUME NEW t \in Threads
      PROVE  Unlocked(t) \in [Shards -> Threads \cup {Nobody}]
  BY DEF Unlocked
<1>7. ASSUME NEW k \in Keys
      PROVE  Gained(k) \in [Threads -> SUBSET Keys]
  BY <1>7 DEF Gained
<1>8. ASSUME NEW S
      PROVE  Lost(S) \in [Threads -> SUBSET Keys]
  BY DEF Lost
<1>9. ASSUME NEW t \in Threads, NEW k \in Keys, Insert(t, k)
      PROVE  TypeOK'
  BY <1>2, <1>7, <1>9 DEF Insert
<1>10. ASSUME NEW t \in Threads, NEW k \in Keys, Remove(t, k)
       PROVE  TypeOK'
  BY <1>2, <1>8, <1>10 DEF Remove
<1>11. ASSUME NEW t \in Threads, InsertCount(t)
       PROVE  TypeOK'
  BY <1>3, <1>5, <1>6, <1>11 DEF InsertCount
<1>12. ASSUME NEW t \in Threads, RemoveCount(t)
       PROVE  TypeOK'
  BY <1>3, <1>5, <1>6, <1>12 DEF RemoveCount
<1>13. ASSUME NEW t \in Threads, ScanBegin(t)
       PROVE  TypeOK'
  BY <1>4, <1>13 DEF ScanBegin
<1>14. ASSUME NEW t \in Threads, ScanShard(t)
       PROVE  TypeOK'
  BY <1>4, <1>14 DEF ScanShard, Content
<1>15. ASSUME NEW t \in Threads, ScanReturn(t)
       PROVE  TypeOK'
  BY <1>15 DEF ScanReturn
<1>16. ASSUME NEW t \in Threads, ScanForget(t)
       PROVE  TypeOK'
  BY <1>4, <1>16 DEF ScanForget
<1>17. ASSUME NEW t \in Threads, ClearBegin(t)
       PROVE  TypeOK'
  BY <1>4, <1>17 DEF ClearBegin
<1>18. ASSUME NEW t \in Threads, ClearShard(t)
       PROVE  TypeOK'
  BY <1>4, <1>8, <1>18 DEF ClearShard
<1>19. ASSUME NEW t \in Threads, ClearSize(t)
       PROVE  TypeOK'
  BY <1>4, <1>5, <1>19 DEF ClearSize
<1>20. CASE UNCHANGED vars
  BY <1>20 DEF vars
<1> QED
  BY <1>9, <1>10, <1>11, <1>12, <1>13, <1>14, <1>15, <1>16, <1>17, <1>18, <1>19, <1>20
  DEF Next

\* Every step keeps what is known of each scan.
LEMMA NextScan ==
  ASSUME TypeOK, ScanInv, [Next]_vars
  PROVE  ScanInv'
<1> SUFFICES ASSUME NEW u \in Threads
             PROVE  /\ pc'[u] = "scanning" => InProgress(u)'
                    /\ pc'[u] = "scanned" => Over(u)'
  BY DEF ScanInv
<1> DEFINE Goal == /\ pc'[u] = "scanning" => InProgress(u)'
                   /\ pc'[u] = "scanned" => Over(u)'
<1>0. /\ pc[u] = "scanning" => InProgress(u)
      /\ pc[u] = "scanned" => Over(u)
  BY DEF ScanInv
<1> USE DEF InProgress, Over, Go
<1>1. ASSUME NEW t \in Threads, NEW k \in Keys, Insert(t, k)
      PROVE  Goal
  <2>1. /\ map' = map \cup {k} /\ pc' = [pc EXCEPT ![t] = "inserted"]
        /\ ever'[u] = IF pc[u] = "scanning" THEN ever[u] \cup {k} ELSE ever[u]
        /\ seen' = seen /\ stable' = stable /\ next' = next
    BY <1>1 DEF Insert, Gained, Scanning
  <2> QED
    BY <1>0, <2>1 DEF TypeOK
<1>2. ASSUME NEW t \in Threads, NEW k \in Keys, Remove(t, k)
      PROVE  Goal
  <2>1. /\ map' = map \ {k} /\ pc' = [pc EXCEPT ![t] = "removed"]
        /\ stable'[u] = IF pc[u] = "scanning" THEN stable[u] \ {k} ELSE stable[u]
        /\ seen' = seen /\ ever' = ever /\ next' = next
    BY <1>2 DEF Remove, Lost, Scanning
  <2> QED
    BY <1>0, <2>1 DEF TypeOK
<1>3. ASSUME NEW t \in Threads, InsertCount(t) \/ RemoveCount(t)
      PROVE  Goal
  BY <1>0, <1>3 DEF InsertCount, RemoveCount, TypeOK
<1>4. ASSUME NEW t \in Threads, ScanBegin(t)
      PROVE  Goal
  <2>1. CASE u = t
    <3>1. /\ pc'[u] = "scanning" /\ next'[u] = 1 /\ seen'[u] = {}
          /\ stable'[u] = map /\ ever'[u] = map /\ map' = map
      BY <1>4, <2>1 DEF ScanBegin, TypeOK
    <3>2. \A k \in map : ~(ShardIndex[k] < 1)
      BY DashMapAssumption DEF TypeOK, Shards
    <3> QED
      BY <3>1, <3>2
  <2>2. CASE u # t
    BY <1>0, <1>4, <2>2 DEF ScanBegin, TypeOK
  <2> QED
    BY <2>1, <2>2
<1>5. ASSUME NEW t \in Threads, ScanShard(t)
      PROVE  Goal
  <2>1. CASE u = t
    <3>1. /\ pc[u] = "scanning" /\ pc'[u] = "scanning" /\ map' = map
          /\ stable' = stable /\ ever' = ever
          /\ seen'[u] = seen[u] \cup Content(next[u]) /\ next'[u] = next[u] + 1
      BY <1>5, <2>1 DEF ScanShard, TypeOK
    <3>2. ASSUME NEW k \in stable[u], ShardIndex[k] < next[u] + 1
          PROVE  k \in seen[u] \cup Content(next[u])
      <4>1. ShardIndex[k] \in Int /\ next[u] \in Int /\ k \in map
        BY <1>0, <3>1, DashMapAssumption DEF TypeOK, Shards
      <4>2. CASE ShardIndex[k] < next[u]
        BY <1>0, <3>1, <4>2
      <4>3. CASE ShardIndex[k] = next[u]
        BY <4>1, <4>3 DEF Content
      <4> QED
        BY <3>2, <4>1, <4>2, <4>3
    <3>3. Content(next[u]) \subseteq map
      BY DEF Content
    <3> QED
      BY <1>0, <3>1, <3>2, <3>3
  <2>2. CASE u # t
    BY <1>0, <1>5, <2>2 DEF ScanShard, TypeOK
  <2> QED
    BY <2>1, <2>2
<1>6. ASSUME NEW t \in Threads, ScanReturn(t)
      PROVE  Goal
  <2>1. CASE u = t
    <3>1. /\ pc[u] = "scanning" /\ pc'[u] = "scanned" /\ next[u] = NumShards + 1
          /\ stable' = stable /\ ever' = ever /\ seen' = seen
      BY <1>6, <2>1 DEF ScanReturn, ScanDone, TypeOK
    <3>2. \A k \in stable[u] : ShardIndex[k] < NumShards + 1
      BY <1>0, <3>1, DashMapAssumption DEF TypeOK, Shards
    <3> QED
      BY <1>0, <3>1, <3>2
  <2>2. CASE u # t
    BY <1>0, <1>6, <2>2 DEF ScanReturn, TypeOK
  <2> QED
    BY <2>1, <2>2
<1>7. ASSUME NEW t \in Threads, ScanForget(t)
      PROVE  Goal
  BY <1>0, <1>7 DEF ScanForget, TypeOK
<1>8. ASSUME NEW t \in Threads, ClearBegin(t) \/ ClearSize(t)
      PROVE  Goal
  BY <1>0, <1>8 DEF ClearBegin, ClearSize, TypeOK
<1>9. ASSUME NEW t \in Threads, ClearShard(t)
      PROVE  Goal
  <2>1. /\ map' = map \ Content(next[t]) /\ pc' = pc /\ pc[t] = "clearing"
        /\ stable'[u] = IF pc[u] = "scanning" THEN stable[u] \ Content(next[t]) ELSE stable[u]
        /\ seen' = seen /\ ever' = ever /\ next' = [next EXCEPT ![t] = @ + 1]
    BY <1>9 DEF ClearShard, Lost, Scanning
  <2>2. u # t => next'[u] = next[u]
    BY <2>1 DEF TypeOK
  <2> QED
    BY <1>0, <2>1, <2>2
<1>10. CASE UNCHANGED vars
  BY <1>0, <1>10 DEF vars
<1> QED
  BY <1>1, <1>2, <1>3, <1>4, <1>5, <1>6, <1>7, <1>8, <1>9, <1>10 DEF Next

-----------------------------------------------------------------------------
(* The size.  A thread is between the two halves of an insertion or a      *)
(* removal exactly while it holds the mutex of one shard.                  *)

Working(t) == pc[t] \in {"inserted", "removed"}

LockInv ==
  /\ \A s \in Shards : mutex[s] # Nobody => Working(mutex[s])
  /\ \A r, s \in Shards : mutex[r] # Nobody /\ mutex[r] = mutex[s] => r = s
  /\ \A t \in Threads : Working(t) => \E s \in Shards : mutex[s] = t

ClearInv == \A t \in Threads : pc[t] = "clearing" => cleared

\* In shard s, C and the map differ in k alone.
DifferIn(C, s, k) ==
  \A j \in Keys : ShardIndex[j] = s /\ j # k => (j \in C <=> j \in map)

\* The holder of the mutex of shard s has inserted a key and not counted it,
\* or removed one that is still counted.
Uncounted(C, s) ==
  \E k \in Keys : ShardIndex[k] = s /\ k \in map /\ k \notin C /\ DifferIn(C, s, k)

Overcounted(C, s) ==
  \E k \in Keys : ShardIndex[k] = s /\ k \notin map /\ k \in C /\ DifferIn(C, s, k)

\* size_ counts the keys in C.
Counted(C) ==
  /\ C \subseteq Keys
  /\ size = Cardinality(C)
  /\ \A k \in Keys : mutex[ShardIndex[k]] = Nobody => (k \in C <=> k \in map)
  /\ \A s \in Shards : mutex[s] # Nobody =>
       /\ pc[mutex[s]] = "inserted" => Uncounted(C, s)
       /\ pc[mutex[s]] = "removed" => Overcounted(C, s)

SizeInv ==
  /\ LockInv
  /\ ClearInv
  /\ ~cleared => \E C \in SUBSET Keys : Counted(C)

LEMMA InitSize == Init => SizeInv
<1> SUFFICES ASSUME Init PROVE SizeInv
  OBVIOUS
<1>1. LockInv /\ ClearInv
  BY DEF Init, LockInv, ClearInv, Working
<1>2. Cardinality({}) = 0
  BY FS_EmptySet
<1>3. Counted({})
  BY <1>2, DashMapAssumption DEF Init, Counted
<1> QED
  BY <1>1, <1>3 DEF SizeInv

\* What the mutexes say is kept.
LEMMA NextLock ==
  ASSUME TypeOK, LockInv, [Next]_vars
  PROVE  LockInv'
<1> USE DEF LockInv, Working, Go, Free
<1>1. \A k \in Keys : ShardIndex[k] \in Shards
  BY DashMapAssumption
<1>2. Nobody \notin Threads
  BY DashMapAssumption
<1>3. ASSUME NEW t \in Threads, NEW k \in Keys, Insert(t, k)
      PROVE  LockInv'
  BY <1>1, <1>2, <1>3 DEF Insert, TypeOK
<1>4. ASSUME NEW t \in Threads, NEW k \in Keys, Remove(t, k)
      PROVE  LockInv'
  BY <1>1, <1>2, <1>4 DEF Remove, TypeOK
<1>5. ASSUME NEW t \in Threads, InsertCount(t) \/ RemoveCount(t)
      PROVE  LockInv'
  BY <1>2, <1>5 DEF InsertCount, RemoveCount, Unlocked, TypeOK
<1>6. ASSUME NEW t \in Threads,
             ScanBegin(t) \/ ScanShard(t) \/ ScanReturn(t) \/ ScanForget(t)
      PROVE  LockInv'
  BY <1>6 DEF ScanBegin, ScanShard, ScanReturn, ScanForget, TypeOK
<1>7. ASSUME NEW t \in Threads, ClearBegin(t) \/ ClearShard(t) \/ ClearSize(t)
      PROVE  LockInv'
  BY <1>7 DEF ClearBegin, ClearShard, ClearSize, TypeOK
<1>8. CASE UNCHANGED vars
  BY <1>8 DEF vars
<1> QED
  BY <1>3, <1>4, <1>5, <1>6, <1>7, <1>8 DEF Next

LEMMA NextClear ==
  ASSUME TypeOK, ClearInv, [Next]_vars
  PROVE  ClearInv'
<1> USE DEF ClearInv, Go, TypeOK
<1>1. CASE UNCHANGED vars
  BY <1>1 DEF vars
<1>2. ASSUME NEW t \in Threads, NEW k \in Keys, Insert(t, k) \/ Remove(t, k)
      PROVE  ClearInv'
  BY <1>2 DEF Insert, Remove
<1>3. ASSUME NEW t \in Threads, InsertCount(t) \/ RemoveCount(t)
      PROVE  ClearInv'
  BY <1>3 DEF InsertCount, RemoveCount
<1>4. ASSUME NEW t \in Threads,
             ScanBegin(t) \/ ScanShard(t) \/ ScanReturn(t) \/ ScanForget(t)
      PROVE  ClearInv'
  BY <1>4 DEF ScanBegin, ScanShard, ScanReturn, ScanForget
<1>5. ASSUME NEW t \in Threads, ClearBegin(t) \/ ClearShard(t) \/ ClearSize(t)
      PROVE  ClearInv'
  BY <1>5 DEF ClearBegin, ClearShard, ClearSize
<1> QED
  BY <1>1, <1>2, <1>3, <1>4, <1>5 DEF Next

\* Sets of keys, and what one key more or less does to their number
LEMMA KeySets ==
  ASSUME NEW C \in SUBSET Keys
  PROVE  /\ Cardinality(C) \in Nat /\ Cardinality(C) <= Cardinality(Keys)
         /\ \A k \in Keys : k \notin C => Cardinality(C \cup {k}) = Cardinality(C) + 1
         /\ \A k \in C : Cardinality(C \ {k}) = Cardinality(C) - 1
<1>1. IsFiniteSet(Keys) /\ IsFiniteSet(C)
  BY DashMapAssumption, FS_Subset
<1> QED
  BY <1>1, FS_Subset, FS_CardinalityType, FS_AddElement, FS_RemoveElement

\* fetch_add and fetch_sub do not wrap.
LEMMA CountStep ==
  ASSUME NEW C \in SUBSET Keys, size = Cardinality(C)
  PROVE  /\ \A k \in Keys : k \notin C => (size + 1) % SizeMod = Cardinality(C \cup {k})
         /\ \A k \in C : (size - 1) % SizeMod = Cardinality(C \ {k})
<1>1. Cardinality(Keys) \in Nat /\ SizeMod \in Nat /\ SizeMod > Cardinality(Keys)
  BY DashMapAssumption, FS_CardinalityType
<1>2. ASSUME NEW k \in Keys, k \notin C
      PROVE  (size + 1) % SizeMod = Cardinality(C \cup {k})
  <2>1. C \cup {k} \in SUBSET Keys
    OBVIOUS
  <2>2. /\ Cardinality(C \cup {k}) = size + 1 /\ size \in Nat
        /\ Cardinality(C \cup {k}) <= Cardinality(Keys)
    BY <1>2, <2>1, KeySets
  <2> QED
    BY <1>1, <2>2
<1>3. ASSUME NEW k \in C
      PROVE  (size - 1) % SizeMod = Cardinality(C \ {k})
  <2>1. C \ {k} \in SUBSET Keys
    OBVIOUS
  <2>2. /\ Cardinality(C \ {k}) = size - 1 /\ size - 1 \in Nat
        /\ Cardinality(C \ {k}) <= Cardinality(Keys)
    BY <1>3, <2>1, KeySets
  <2> QED
    BY <1>1, <2>2
<1> QED
  BY <1>2, <1>3

LEMMA NextCounted ==
  ASSUME TypeOK, LockInv, ClearInv, ~cleared, ~cleared', [Next]_vars,
         NEW C \in SUBSET Keys, Counted(C)
  PROVE  \E D \in SUBSET Keys : Counted(D)'
<1> USE DEF Go
<1>0. /\ \A k \in Keys : ShardIndex[k] \in Shards
      /\ Nobody \notin Threads
  BY DashMapAssumption
<1>1. ASSUME NEW t \in Threads, NEW k \in Keys, Insert(t, k)
      PROVE  Counted(C)'
  <2>1. /\ map' = map \cup {k} /\ size' = size /\ k \notin map
        /\ mutex' = [mutex EXCEPT ![ShardIndex[k]] = t] /\ mutex[ShardIndex[k]] = Nobody
        /\ pc' = [pc EXCEPT ![t] = "inserted"] /\ pc[t] = "idle"
    BY <1>1 DEF Insert, Free
  <2>2. k \notin C
    BY <2>1 DEF Counted
  <2>3. Uncounted(C, ShardIndex[k])'
    BY <2>1, <2>2 DEF Uncounted, DifferIn, Counted
  <2>4. ASSUME NEW s \in Shards, s # ShardIndex[k], mutex[s] # Nobody
        PROVE  /\ mutex'[s] = mutex[s] /\ pc'[mutex[s]] = pc[mutex[s]]
               /\ Uncounted(C, s) => Uncounted(C, s)'
               /\ Overcounted(C, s) => Overcounted(C, s)'
    <3>1. mutex'[s] = mutex[s] /\ pc'[mutex[s]] = pc[mutex[s]]
      BY <1>0, <2>1, <2>4 DEF TypeOK, LockInv, Working
    <3>2. Uncounted(C, s) => Uncounted(C, s)'
      BY <2>1, <2>4 DEF Uncounted, DifferIn
    <3>3. Overcounted(C, s) => Overcounted(C, s)'
      BY <2>1, <2>4 DEF Overcounted, DifferIn
    <3> QED
      BY <3>1, <3>2, <3>3
  <2>5. mutex'[ShardIndex[k]] = t /\ pc'[t] = "inserted"
    BY <1>0, <2>1 DEF TypeOK
  <2>6. \A j \in Keys : mutex'[ShardIndex[j]] = Nobody => (j \in C <=> j \in map')
    BY <1>0, <2>1 DEF TypeOK, Counted
  <2>7. ASSUME NEW s \in Shards, mutex'[s] # Nobody
        PROVE  /\ pc'[mutex'[s]] = "inserted" => Uncounted(C, s)'
               /\ pc'[mutex'[s]] = "removed" => Overcounted(C, s)'
    <3>1. CASE s = ShardIndex[k]
      BY <2>3, <2>5, <3>1
    <3>2. CASE s # ShardIndex[k]
      <4>1. mutex[s] # Nobody
        BY <2>1, <2>7, <3>2 DEF TypeOK
      <4> QED
        BY <2>4, <3>2, <4>1 DEF Counted
    <3> QED
      BY <3>1, <3>2
  <2> QED
    BY <2>1, <2>6, <2>7 DEF Counted
<1>2. ASSUME NEW t \in Threads, NEW k \in Keys, Remove(t, k)
      PROVE  Counted(C)'
  <2>1. /\ map' = map \ {k} /\ size' = size /\ k \in map
        /\ mutex' = [mutex EXCEPT ![ShardIndex[k]] = t] /\ mutex[ShardIndex[k]] = Nobody
        /\ pc' = [pc EXCEPT ![t] = "removed"] /\ pc[t] = "idle"
    BY <1>2 DEF Remove, Free
  <2>2. k \in C
    BY <2>1 DEF Counted
  <2>3. Overcounted(C, ShardIndex[k])'
    BY <2>1, <2>2 DEF Overcounted, DifferIn, Counted
  <2>4. ASSUME NEW s \in Shards, s # ShardIndex[k], mutex[s] # Nobody
        PROVE  /\ mutex'[s] = mutex[s] /\ pc'[mutex[s]] = pc[mutex[s]]
               /\ Uncounted(C, s) => Uncounted(C, s)'
               /\ Overcounted(C, s) => Overcounted(C, s)'
    <3>1. mutex'[s] = mutex[s] /\ pc'[mutex[s]] = pc[mutex[s]]
      BY <1>0, <2>1, <2>4 DEF TypeOK, LockInv, Working
    <3>2. Uncounted(C, s) => Uncounted(C, s)'
      BY <2>1, <2>4 DEF Uncounted, DifferIn
    <3>3. Overcounted(C, s) => Overcounted(C, s)'
      BY <2>1, <2>4 DEF Overcounted, DifferIn
    <3> QED
      BY <3>1, <3>2, <3>3
  <2>5. mutex'[ShardIndex[k]] = t /\ pc'[t] = "removed"
    BY <1>0, <2>1 DEF TypeOK
  <2>6. \A j \in Keys : mutex'[ShardIndex[j]] = Nobody => (j \in C <=> j \in map')
    BY <1>0, <2>1 DEF TypeOK, Counted
  <2>7. ASSUME NEW s \in Shards, mutex'[s] # Nobody
        PROVE  /\ pc'[mutex'[s]] = "inserted" => Uncounted(C, s)'
               /\ pc'[mutex'[s]] = "removed" => Overcounted(C, s)'
    <3>1. CASE s = ShardIndex[k]
      BY <2>3, <2>5, <3>1
    <3>2. CASE s # ShardIndex[k]
      <4>1. mutex[s] # Nobody
        BY <2>1, <2>7, <3>2 DEF TypeOK
      <4> QED
        BY <2>4, <3>2, <4>1 DEF Counted
    <3> QED
      BY <3>1, <3>2
  <2> QED
    BY <2>1, <2>6, <2>7 DEF Counted
<1>3. ASSUME NEW t \in Threads, InsertCount(t)
      PROVE  \E D \in SUBSET Keys : Counted(D)'
  <2>1. PICK s \in Shards : mutex[s] = t
    BY <1>3 DEF InsertCount, LockInv, Working
  <2>2. PICK k \in Keys : /\ ShardIndex[k] = s /\ k \in map /\ k \notin C
                          /\ DifferIn(C, s, k)
    BY <1>0, <1>3, <2>1 DEF InsertCount, Counted, Uncounted
  <2> DEFINE D == C \cup {k}
  <2>3. D \in SUBSET Keys /\ size' = Cardinality(D) /\ map' = map
    BY <1>3, <2>2, CountStep DEF InsertCount, Counted
  <2>4. \A j \in Keys : ShardIndex[j] = s => (j \in D <=> j \in map)
    BY <2>2 DEF DifferIn
  <2>5. \A r \in Shards : mutex'[r] = IF r = s THEN Nobody ELSE mutex[r]
    BY <1>0, <1>3, <2>1 DEF InsertCount, Unlocked, LockInv
  <2>6. \A j \in Keys : mutex'[ShardIndex[j]] = Nobody => (j \in D <=> j \in map)
    BY <1>0, <2>2, <2>4, <2>5 DEF Counted
  <2>7. ASSUME NEW r \in Shards, mutex'[r] # Nobody
        PROVE  /\ pc'[mutex'[r]] = "inserted" => Uncounted(D, r)'
               /\ pc'[mutex'[r]] = "removed" => Overcounted(D, r)'
    <3>1. r # s /\ mutex'[r] = mutex[r] /\ mutex[r] # Nobody
      BY <2>5, <2>7
    <3>2. mutex[r] # t /\ pc'[mutex[r]] = pc[mutex[r]]
      BY <1>0, <1>3, <2>1, <3>1 DEF InsertCount, LockInv, TypeOK
    <3>3. Uncounted(C, r) => Uncounted(D, r)'
      BY <2>2, <2>3, <3>1 DEF Uncounted, DifferIn
    <3>4. Overcounted(C, r) => Overcounted(D, r)'
      BY <2>2, <2>3, <3>1 DEF Overcounted, DifferIn
    <3> QED
      BY <3>1, <3>2, <3>3, <3>4 DEF Counted
  <2>8. Counted(D)'
    BY <2>3, <2>6, <2>7 DEF Counted
  <2> QED
    BY <2>3, <2>8
<1>4. ASSUME NEW t \in Threads, RemoveCount(t)
      PROVE  \E D \in SUBSET Keys : Counted(D)'
  <2>1. PICK s \in Shards : mutex[s] = t
    BY <1>4 DEF RemoveCount, LockInv, Working
  <2>2. PICK k \in Keys : /\ ShardIndex[k] = s /\ k \notin map /\ k \in C
                          /\ DifferIn(C, s, k)
    BY <1>0, <1>4, <2>1 DEF RemoveCount, Counted, Overcounted
  <2> DEFINE D == C \ {k}
  <2>3. D \in SUBSET Keys /\ size' = Cardinality(D) /\ map' = map
    BY <1>4, <2>2, CountStep DEF RemoveCount, Counted
  <2>4. \A j \in Keys : ShardIndex[j] = s => (j \in D <=> j \in map)
    BY <2>2 DEF DifferIn
  <2>5. \A r \in Shards : mutex'[r] = IF r = s THEN Nobody ELSE mutex[r]
    BY <1>0, <1>4, <2>1 DEF RemoveCount, Unlocked, LockInv
  <2>6. \A j \in Keys : mutex'[ShardIndex[j]] = Nobody => (j \in D <=> j \in map)
    BY <1>0, <2>2, <2>4, <2>5 DEF Counted
  <2>7. ASSUME NEW r \in Shards, mutex'[r] # Nobody
        PROVE  /\ pc'[mutex'[r]] = "inserted" => Uncounted(D, r)'
               /\ pc'[mutex'[r]] = "removed" => Overcounted(D, r)'
    <3>1. r # s /\ mutex'[r] = mutex[r] /\ mutex[r] # Nobody
      BY <2>5, <2>7
    <3>2. mutex[r] # t /\ pc'[mutex[r]] = pc[mutex[r]]
      BY <1>0, <1>4, <2>1, <3>1 DEF RemoveCount, LockInv, TypeOK
    <3>3. Uncounted(C, r) => Uncounted(D, r)'
      BY <2>2, <2>3, <3>1 DEF Uncounted, DifferIn
    <3>4. Overcounted(C, r) => Overcounted(D, r)'
      BY <2>2, <2>3, <3>1 DEF Overcounted, DifferIn
    <3> QED
      BY <3>1, <3>2, <3>3, <3>4 DEF Counted
  <2>8. Counted(D)'
    BY <2>3, <2>6, <2>7 DEF Counted
  <2> QED
    BY <2>3, <2>8
<1>5. ASSUME NEW t \in Threads,
             ScanBegin(t) \/ ScanShard(t) \/ ScanReturn(t) \/ ScanForget(t)
      PROVE  Counted(C)'
  <2>1. /\ map' = map /\ size' = size /\ mutex' = mutex
        /\ \A s \in Shards : mutex[s] # Nobody => pc'[mutex[s]] = pc[mutex[s]]
    BY <1>5 DEF ScanBegin, ScanShard, ScanReturn, ScanForget, LockInv, Working, TypeOK
  <2> QED
    BY <2>1 DEF Counted, Uncounted, Overcounted, DifferIn
<1>6. ASSUME NEW t \in Threads, ClearBegin(t) \/ ClearShard(t) \/ ClearSize(t)
      PROVE  FALSE
  BY <1>6 DEF ClearBegin, ClearShard, ClearSize, ClearInv
<1>7. CASE UNCHANGED vars
  BY <1>7 DEF vars, Counted, Uncounted, Overcounted, DifferIn
<1> QED
  BY <1>1, <1>2, <1>3, <1>4, <1>5, <1>6, <1>7 DEF Next

\* Once somebody has cleared the map, it stays so.
LEMMA StaysCleared ==
  ASSUME [Next]_vars, cleared
  PROVE  cleared'
BY DEF Next, vars, Insert, Remove, InsertCount, RemoveCount, ScanBegin, ScanShard,
       ScanReturn, ScanForget, ClearBegin, ClearShard, ClearSize

LEMMA NextSize ==
  ASSUME TypeOK, SizeInv, [Next]_vars
  PROVE  SizeInv'
<1>1. LockInv' /\ ClearInv'
  BY NextLock, NextClear DEF SizeInv
<1>2. ASSUME ~cleared'
      PROVE  \E C \in SUBSET Keys : Counted(C)'
  <2>1. ~cleared
    BY <1>2, StaysCleared
  <2>2. PICK C \in SUBSET Keys : Counted(C)
    BY <2>1 DEF SizeInv
  <2> QED
    BY <1>2, <2>1, <2>2, NextCounted DEF SizeInv
<1> QED
  BY <1>1, <1>2 DEF SizeInv

LEMMA SizeInvSuffices == TypeOK /\ SizeInv => SizeInRange /\ SizeAgrees
<1> SUFFICES ASSUME TypeOK, SizeInv, ~cleared
             PROVE  /\ size <= Cardinality(Keys)
                    /\ Quiet => size = Cardinality(map)
  BY DEF SizeInRange, SizeAgrees
<1>1. PICK C \in SUBSET Keys : Counted(C)
  BY DEF SizeInv
<1>2. size <= Cardinality(Keys)
  BY <1>1, KeySets DEF Counted
<1>3. ASSUME Quiet
      PROVE  C = map
  <2>1. \A s \in Shards : mutex[s] = Nobody
    BY <1>3 DEF TypeOK, Quiet, SizeInv, LockInv, Working
  <2>2. \A k \in Keys : k \in C <=> k \in map
    BY <1>1, <2>1, DashMapAssumption DEF Counted
  <2> QED
    BY <2>2 DEF TypeOK
<1> QED
  BY <1>1, <1>2, <1>3 DEF Counted

-----------------------------------------------------------------------------
\* Every operation of the map keeps the types of its fields.
THEOREM TypeCorrect == Spec => []TypeOK
<1>1. TypeOK /\ [Next]_vars => TypeOK'
  BY NextType
<1> QED
  BY <1>1, InitInv, PTL DEF Spec

\* AllKeys, AllEntries and ForEach, which hold the mutex of one shard at a
\* time, return every key that was in the map from their beginning to their
\* end and none that was not there in between, whatever other threads insert,
\* remove and clear.
THEOREM ScansAreComplete == Spec => []ScanComplete
<1>1. TypeOK /\ ScanInv /\ [Next]_vars => (TypeOK /\ ScanInv)'
  BY NextType, NextScan
<1>2. ScanInv => ScanComplete
  BY DEF ScanInv, Over, ScanComplete
<1> QED
  BY <1>1, <1>2, InitInv, PTL DEF Spec

\* Size(), which takes no mutex, never shows a number the map cannot have: the
\* fetch_sub of one thread never overtakes the fetch_add it undoes, in any
\* interleaving of any threads, as long as nobody clears the map.
THEOREM SizeStaysInRange == Spec => []SizeInRange
<1>1. TypeOK /\ SizeInv /\ [Next]_vars => (TypeOK /\ SizeInv)'
  BY NextType, NextSize
<1>2. TypeOK /\ SizeInv => SizeInRange
  BY SizeInvSuffices
<1> QED
  BY <1>1, <1>2, InitInv, InitSize, PTL DEF Spec

\* Whenever no insertion or removal is half done, size_ is the number of keys
\* in the shards, as long as nobody clears the map.
THEOREM SizeIsAccurate == Spec => []SizeAgrees
<1>1. TypeOK /\ SizeInv /\ [Next]_vars => (TypeOK /\ SizeInv)'
  BY NextType, NextSize
<1>2. TypeOK /\ SizeInv => SizeAgrees
  BY SizeInvSuffices
<1> QED
  BY <1>1, <1>2, InitInv, InitSize, PTL DEF Spec

=============================================================================
