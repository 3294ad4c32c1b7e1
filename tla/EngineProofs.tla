---------------------------- MODULE EngineProofs ----------------------------
(***************************************************************************)
(* Type correctness, MetadataHasData, BytesAreTracked and WriteThrough of  *)
(* Engine, for all keys, elements, policies, limits and clocks, and what a *)
(* step may do to the value and the deadline of a key.                     *)
(*                                                                         *)
(* An operation first computes new values of the metadata, the maps, the   *)
(* disk and the 2Q structure and then lets check_memory_and_evict clean    *)
(* them up, so the inductive invariant is a predicate Good of such values, *)
(* which the lemmas carry through each stage.                              *)
(*                                                                         *)
(* For the action properties the calls are brought into a few shapes       *)
(* (QueryShape, WriteShape); a call of such a shape leaves every other key *)
(* that has not expired as it was (Kept).                                  *)
(***************************************************************************)
EXTENDS Engine, FiniteSetTheorems, TLAPS

-----------------------------------------------------------------------------
\* The inductive invariant

Typed(mt, mm, dk, tq) ==
  /\ mt \in [Keys -> {Absent} \cup MetaRecord]
  /\ mm \in [KeyType -> [Keys -> {Absent} \cup Content]]
  /\ dk \in [Keys -> {Absent} \cup Stored]
  /\ Tracked(tq) \subseteq Keys

\* Data exists only under the types the clients use.
Used(mm, dk) ==
  /\ \A k \in Keys, t \in KeyType : mm[t][k] # Absent => <<k, t>> \in uses
  /\ \A k \in Keys : dk[k] # Absent => <<k, dk[k].type>> \in uses

HasData(mt, mm) ==
  \A k \in Keys : mt[k] # Absent => mm[mt[k].type][k] # Absent

BytesTracked(mt, tq) ==
  \A k \in Keys : mt[k] # Absent /\ mt[k].type = "bytes" => k \in Tracked(tq)

Through(mm, dk) ==
  \A k \in Keys, t \in KeyType \ {"vector"} :
    Persistent /\ SoleType(k, t) /\ mm[t][k] # Absent
      => dk[k] = [type |-> t, val |-> mm[t][k]]

Good(mt, mm, dk, tq) ==
  /\ Typed(mt, mm, dk, tq)
  /\ Used(mm, dk)
  /\ HasData(mt, mm)
  /\ BytesTracked(mt, tq)
  /\ Through(mm, dk)

Plan == evicting \in [todo : Nat, cand : SUBSET Keys]

EngineInv ==
  /\ Good(meta, mem, disk, q)
  /\ Plan
  /\ now \in Nat
  /\ policy \in Policies
  /\ uses \in Disciplines

-----------------------------------------------------------------------------
\* What the operations on the 2Q structure track.

LEMMA AccessedTracks ==
  ASSUME NEW tq, NEW k
  PROVE  Tracked(Accessed(tq, k)) = Tracked(tq) \cup {k}
<1>1. CASE k \notin Tracked(tq)
  BY <1>1 DEF Accessed, Entered, Tracked
<1>2. CASE k \in Tracked(tq) /\ tq.state[k] = Probationary
  BY <1>2 DEF Accessed, Promoted, Tracked
<1>3. CASE k \in Tracked(tq) /\ tq.state[k] # Probationary
  BY <1>3 DEF Accessed, Touched, Tracked
<1>. QED
  BY <1>1, <1>2, <1>3

LEMMA RemovedTracks ==
  ASSUME NEW tq, NEW k
  PROVE  Tracked(Removed(tq, k)) = Tracked(tq) \ {k}
BY DEF Removed, Tracked, Untracked

LEMMA AfterVictimTracks ==
  ASSUME NEW tq
  PROVE  \A k \in Tracked(tq) : k \in Tracked(AfterVictim(tq)) \/ k \in ToSet(Victim(tq))
<1>1. \A x : x \in ToSet(<<x>>)
  BY DEF ToSet
<1>. QED
  BY <1>1 DEF AfterVictim, Victim, Tracked, Untracked

LEMMA AfterVictimSubset ==
  ASSUME NEW tq
  PROVE  Tracked(AfterVictim(tq)) \subseteq Tracked(tq)
BY DEF AfterVictim, Tracked, Untracked

-----------------------------------------------------------------------------
\* Metadata

LEMMA NewMetadataType ==
  ASSUME NEW t \in KeyType
  PROVE  /\ NewMetadata(t) \in MetaRecord
         /\ NewMetadata(t) # Absent
         /\ NewMetadata(t).type = t
BY MetadataAssumption DEF NewMetadata, MetaRecord

\* Dropping metadata, all or one, keeps Good.
LEMMA ForgetGood ==
  ASSUME NEW mt, NEW mm, NEW dk, NEW tq, Good(mt, mm, dk, tq), NEW S
  PROVE  Good(Forget(mt, S), mm, dk, tq)
<1>1. /\ Forget(mt, S) \in [Keys -> {Absent} \cup MetaRecord]
      /\ \A k \in Keys : Forget(mt, S)[k] # Absent
                           => Forget(mt, S)[k] = mt[k] /\ mt[k] # Absent
  BY DEF Good, Typed, Forget
<1>. QED
  BY <1>1 DEF Good, Typed, HasData, BytesTracked

LEMMA UnregisterIsForget ==
  ASSUME NEW mt, mt \in [Keys -> {Absent} \cup MetaRecord], NEW k
  PROVE  UnregisterKey(mt, k) = Forget(mt, {k})
BY DEF UnregisterKey, Forget

LEMMA DropGood ==
  ASSUME NEW mt, NEW mm, NEW dk, NEW tq, Good(mt, mm, dk, tq), NEW k
  PROVE  Good(DropIfExpired(mt, k, now), mm, dk, tq)
<1>1. CASE k \in ExpiredKeys(mt, now)
  <2>1. DropIfExpired(mt, k, now) = UnregisterKey(mt, k)
    BY <1>1 DEF DropIfExpired
  <2>2. mt \in [Keys -> {Absent} \cup MetaRecord]
    BY DEF Good, Typed
  <2>3. UnregisterKey(mt, k) = Forget(mt, {k})
    BY <2>2, UnregisterIsForget
  <2>. QED
    BY <2>1, <2>3, ForgetGood
<1>2. CASE k \notin ExpiredKeys(mt, now)
  BY <1>2 DEF DropIfExpired
<1>. QED
  BY <1>1, <1>2

\* Registering a key whose data is there keeps Good; a byte string has to be
\* tracked as well.
LEMMA RegisterGood ==
  ASSUME NEW mt, NEW mm, NEW dk, NEW tq, Good(mt, mm, dk, tq),
         NEW k \in Keys, NEW t \in KeyType,
         mm[t][k] # Absent, t = "bytes" => k \in Tracked(tq)
  PROVE  Good(RegisterKey(mt, k, t), mm, dk, tq)
<1>1. mt \in [Keys -> {Absent} \cup MetaRecord]
  BY DEF Good, Typed
<1>2. /\ RegisterKey(mt, k, t) \in [Keys -> {Absent} \cup MetaRecord]
      /\ RegisterKey(mt, k, t)[k].type = t
      /\ \A j \in Keys : j # k => RegisterKey(mt, k, t)[j] = mt[j]
  BY <1>1, NewMetadataType DEF RegisterKey
<1>. QED
  BY <1>2 DEF Good, Typed, HasData, BytesTracked

\* Changing the metadata of a registered key but for its type keeps Good.
LEMMA UpdateGood ==
  ASSUME NEW mt, NEW mm, NEW dk, NEW tq, Good(mt, mm, dk, tq),
         NEW k \in Keys, mt[k] # Absent,
         NEW m \in MetaRecord, m.type = mt[k].type
  PROVE  Good([mt EXCEPT ![k] = m], mm, dk, tq)
<1>1. mt \in [Keys -> {Absent} \cup MetaRecord]
  BY DEF Good, Typed
<1>2. /\ [mt EXCEPT ![k] = m] \in [Keys -> {Absent} \cup MetaRecord]
      /\ [mt EXCEPT ![k] = m][k] = m
      /\ \A j \in Keys : j # k => [mt EXCEPT ![k] = m][j] = mt[j]
  BY <1>1
<1>. QED
  BY <1>2 DEF Good, Typed, HasData, BytesTracked

-----------------------------------------------------------------------------
\* The 2Q structure

LEMMA AccessedGood ==
  ASSUME NEW mt, NEW mm, NEW dk, NEW tq, Good(mt, mm, dk, tq), NEW k \in Keys
  PROVE  Good(mt, mm, dk, Accessed(tq, k))
BY AccessedTracks DEF Good, Typed, BytesTracked

\* A key without metadata may be forgotten.
LEMMA UntrackGood ==
  ASSUME NEW mt, NEW mm, NEW dk, NEW tq, Good(mt, mm, dk, tq), NEW uq, NEW S,
         Tracked(uq) \subseteq Tracked(tq),
         Tracked(tq) \ S \subseteq Tracked(uq),
         \A k \in Keys : k \in S => mt[k] = Absent
  PROVE  Good(mt, mm, dk, uq)
BY DEF Good, Typed, BytesTracked

-----------------------------------------------------------------------------
\* The maps and the disk

\* Writing a content to a map and through to the disk keeps Good.
LEMMA StoreGood ==
  ASSUME NEW mt, NEW mm, NEW dk, NEW tq, Good(mt, mm, dk, tq),
         NEW k \in Keys, NEW t \in KeyType, NEW c \in Content,
         <<k, t>> \in uses
  PROVE  /\ Good(mt, [mm EXCEPT ![t][k] = c], Persist(dk, k, t, c), tq)
         /\ [mm EXCEPT ![t][k] = c][t][k] # Absent
<1>. DEFINE nm == [mm EXCEPT ![t][k] = c]
            nd == Persist(dk, k, t, c)
            s == [type |-> t, val |-> c]
<1>1. /\ mm \in [KeyType -> [Keys -> {Absent} \cup Content]]
      /\ dk \in [Keys -> {Absent} \cup Stored]
  BY DEF Good, Typed
<1>2. c # Absent /\ s \in Stored /\ s # Absent
  BY EngineAssumption DEF Stored
<1>3. /\ nm \in [KeyType -> [Keys -> {Absent} \cup Content]]
      /\ nm[t][k] = c
      /\ \A u \in KeyType, j \in Keys : ~ (u = t /\ j = k) => nm[u][j] = mm[u][j]
  BY <1>1
<1>4. /\ nd \in [Keys -> {Absent} \cup Stored]
      /\ \A j \in Keys : j # k => nd[j] = dk[j]
      /\ Persistent => nd[k] = s
      /\ nd[k] \in {s, dk[k]}
  BY <1>1, <1>2 DEF Persist
<1>. HIDE DEF nm, nd
<1>5. Used(nm, nd)
  <2>1. Used(mm, dk)
    BY DEF Good
  <2>2. ASSUME NEW j \in Keys, NEW u \in KeyType, nm[u][j] # Absent
        PROVE  <<j, u>> \in uses
    BY <2>1, <2>2, <1>3 DEF Used
  <2>3. ASSUME NEW j \in Keys, nd[j] # Absent
        PROVE  <<j, nd[j].type>> \in uses
    <3>1. CASE nd[j] = dk[j]
      BY <2>1, <2>3, <3>1 DEF Used
    <3>2. CASE j = k /\ nd[j] = s
      BY <3>2
    <3>. QED
      BY <1>4, <3>1, <3>2
  <2>. QED
    BY <2>2, <2>3 DEF Used
<1>6. HasData(mt, nm)
  <2>1. HasData(mt, mm) /\ mt \in [Keys -> {Absent} \cup MetaRecord]
    BY DEF Good, Typed
  <2>2. ASSUME NEW j \in Keys, mt[j] # Absent
        PROVE  nm[mt[j].type][j] # Absent
    <3>1. mt[j].type \in KeyType
      BY <2>1, <2>2 DEF MetaRecord
    <3>. QED
      BY <2>1, <2>2, <3>1, <1>2, <1>3 DEF HasData
  <2>. QED
    BY <2>2 DEF HasData
<1>7. Through(nm, nd)
  <2>1. Through(mm, dk)
    BY DEF Good
  <2>2. ASSUME NEW j \in Keys, NEW u \in KeyType \ {"vector"},
               Persistent, SoleType(j, u), nm[u][j] # Absent
        PROVE  nd[j] = [type |-> u, val |-> nm[u][j]]
    <3>1. CASE j = k
      <4>1. u = t
        BY <2>2, <3>1 DEF SoleType
      <4>. QED
        BY <2>2, <3>1, <4>1, <1>3, <1>4
    <3>2. CASE j # k
      <4>1. nm[u][j] = mm[u][j] /\ nd[j] = dk[j]
        BY <3>2, <1>3, <1>4
      <4>. QED
        BY <4>1, <2>1, <2>2 DEF Through
    <3>. QED
      BY <3>1, <3>2
  <2>. QED
    BY <2>2 DEF Through
<1>8. Good(mt, nm, nd, tq)
  BY <1>3, <1>4, <1>5, <1>6, <1>7 DEF Good, Typed
<1>. QED
  BY <1>2, <1>3, <1>8 DEF nm, nd

\* A content that is Absent or was loaded from the disk enters a map.
LEMMA LoadGood ==
  ASSUME NEW mt, NEW mm, NEW dk, NEW tq, Good(mt, mm, dk, tq),
         NEW k \in Keys, NEW t \in KeyType, <<k, t>> \in uses,
         NEW c \in {Absent} \cup Content,
         mm[t][k] # Absent => c = mm[t][k],
         mm[t][k] = Absent /\ c # Absent /\ t # "vector" /\ dk[k].type = t
           => dk[k].val = c,
         mm[t][k] = Absent /\ c # Absent => dk[k] # Absent
  PROVE  Good(mt, [mm EXCEPT ![t][k] = c], dk, tq)
<1>. DEFINE nm == [mm EXCEPT ![t][k] = c]
<1>1. /\ mt \in [Keys -> {Absent} \cup MetaRecord]
      /\ mm \in [KeyType -> [Keys -> {Absent} \cup Content]]
      /\ dk \in [Keys -> {Absent} \cup Stored]
  BY DEF Good, Typed
<1>2. /\ nm \in [KeyType -> [Keys -> {Absent} \cup Content]]
      /\ nm[t][k] = c
      /\ \A u \in KeyType, j \in Keys : ~ (u = t /\ j = k) => nm[u][j] = mm[u][j]
  BY <1>1
<1>. HIDE DEF nm
<1>3. \A u \in KeyType, j \in Keys : mm[u][j] # Absent => nm[u][j] = mm[u][j]
  BY <1>2
<1>4. HasData(mt, nm)
  <2>1. HasData(mt, mm)
    BY DEF Good
  <2>2. ASSUME NEW j \in Keys, mt[j] # Absent
        PROVE  nm[mt[j].type][j] # Absent
    <3>1. mt[j].type \in KeyType
      BY <1>1, <2>2 DEF MetaRecord
    <3>. QED
      BY <2>1, <2>2, <3>1, <1>3 DEF HasData
  <2>. QED
    BY <2>2 DEF HasData
<1>5. Used(nm, dk)
  <2>1. Used(mm, dk)
    BY DEF Good
  <2>2. ASSUME NEW j \in Keys, NEW u \in KeyType, nm[u][j] # Absent
        PROVE  <<j, u>> \in uses
    BY <2>1, <2>2, <1>2 DEF Used
  <2>. QED
    BY <2>1, <2>2 DEF Used
<1>6. Through(nm, dk)
  <2>1. Through(mm, dk) /\ Used(mm, dk)
    BY DEF Good
  <2>2. ASSUME NEW j \in Keys, NEW u \in KeyType \ {"vector"},
               Persistent, SoleType(j, u), nm[u][j] # Absent
        PROVE  dk[j] = [type |-> u, val |-> nm[u][j]]
    <3>1. CASE mm[u][j] # Absent
      <4>1. nm[u][j] = mm[u][j]
        BY <3>1, <1>3
      <4>. QED
        BY <4>1, <3>1, <2>1, <2>2 DEF Through
    <3>2. CASE mm[u][j] = Absent
      <4>1. u = t /\ j = k
        BY <3>2, <2>2, <1>2
      <4>2. c # Absent /\ dk[k] # Absent
        BY <4>1, <3>2, <2>2, <1>2
      <4>3. dk[k] \in Stored
        BY <4>2, <1>1
      <4>4. dk[k].type \in KeyType /\ <<k, dk[k].type>> \in uses
        BY <4>2, <4>3, <2>1 DEF Used, Stored
      <4>5. dk[k].type = t
        BY <4>1, <4>4, <2>2 DEF SoleType
      <4>6. dk[k].val = c
        BY <4>1, <4>2, <4>5, <3>2, <2>2
      <4>7. dk[k] = [type |-> dk[k].type, val |-> dk[k].val]
        BY <4>3 DEF Stored
      <4>. QED
        BY <4>1, <4>5, <4>6, <4>7, <1>2
    <3>. QED
      BY <3>1, <3>2
  <2>. QED
    BY <2>2 DEF Through
<1>7. Good(mt, nm, dk, tq)
  BY <1>2, <1>4, <1>5, <1>6 DEF Good, Typed
<1>. QED
  BY <1>7 DEF nm

\* Data of a key without metadata may leave a map.
LEMMA DropDataGood ==
  ASSUME NEW mt, NEW mm, NEW dk, NEW tq, Good(mt, mm, dk, tq),
         NEW k \in Keys, NEW t \in KeyType, mt[k] = Absent
  PROVE  Good(mt, [mm EXCEPT ![t][k] = Absent], dk, tq)
<1>. DEFINE nm == [mm EXCEPT ![t][k] = Absent]
<1>1. mm \in [KeyType -> [Keys -> {Absent} \cup Content]]
      /\ mt \in [Keys -> {Absent} \cup MetaRecord]
  BY DEF Good, Typed
<1>2. /\ nm \in [KeyType -> [Keys -> {Absent} \cup Content]]
      /\ nm[t][k] = Absent
      /\ \A u \in KeyType, j \in Keys : ~ (u = t /\ j = k) => nm[u][j] = mm[u][j]
  BY <1>1
<1>. HIDE DEF nm
<1>3. \A u \in KeyType, j \in Keys : nm[u][j] # Absent => nm[u][j] = mm[u][j]
  BY <1>2
<1>4. HasData(mt, nm)
  <2>1. HasData(mt, mm)
    BY DEF Good
  <2>2. ASSUME NEW j \in Keys, mt[j] # Absent
        PROVE  nm[mt[j].type][j] # Absent
    <3>1. mt[j].type \in KeyType /\ j # k
      BY <1>1, <2>2 DEF MetaRecord
    <3>. QED
      BY <2>1, <2>2, <3>1, <1>2 DEF HasData
  <2>. QED
    BY <2>2 DEF HasData
<1>5. Used(nm, dk)
  BY <1>3 DEF Good, Used
<1>6. Through(nm, dk)
  <2>1. Through(mm, dk)
    BY DEF Good
  <2>2. ASSUME NEW j \in Keys, NEW u \in KeyType \ {"vector"},
               Persistent, SoleType(j, u), nm[u][j] # Absent
        PROVE  dk[j] = [type |-> u, val |-> nm[u][j]]
    <3>1. nm[u][j] = mm[u][j]
      BY <2>2, <1>3
    <3>. QED
      BY <3>1, <2>1, <2>2 DEF Through
  <2>. QED
    BY <2>2 DEF Through
<1>7. Good(mt, nm, dk, tq)
  BY <1>1, <1>2, <1>4, <1>5, <1>6 DEF Good, Typed
<1>. QED
  BY <1>7 DEF nm

\* What the disk holds for a key with no data in memory under a type it is
\* used with may be deleted.
LEMMA DeleteGood ==
  ASSUME NEW mt, NEW mm, NEW dk, NEW tq, Good(mt, mm, dk, tq), NEW S,
         \A k \in Keys, t \in KeyType : k \in S /\ SoleType(k, t) => mm[t][k] = Absent
  PROVE  Good(mt, mm, Forget(dk, S), tq)
<1>1. dk \in [Keys -> {Absent} \cup Stored]
  BY DEF Good, Typed
<1>2. /\ Forget(dk, S) \in [Keys -> {Absent} \cup Stored]
      /\ \A k \in Keys : Forget(dk, S)[k] # Absent => Forget(dk, S)[k] = dk[k]
      /\ \A k \in Keys : k \notin S => Forget(dk, S)[k] = dk[k]
  BY <1>1 DEF Forget
<1>3. Used(mm, Forget(dk, S))
  BY <1>2 DEF Good, Used
<1>4. Through(mm, Forget(dk, S))
  <2>1. Through(mm, dk)
    BY DEF Good
  <2>. QED
    BY <2>1, <1>2 DEF Through
<1>. QED
  BY <1>2, <1>3, <1>4 DEF Good, Typed

\* Erasing keys without metadata from every map keeps Good.
LEMMA EraseGood ==
  ASSUME NEW mt, NEW mm, NEW dk, NEW tq, Good(mt, mm, dk, tq), NEW S,
         \A k \in Keys : k \in S => mt[k] = Absent
  PROVE  Good(mt, Erase(mm, S), dk, tq)
<1>1. /\ mm \in [KeyType -> [Keys -> {Absent} \cup Content]]
      /\ mt \in [Keys -> {Absent} \cup MetaRecord]
  BY DEF Good, Typed
<1>2. /\ Erase(mm, S) \in [KeyType -> [Keys -> {Absent} \cup Content]]
      /\ \A t \in KeyType, k \in Keys :
           Erase(mm, S)[t][k] # Absent => Erase(mm, S)[t][k] = mm[t][k]
      /\ \A t \in KeyType, k \in Keys : k \notin S => Erase(mm, S)[t][k] = mm[t][k]
  BY <1>1 DEF Erase
<1>3. HasData(mt, Erase(mm, S))
  <2>1. HasData(mt, mm)
    BY DEF Good
  <2>2. ASSUME NEW j \in Keys, mt[j] # Absent
        PROVE  Erase(mm, S)[mt[j].type][j] # Absent
    <3>1. mt[j].type \in KeyType /\ j \notin S
      BY <1>1, <2>2 DEF MetaRecord
    <3>. QED
      BY <2>1, <2>2, <3>1, <1>2 DEF HasData
  <2>. QED
    BY <2>2 DEF HasData
<1>4. Used(Erase(mm, S), dk)
  BY <1>2 DEF Good, Used
<1>5. Through(Erase(mm, S), dk)
  <2>1. Through(mm, dk)
    BY DEF Good
  <2>. QED
    BY <2>1, <1>2 DEF Through
<1>. QED
  BY <1>1, <1>2, <1>3, <1>4, <1>5 DEF Good, Typed

-----------------------------------------------------------------------------
\* Expiry and the start of an eviction

LEMMA PrimeGood ==
  ASSUME Good(meta', mem', disk', q'), uses' = uses
  PROVE  Good(meta, mem, disk, q)'
BY DEF Good, Typed, Used, HasData, BytesTracked, Through, SoleType

LEMMA CleanupGood ==
  ASSUME NEW mt, NEW mm, NEW dk, NEW tq, Good(mt, mm, dk, tq),
         Cleanup(mt, mm, dk, tq)
  PROVE  Good(meta', mem', disk', q')
<1>. DEFINE dead == ExpiredKeys(mt, now)
<1>1. /\ meta' = Forget(mt, dead)
      /\ mem' = Erase(mm, dead)
      /\ disk' = Forget(dk, dead)
      /\ q' = RemovedAll(tq, dead)
  BY DEF Cleanup
<1>. HIDE DEF dead
<1>2. \A k \in Keys : k \in dead => Forget(mt, dead)[k] = Absent
  BY DEF Forget
<1>3. \A k \in Keys, t \in KeyType : k \in dead => Erase(mm, dead)[t][k] = Absent
  BY DEF Erase
<1>4. Good(Forget(mt, dead), mm, dk, tq)
  BY ForgetGood
<1>5. Good(Forget(mt, dead), Erase(mm, dead), dk, tq)
  BY <1>2, <1>4, EraseGood
<1>6. Good(Forget(mt, dead), Erase(mm, dead), Forget(dk, dead), tq)
  BY <1>3, <1>5, DeleteGood
<1>7. Tracked(RemovedAll(tq, dead)) = Tracked(tq) \ dead
  BY DEF Tracked, RemovedAll, Untracked
<1>8. Good(Forget(mt, dead), Erase(mm, dead), Forget(dk, dead), RemovedAll(tq, dead))
  BY <1>2, <1>6, <1>7, UntrackGood
<1>. QED
  BY <1>1, <1>8

LEMMA PlanType ==
  ASSUME NEW mt, NEW mm
  PROVE  EvictionPlan(mt, mm) \in [todo : Nat, cand : SUBSET Keys]
<1>. DEFINE cand == Candidates(mt)
            share == Cardinality(cand) \div EvictShare
<1>1. cand \subseteq Keys
  BY DEF Candidates
<1>2. Cardinality(cand) \in Nat
  BY <1>1, EngineAssumption, FS_Subset, FS_CardinalityType
<1>3. share \in Nat
  BY <1>2, EngineAssumption
<1>4. NotEvicting \in [todo : Nat, cand : SUBSET Keys]
  BY DEF NotEvicting
<1>. HIDE DEF cand
<1>5. [todo |-> IF share > 1 THEN share ELSE 1, cand |-> cand]
        \in [todo : Nat, cand : SUBSET Keys]
  BY <1>1, <1>3
<1>. QED
  BY <1>4, <1>5 DEF EvictionPlan, cand

LEMMA CheckGood ==
  ASSUME NEW mt, NEW mm, NEW dk, NEW tq, Good(mt, mm, dk, tq),
         check_memory_and_evict(mt, mm, dk, tq), uses' = uses
  PROVE  Good(meta, mem, disk, q)' /\ Plan'
<1>1. Good(meta, mem, disk, q)'
  BY CleanupGood, PrimeGood DEF check_memory_and_evict
<1>2. Plan'
  BY PlanType DEF check_memory_and_evict, Plan
<1>. QED
  BY <1>1, <1>2

-----------------------------------------------------------------------------
\* What the operations have in common

\* A new content of a container, with its registration, is Good.
LEMMA RegisterLoadedGood ==
  ASSUME NEW mm, NEW dk, Good(meta, mm, dk, q), NEW k \in Keys,
         NEW t \in KeyType \ {"bytes"}, NEW c, mm[t][k] = c
  PROVE  Good(RegisterLoaded(t, k, c), mm, dk, q)
<1>1. CASE mem[t][k] = Absent /\ c # Absent
  BY <1>1, RegisterGood DEF RegisterLoaded
<1>2. CASE ~ (mem[t][k] = Absent /\ c # Absent)
  BY <1>2 DEF RegisterLoaded
<1>. QED
  BY <1>1, <1>2

LEMMA MemUpdate ==
  ASSUME Good(meta, mem, disk, q), NEW k \in Keys, NEW t \in KeyType, NEW c
  PROVE  [mem EXCEPT ![t][k] = c][t][k] = c
BY DEF Good, Typed

LEMMA GrowGood ==
  ASSUME Good(meta, mem, disk, q), NEW k \in Keys, NEW t \in KeyType \ {"bytes"},
         NEW c \in Content, <<k, t>> \in uses, Grow(t, k, c), uses' = uses
  PROVE  Good(meta, mem, disk, q)' /\ Plan'
<1>1. Good(meta, [mem EXCEPT ![t][k] = c], Persist(disk, k, t, c), q)
  BY StoreGood
<1>2. [mem EXCEPT ![t][k] = c][t][k] = c
  BY MemUpdate
<1>3. Good(RegisterLoaded(t, k, c), [mem EXCEPT ![t][k] = c],
           Persist(disk, k, t, c), q)
  BY <1>1, <1>2, RegisterLoadedGood
<1>. QED
  BY <1>3, CheckGood DEF Grow

LEMMA RewriteGood ==
  ASSUME Good(meta, mem, disk, q), Plan, NEW k \in Keys,
         NEW t \in KeyType \ {"bytes"},
         NEW c \in Content, <<k, t>> \in uses, Rewrite(t, k, c)
  PROVE  Good(meta, mem, disk, q)' /\ Plan'
<1>1. Good(meta, [mem EXCEPT ![t][k] = c], Persist(disk, k, t, c), q)
  BY StoreGood
<1>2. [mem EXCEPT ![t][k] = c][t][k] = c
  BY MemUpdate
<1>3. Good(RegisterLoaded(t, k, c), [mem EXCEPT ![t][k] = c],
           Persist(disk, k, t, c), q)
  BY <1>1, <1>2, RegisterLoadedGood
<1>4. Good(meta', mem', disk', q') /\ uses' = uses /\ evicting' = evicting
  BY <1>3 DEF Rewrite
<1>. QED
  BY <1>4, PrimeGood DEF Plan

\* What loading a key can return.
Loadable(t, k) ==
  GetOrLoad(t, k, Decode(t, disk[k]))
    \cup (IF t = "vector" THEN GetOrLoad(t, k, Stores(disk[k])) ELSE {})

LEMMA LoadableFacts ==
  ASSUME Good(meta, mem, disk, q), NEW k \in Keys, NEW t \in KeyType,
         NEW c \in Loadable(t, k)
  PROVE  /\ c \in {Absent} \cup Content
         /\ mem[t][k] # Absent => c = mem[t][k]
         /\ mem[t][k] = Absent /\ c # Absent => disk[k] # Absent
         /\ mem[t][k] = Absent /\ c # Absent /\ t # "vector" /\ disk[k].type = t
              => disk[k].val = c
<1>1. /\ mem[t][k] \in {Absent} \cup Content
      /\ disk[k] \in {Absent} \cup Stored
  BY DEF Good, Typed
<1>2. CASE mem[t][k] # Absent
  BY <1>1, <1>2 DEF Loadable, GetOrLoad
<1>3. CASE mem[t][k] = Absent /\ ~ (Persistent /\ disk[k] # Absent)
  BY <1>3 DEF Loadable, GetOrLoad, Load
<1>4. CASE mem[t][k] = Absent /\ Persistent /\ disk[k] # Absent
  <2>1. disk[k].type \in KeyType /\ disk[k].val \in Content
    BY <1>1, <1>4 DEF Stored
  <2>2. {} \in Content /\ {Opaque} \in Content
    BY DEF Content
  <2>3. c \in Decode(t, disk[k]) \/ (t = "vector" /\ c \in Stores(disk[k]))
    BY <1>4 DEF Loadable, GetOrLoad, Load
  <2>4. DecodeOther(t, disk[k]) \subseteq {Absent} \cup Content
    BY <2>1, <2>2 DEF DecodeOther
  <2>5. c \in {Absent} \cup Content
    BY <2>1, <2>2, <2>3, <2>4 DEF Decode, Stores
  <2>6. t # "vector" /\ disk[k].type = t => c = disk[k].val
    BY <2>3 DEF Decode
  <2>. QED
    BY <1>4, <2>5, <2>6
<1>. QED
  BY <1>2, <1>3, <1>4

LEMMA TouchGood ==
  ASSUME Good(meta, mem, disk, q), Plan, NEW k \in Keys,
         NEW t \in KeyType \ {"bytes"}, <<k, t>> \in uses,
         NEW c \in Loadable(t, k), Touch(t, k, c)
  PROVE  Good(meta, mem, disk, q)' /\ Plan'
<1>1. Good(meta, [mem EXCEPT ![t][k] = c], disk, q)
  BY LoadableFacts, LoadGood
<1>2. [mem EXCEPT ![t][k] = c][t][k] = c
  BY MemUpdate
<1>3. Good(RegisterLoaded(t, k, c), [mem EXCEPT ![t][k] = c], disk, q)
  BY <1>1, <1>2, RegisterLoadedGood
<1>4. Good(meta', mem', disk', q') /\ uses' = uses /\ evicting' = evicting
  BY <1>3 DEF Touch
<1>. QED
  BY <1>4, PrimeGood DEF Plan

LEMMA InvalidGood ==
  ASSUME Good(meta, mem, disk, q), Plan, NEW k, Invalid(k)
  PROVE  Good(meta, mem, disk, q)' /\ Plan'
<1>1. Good(meta', mem', disk', q') /\ uses' = uses /\ evicting' = evicting
  BY DropGood DEF Invalid
<1>. QED
  BY <1>1, PrimeGood DEF Plan

LEMMA ReadGood ==
  ASSUME Good(meta, mem, disk, q), Plan, NEW k \in Keys,
         NEW t \in KeyType \ {"bytes"}, Read(t, k)
  PROVE  Good(meta, mem, disk, q)' /\ Plan'
<1>1. PICK c \in GetOrLoad(t, k, Decode(t, disk[k])) : Touch(t, k, c)
  BY DEF Read
<1>2. c \in Loadable(t, k)
  BY DEF Loadable
<1>. QED
  BY <1>1, <1>2, TouchGood DEF Read, Call

LEMMA GuardedReadGood ==
  ASSUME Good(meta, mem, disk, q), Plan, NEW k \in Keys,
         NEW t \in KeyType \ {"bytes"}, GuardedRead(t, k)
  PROVE  Good(meta, mem, disk, q)' /\ Plan'
BY ReadGood, InvalidGood DEF GuardedRead

LEMMA HeldType ==
  ASSUME Good(meta, mem, disk, q), NEW k \in Keys, NEW t \in KeyType, NEW e \in Elem
  PROVE  Held(t, k) \cup {e} \in Content
<1>1. mem[t][k] \in {Absent} \cup Content
  BY DEF Good, Typed
<1>. QED
  BY <1>1 DEF Held, Content

LEMMA AddGood ==
  ASSUME Good(meta, mem, disk, q), NEW k \in Keys,
         NEW t \in KeyType \ {"bytes"}, NEW e \in Elem, Add(t, k, e)
  PROVE  Good(meta, mem, disk, q)' /\ Plan'
BY HeldType, GrowGood DEF Add, Call

LEMMA MinusType ==
  ASSUME NEW c \in {Absent} \cup Content, c # Absent, NEW S
  PROVE  c \ S \in Content
BY DEF Content

LEMMA ShrinkGood ==
  ASSUME Good(meta, mem, disk, q), Plan, NEW k \in Keys,
         NEW t \in KeyType \ {"bytes"}, NEW e, Shrink(t, k, e)
  PROVE  Good(meta, mem, disk, q)' /\ Plan'
<1>1. PICK c \in GetOrLoad(t, k, Decode(t, disk[k])) :
        IF c = Absent THEN Touch(t, k, c) ELSE Rewrite(t, k, c \ {e})
  BY DEF Shrink
<1>2. c \in Loadable(t, k)
  BY DEF Loadable
<1>3. <<k, t>> \in uses
  BY DEF Shrink, Call
<1>4. CASE c = Absent
  BY <1>1, <1>2, <1>3, <1>4, TouchGood
<1>5. CASE c # Absent
  <2>1. c \ {e} \in Content
    BY <1>2, <1>5, LoadableFacts, MinusType
  <2>. QED
    BY <1>1, <1>3, <1>5, <2>1, RewriteGood
<1>. QED
  BY <1>4, <1>5

LEMMA PopGood ==
  ASSUME Good(meta, mem, disk, q), Plan, NEW k \in Keys, Pop(k)
  PROVE  Good(meta, mem, disk, q)' /\ Plan'
<1>1. PICK c \in GetOrLoad("list", k, Decode("list", disk[k])) :
        IF c \in {Absent, {}} THEN Touch("list", k, c)
        ELSE \E e \in c : Rewrite("list", k, c \ {e})
  BY DEF Pop
<1>2. "list" \in KeyType \ {"bytes"} /\ <<k, "list">> \in uses
  BY DEF KeyType, Pop, Call
<1>3. c \in Loadable("list", k)
  BY DEF Loadable
<1>4. CASE c \in {Absent, {}}
  BY <1>1, <1>2, <1>3, <1>4, TouchGood
<1>5. CASE c \notin {Absent, {}}
  <2>1. PICK e \in c : Rewrite("list", k, c \ {e})
    BY <1>1, <1>5
  <2>2. c \ {e} \in Content
    BY <1>2, <1>3, <1>5, LoadableFacts, MinusType
  <2>. QED
    BY <1>2, <2>1, <2>2, RewriteGood
<1>. QED
  BY <1>4, <1>5

LEMMA RemoveEntriesGood ==
  ASSUME Good(meta, mem, disk, q), Plan, NEW k \in Keys, NEW gone,
         RemoveEntries(k, gone)
  PROVE  Good(meta, mem, disk, q)' /\ Plan'
<1>1. PICK c \in GetOrLoad("stream", k, Decode("stream", disk[k])) :
        IF c = Absent \/ gone \cap c = {} THEN Touch("stream", k, c)
        ELSE Rewrite("stream", k, c \ gone)
  BY DEF RemoveEntries
<1>2. "stream" \in KeyType \ {"bytes"} /\ <<k, "stream">> \in uses
  BY DEF KeyType, RemoveEntries, Call
<1>3. c \in Loadable("stream", k)
  BY DEF Loadable
<1>4. CASE c = Absent \/ gone \cap c = {}
  BY <1>1, <1>2, <1>3, <1>4, TouchGood
<1>5. CASE ~ (c = Absent \/ gone \cap c = {})
  <2>1. c \ gone \in Content
    BY <1>2, <1>3, <1>5, LoadableFacts, MinusType
  <2>. QED
    BY <1>1, <1>2, <1>5, <2>1, RewriteGood
<1>. QED
  BY <1>4, <1>5

-----------------------------------------------------------------------------
\* The operations that are written out

LEMMA putGood ==
  ASSUME Good(meta, mem, disk, q), NEW k \in Keys, NEW v \in Elem, put(k, v)
  PROVE  Good(meta, mem, disk, q)' /\ Plan'
<1>. DEFINE nm == [mem EXCEPT !["bytes"][k] = {v}]
            nd == Persist(disk, k, "bytes", {v})
<1>1. "bytes" \in KeyType /\ <<k, "bytes">> \in uses /\ {v} \in Content
  BY DEF KeyType, put, Call, Content
<1>2. Good(meta, nm, nd, q) /\ nm["bytes"][k] # Absent
  BY <1>1, StoreGood
<1>3. check_memory_and_evict(RegisterKey(meta, k, "bytes"), nm, nd, Accessed(q, k))
      /\ uses' = uses
  BY DEF put
<1>. HIDE DEF nm, nd
<1>4. Good(meta, nm, nd, Accessed(q, k)) /\ k \in Tracked(Accessed(q, k))
  BY <1>2, AccessedGood, AccessedTracks
<1>5. Good(RegisterKey(meta, k, "bytes"), nm, nd, Accessed(q, k))
  BY <1>1, <1>2, <1>4, RegisterGood
<1>. QED
  BY <1>3, <1>5, CheckGood

LEMMA getGood ==
  ASSUME EngineInv, NEW k \in Keys, get(k)
  PROVE  Good(meta, mem, disk, q)' /\ Plan'
<1>0. Good(meta, mem, disk, q) /\ Plan /\ now \in Nat
  BY DEF EngineInv
<1>1. CASE ~ IsValid(meta, k, now)
  BY <1>0, <1>1, InvalidGood DEF get
<1>2. CASE IsValid(meta, k, now)
  <2>1. PICK c \in GetOrLoad("bytes", k, Decode("bytes", disk[k])) :
          /\ mem' = [mem EXCEPT !["bytes"][k] = c]
          /\ IF c = Absent THEN UNCHANGED <<meta, q>> ELSE record_access(k)
          /\ UNCHANGED <<now, policy, disk, evicting, uses>>
    BY <1>2 DEF get
  <2>2. "bytes" \in KeyType /\ <<k, "bytes">> \in uses
    BY DEF KeyType, get, Call
  <2>3. c \in Loadable("bytes", k)
    BY DEF Loadable
  <2>4. Good(meta, mem', disk, q)
    <3>1. /\ c \in {Absent} \cup Content
          /\ mem["bytes"][k] # Absent => c = mem["bytes"][k]
          /\ mem["bytes"][k] = Absent /\ c # Absent => disk[k] # Absent
          /\ mem["bytes"][k] = Absent /\ c # Absent /\ "bytes" # "vector"
             /\ disk[k].type = "bytes" => disk[k].val = c
      BY <1>0, <2>2, <2>3, LoadableFacts
    <3>2. Good(meta, [mem EXCEPT !["bytes"][k] = c], disk, q)
      BY <1>0, <2>2, <3>1, LoadGood
    <3>. QED
      BY <2>1, <3>2
  <2>5. CASE c = Absent
    BY <1>0, <2>1, <2>4, <2>5, PrimeGood DEF Plan
  <2>6. CASE c # Absent
    <3>1. meta' = UpdateAccessInfo(meta, k, now) /\ q' \in {q, Accessed(q, k)}
      BY <2>1, <2>6 DEF record_access
    <3>2. Good(meta, mem', disk, q')
      BY <2>4, <3>1, AccessedGood
    <3>3. meta \in [Keys -> {Absent} \cup MetaRecord] /\ meta[k] # Absent
      BY <1>0, <1>2 DEF Good, Typed, IsValid
    <3>4. meta[k] \in MetaRecord
      BY <3>3
    <3>5. /\ UpdateAccess(meta[k], now) \in MetaRecord
          /\ UpdateAccess(meta[k], now).type = meta[k].type
      <4>1. now % AccessMod \in Nat
        BY <1>0, MetadataAssumption
      <4>2. meta[k].lfu \in Nat
        BY <3>4 DEF MetaRecord
      <4>3. (meta[k].lfu + 1) % (LfuMax + 1) \in Nat
        BY <4>2, MetadataAssumption
      <4>. QED
        BY <3>4, <4>1, <4>3 DEF UpdateAccess, MetaRecord
    <3>6. meta' = [meta EXCEPT ![k] = UpdateAccess(meta[k], now)]
      BY <3>1, <3>3 DEF UpdateAccessInfo
    <3>7. Good(meta', mem', disk, q')
      BY <3>2, <3>3, <3>5, <3>6, UpdateGood
    <3>. QED
      BY <1>0, <2>1, <3>7, PrimeGood DEF Plan
  <2>. QED
    BY <2>5, <2>6
<1>. QED
  BY <1>1, <1>2

LEMMA delGood ==
  ASSUME Good(meta, mem, disk, q), Plan, NEW k \in Keys, del(k)
  PROVE  Good(meta, mem, disk, q)' /\ Plan'
<1>1. /\ meta \in [Keys -> {Absent} \cup MetaRecord]
      /\ disk \in [Keys -> {Absent} \cup Stored]
  BY DEF Good, Typed
<1>2. meta' = Forget(meta, {k}) /\ disk' = Forget(disk, {k})
  BY <1>1 DEF del, UnregisterKey, Forget
<1>3. mem' = Erase(mem, {k}) /\ q' = Removed(q, k)
  BY DEF del
<1>4. \A j \in Keys : j \in {k} => Forget(meta, {k})[j] = Absent
  BY DEF Forget
<1>5. \A j \in Keys, t \in KeyType : j \in {k} => Erase(mem, {k})[t][j] = Absent
  BY DEF Erase
<1>6. Good(Forget(meta, {k}), Erase(mem, {k}), disk, q)
  BY <1>4, ForgetGood, EraseGood
<1>7. Good(Forget(meta, {k}), Erase(mem, {k}), Forget(disk, {k}), q)
  BY <1>5, <1>6, DeleteGood
<1>8. Good(meta', mem', disk', q')
  BY <1>2, <1>3, <1>4, <1>7, RemovedTracks, UntrackGood
<1>. QED
  BY <1>8, PrimeGood DEF del, Plan

LEMMA expireGood ==
  ASSUME Good(meta, mem, disk, q), Plan, NEW k \in Keys, NEW ms \in ExpireArgs,
         expire(k, ms)
  PROVE  Good(meta, mem, disk, q)' /\ Plan'
<1>1. CASE ~ IsValid(meta, k, now)
  BY <1>1, InvalidGood DEF expire
<1>2. CASE IsValid(meta, k, now)
  <2>1. /\ meta' = [meta EXCEPT ![k] = SetExpireMs(meta[k], ms)]
        /\ UNCHANGED <<now, policy, mem, disk, q, evicting, uses>>
    BY <1>2 DEF expire
  <2>2. meta[k] \in MetaRecord /\ meta[k] # Absent
    BY <1>2 DEF Good, Typed, IsValid
  <2>3. ms \in Int
    BY EngineAssumption
  <2>4. /\ SetExpireMs(meta[k], ms) \in MetaRecord
        /\ SetExpireMs(meta[k], ms).type = meta[k].type
    BY <2>2, <2>3 DEF SetExpireMs, MetaRecord
  <2>5. Good(meta', mem', disk', q')
    BY <2>1, <2>2, <2>4, UpdateGood
  <2>. QED
    BY <2>1, <2>5, PrimeGood DEF Plan
<1>. QED
  BY <1>1, <1>2

LEMMA jsondelGood ==
  ASSUME Good(meta, mem, disk, q), Plan, NEW k \in Keys, jsondel(k)
  PROVE  Good(meta, mem, disk, q)' /\ Plan'
<1>1. /\ meta \in [Keys -> {Absent} \cup MetaRecord]
      /\ mem \in [KeyType -> [Keys -> {Absent} \cup Content]]
      /\ disk \in [Keys -> {Absent} \cup Stored]
  BY DEF Good, Typed
<1>2. meta' = Forget(meta, {k}) /\ disk' = Forget(disk, {k})
  BY <1>1 DEF jsondel, UnregisterKey, Forget
<1>3. "json" \in KeyType /\ <<k, "json">> \in uses
  BY DEF KeyType, jsondel, Call
<1>4. mem' = [mem EXCEPT !["json"][k] = Absent] /\ q' = q
  BY DEF jsondel
<1>5. Forget(meta, {k})[k] = Absent
  BY DEF Forget
<1>6. Good(meta', mem', disk, q)
  BY <1>2, <1>3, <1>4, <1>5, ForgetGood, DropDataGood
<1>7. mem'["json"][k] = Absent
  BY <1>1, <1>3, <1>4
<1>8. \A j \in Keys, t \in KeyType : j \in {k} /\ SoleType(j, t) => mem'[t][j] = Absent
  BY <1>3, <1>7 DEF SoleType
<1>9. Good(meta', mem', Forget(disk, {k}), q)
  BY <1>6, <1>8, DeleteGood
<1>. QED
  BY <1>2, <1>4, <1>9, PrimeGood DEF jsondel, Plan

LEMMA zremGood ==
  ASSUME Good(meta, mem, disk, q), Plan, NEW k \in Keys, NEW e, zrem(k, e)
  PROVE  Good(meta, mem, disk, q)' /\ Plan'
<1>1. "zset" \in KeyType \ {"bytes"} /\ <<k, "zset">> \in uses
  BY DEF KeyType, zrem, Call
<1>2. mem["zset"][k] \in {Absent} \cup Content /\ mem["zset"][k] # Absent
  BY <1>1 DEF Good, Typed, zrem
<1>3. mem["zset"][k] \ {e} \in Content
  BY <1>2, MinusType
<1>. QED
  BY <1>1, <1>3, RewriteGood DEF zrem

LEMMA hincrbyGood ==
  ASSUME Good(meta, mem, disk, q), Plan, NEW k \in Keys, NEW e \in Elem,
         hincrby(k, e)
  PROVE  Good(meta, mem, disk, q)' /\ Plan'
<1>1. PICK c \in GetOrLoad("hash", k, Decode("hash", disk[k])) :
        Rewrite("hash", k, (IF c = Absent THEN {} ELSE c) \cup {e})
  BY DEF hincrby
<1>2. "hash" \in KeyType \ {"bytes"} /\ <<k, "hash">> \in uses
  BY DEF KeyType, hincrby, Call
<1>3. c \in {Absent} \cup Content
  BY <1>2, LoadableFacts DEF Loadable
<1>4. (IF c = Absent THEN {} ELSE c) \cup {e} \in Content
  BY <1>3 DEF Content
<1>. QED
  BY <1>1, <1>2, <1>4, RewriteGood

LEMMA xaddGood ==
  ASSUME Good(meta, mem, disk, q), Plan, NEW k \in Keys, NEW e \in Elem, xadd(k, e)
  PROVE  Good(meta, mem, disk, q)' /\ Plan'
<1>1. "stream" \in KeyType \ {"bytes"} /\ <<k, "stream">> \in uses /\ uses' = uses
  BY DEF KeyType, xadd, Call
<1>2. CASE Grow("stream", k, Held("stream", k) \cup {e})
  BY <1>1, <1>2, HeldType, GrowGood
<1>3. CASE check_memory_and_evict(meta, mem, disk, q)
  BY <1>1, <1>3, CheckGood
<1>. QED
  BY <1>2, <1>3 DEF xadd

LEMMA jsonsetGood ==
  ASSUME Good(meta, mem, disk, q), Plan, NEW k \in Keys, NEW v \in Elem,
         jsonset(k, v)
  PROVE  Good(meta, mem, disk, q)' /\ Plan'
<1>1. "json" \in KeyType \ {"bytes"} /\ <<k, "json">> \in uses /\ {v} \in Content
  BY DEF KeyType, jsonset, Call, Content
<1>. QED
  BY <1>1, RewriteGood DEF jsonset

LEMMA vecaddGood ==
  ASSUME Good(meta, mem, disk, q), Plan, NEW k \in Keys, NEW e \in Elem,
         vecadd(k, e)
  PROVE  Good(meta, mem, disk, q)' /\ Plan'
<1>1. "vector" \in KeyType \ {"bytes"} /\ <<k, "vector">> \in uses /\ uses' = uses
  BY DEF KeyType, vecadd, Call
<1>2. CASE Grow("vector", k, Held("vector", k) \cup {e})
  BY <1>1, <1>2, HeldType, GrowGood
<1>3. CASE check_memory_and_evict(meta, mem, disk, q)
  BY <1>1, <1>3, CheckGood
<1>. QED
  BY <1>2, <1>3 DEF vecadd

LEMMA vecdelGood ==
  ASSUME Good(meta, mem, disk, q), Plan, NEW k \in Keys, NEW e, vecdel(k, e)
  PROVE  Good(meta, mem, disk, q)' /\ Plan'
<1>1. PICK c \in GetOrLoad("vector", k, Decode("vector", disk[k])) :
        IF c # Absent /\ e \in c THEN Rewrite("vector", k, c)
        ELSE Touch("vector", k, c)
  BY DEF vecdel
<1>2. "vector" \in KeyType \ {"bytes"} /\ <<k, "vector">> \in uses
  BY DEF KeyType, vecdel, Call
<1>3. c \in Loadable("vector", k)
  BY DEF Loadable
<1>4. CASE c # Absent /\ e \in c
  <2>1. c \in Content
    BY <1>2, <1>3, <1>4, LoadableFacts
  <2>. QED
    BY <1>1, <1>2, <1>4, <2>1, RewriteGood
<1>5. CASE ~ (c # Absent /\ e \in c)
  BY <1>1, <1>2, <1>3, <1>5, TouchGood
<1>. QED
  BY <1>4, <1>5

LEMMA vecsearchGood ==
  ASSUME Good(meta, mem, disk, q), Plan, NEW k \in Keys, vecsearch(k)
  PROVE  Good(meta, mem, disk, q)' /\ Plan'
<1>1. CASE ~ IsValid(meta, k, now)
  BY <1>1, InvalidGood DEF vecsearch
<1>2. CASE IsValid(meta, k, now)
  <2>1. PICK c \in GetOrLoad("vector", k,
                             Decode("vector", disk[k]) \cup Stores(disk[k])) :
          Touch("vector", k, c)
    BY <1>2 DEF vecsearch
  <2>2. "vector" \in KeyType \ {"bytes"} /\ <<k, "vector">> \in uses
    BY DEF KeyType, vecsearch, Call
  <2>3. c \in Loadable("vector", k)
    BY DEF Loadable, GetOrLoad, Load
  <2>. QED
    BY <2>1, <2>2, <2>3, TouchGood
<1>. QED
  BY <1>1, <1>2

\* One iteration of the eviction loop.  The victim of the 2Q policy is not
\* known to be a key here; if it is none, the maps do not change.
LEMMA EvictVictimGood ==
  ASSUME Good(meta, mem, disk, q), Plan, EvictVictim
  PROVE  Good(meta, mem, disk, q)' /\ Plan'
<1>. DEFINE tq == IF policy = "2Q" THEN AfterVictim(q) ELSE q
<1>1. PICK v \in Victims :
        IF IsValid(meta, v, now) THEN Evict(v, tq)
        ELSE /\ meta' = DropIfExpired(meta, v, now)
             /\ q' = tq
             /\ UNCHANGED <<mem, disk>>
  BY DEF EvictVictim
<1>2. /\ meta \in [Keys -> {Absent} \cup MetaRecord]
      /\ mem \in [KeyType -> [Keys -> {Absent} \cup Content]]
      /\ disk \in [Keys -> {Absent} \cup Stored]
  BY DEF Good, Typed
<1>3. Tracked(tq) \subseteq Tracked(q) /\ Tracked(q) \ {v} \subseteq Tracked(tq)
  <2>1. CASE policy = "2Q"
    <3>1. v \in ToSet(Victim(q))
      BY <2>1, <1>1 DEF Victims
    <3>2. \A x \in ToSet(Victim(q)) : x = v
      BY <3>1 DEF Victim, NoVictim, ToSet
    <3>. QED
      BY <2>1, <3>2, AfterVictimTracks, AfterVictimSubset
  <2>2. CASE policy # "2Q"
    BY <2>2
  <2>. QED
    BY <2>1, <2>2
<1>. HIDE DEF tq
<1>4. Plan'
  <2>1. evicting.todo \in Nat /\ evicting.todo # 0
    BY DEF EvictVictim, Idle, Plan
  <2>2. NotEvicting \in [todo : Nat, cand : SUBSET Keys]
    BY DEF NotEvicting
  <2>3. evicting.todo # 1 =>
          [evicting EXCEPT !.todo = @ - 1] \in [todo : Nat, cand : SUBSET Keys]
    BY <2>1 DEF Plan
  <2>. QED
    BY <2>2, <2>3 DEF EvictVictim, Plan
<1>5. uses' = uses
  BY DEF EvictVictim
<1>6. CASE ~ IsValid(meta, v, now)
  <2>1. /\ meta' = DropIfExpired(meta, v, now)
        /\ q' = tq
        /\ mem' = mem
        /\ disk' = disk
    BY <1>1, <1>6
  <2>2. v \in Keys => meta'[v] = Absent
    BY <2>1, <1>2, <1>6 DEF DropIfExpired, ExpiredKeys, UnregisterKey, IsValid
  <2>3. Good(meta', mem', disk', q)
    BY <2>1, DropGood
  <2>4. \A k \in Keys : k \in {v} => meta'[k] = Absent
    BY <2>2
  <2>5. Good(meta', mem', disk', q')
    BY <1>3, <2>1, <2>3, <2>4, UntrackGood
  <2>. QED
    BY <1>4, <1>5, <2>5, PrimeGood
<1>7. CASE IsValid(meta, v, now)
  <2>. DEFINE t == meta[v].type
  <2>1. /\ disk' = IF mem[t][v] # Absent THEN Persist(disk, v, t, mem[t][v]) ELSE disk
        /\ mem' = [mem EXCEPT ![t][v] = Absent]
        /\ q' = Removed(tq, v)
        /\ meta' = UnregisterKey(meta, v)
    BY <1>1, <1>7 DEF Evict
  <2>2. meta' = Forget(meta, {v})
    BY <1>2, <2>1 DEF UnregisterKey, Forget
  <2>3. \A k \in Keys : k \in {v} => meta'[k] = Absent
    BY <2>2 DEF Forget
  <2>4. Tracked(q') \subseteq Tracked(q) /\ Tracked(q) \ {v} \subseteq Tracked(q')
    BY <1>3, <2>1, RemovedTracks
  <2>5. Good(meta', mem, disk, q)
    BY <2>2, ForgetGood
  <2>6. Good(meta', mem', disk', q)
    <3>1. CASE v \notin Keys
      <4>1. mem' = mem
        BY <1>2, <2>1, <3>1
      <4>2. disk' = disk
        BY <1>2, <2>1, <3>1 DEF Persist
      <4>. QED
        BY <4>1, <4>2, <2>5
    <3>2. CASE v \in Keys
      <4>1. t \in KeyType
        BY <1>2, <1>7, <3>2 DEF IsValid, MetaRecord
      <4>. HIDE DEF t
      <4>2. Good(meta', mem, disk', q)
        <5>1. CASE mem[t][v] = Absent
          BY <5>1, <2>1, <2>5
        <5>2. CASE mem[t][v] # Absent
          <6>1. mem[t][v] \in Content /\ <<v, t>> \in uses
            BY <1>2, <3>2, <4>1, <5>2 DEF Good, Used
          <6>2. [mem EXCEPT ![t][v] = mem[t][v]] = mem
            BY <1>2, <3>2, <4>1
          <6>3. disk' = Persist(disk, v, t, mem[t][v])
            BY <5>2, <2>1
          <6>. QED
            BY <2>5, <3>2, <4>1, <6>1, <6>2, <6>3, StoreGood
        <5>. QED
          BY <5>1, <5>2
      <4>. QED
        BY <2>1, <2>3, <3>2, <4>1, <4>2, DropDataGood
    <3>. QED
      BY <3>1, <3>2
  <2>7. Good(meta', mem', disk', q')
    BY <2>3, <2>4, <2>6, UntrackGood
  <2>. QED
    BY <1>4, <1>5, <2>7, PrimeGood
<1>. QED
  BY <1>6, <1>7

-----------------------------------------------------------------------------
\* The invariance proof

\* An engine without keys is Good whatever the disk holds.
LEMMA FreshGood ==
  ASSUME NEW dk \in [Keys -> {Absent} \cup Stored],
         \A k \in Keys : dk[k] # Absent => <<k, dk[k].type>> \in uses
  PROVE  Good(NoMeta, NoData, dk, EmptyQ)
<1>1. /\ NoMeta \in [Keys -> {Absent} \cup MetaRecord]
      /\ \A k \in Keys : NoMeta[k] = Absent
  BY DEF NoMeta
<1>2. /\ NoData \in [KeyType -> [Keys -> {Absent} \cup Content]]
      /\ \A t \in KeyType, k \in Keys : NoData[t][k] = Absent
  BY DEF NoData
<1>3. Tracked(EmptyQ) = {}
  BY DEF Tracked, EmptyQ
<1>. QED
  BY <1>1, <1>2, <1>3 DEF Good, Typed, Used, HasData, BytesTracked, Through

LEMMA NotEvictingType == NotEvicting \in [todo : Nat, cand : SUBSET Keys]
BY DEF NotEvicting

LEMMA InitInv == Init => EngineInv
<1>. SUFFICES ASSUME Init PROVE EngineInv
  OBVIOUS
<1>1. disk \in [Keys -> {Absent} \cup Stored] /\ \A k \in Keys : disk[k] = Absent
  BY DEF Init
<1>2. Good(meta, mem, disk, q)
  BY <1>1, FreshGood DEF Init
<1>. QED
  BY <1>2, NotEvictingType, EngineAssumption DEF Init, EngineInv, Plan

LEMMA WriteGood ==
  ASSUME Good(meta, mem, disk, q), Plan, NEW k \in Keys, Write(k)
  PROVE  Good(meta, mem, disk, q)' /\ Plan'
<1>. USE DEF KeyType
<1>1. CASE del(k) BY <1>1, delGood
<1>2. CASE lpop(k) BY <1>2, PopGood DEF lpop
<1>3. CASE rpop(k) BY <1>3, PopGood DEF rpop
<1>4. CASE xtrim(k) BY <1>4, RemoveEntriesGood DEF xtrim
<1>5. CASE jsondel(k) BY <1>5, jsondelGood
<1>6. ASSUME NEW e \in Elem, put(k, e)
      PROVE  Good(meta, mem, disk, q)' /\ Plan'
  BY <1>6, putGood
<1>7. ASSUME NEW e \in Elem, zadd(k, e)
      PROVE  Good(meta, mem, disk, q)' /\ Plan'
  BY <1>7, AddGood DEF zadd
<1>8. ASSUME NEW e \in Elem, zrem(k, e)
      PROVE  Good(meta, mem, disk, q)' /\ Plan'
  BY <1>8, zremGood
<1>9. ASSUME NEW e \in Elem, lpush(k, e) \/ rpush(k, e)
      PROVE  Good(meta, mem, disk, q)' /\ Plan'
  BY <1>9, AddGood DEF lpush, rpush
<1>10. ASSUME NEW e \in Elem, hset(k, e)
       PROVE  Good(meta, mem, disk, q)' /\ Plan'
  BY <1>10, AddGood DEF hset
<1>11. ASSUME NEW e \in Elem, hdel(k, e)
       PROVE  Good(meta, mem, disk, q)' /\ Plan'
  BY <1>11, ShrinkGood DEF hdel
<1>12. ASSUME NEW e \in Elem, hincrby(k, e)
       PROVE  Good(meta, mem, disk, q)' /\ Plan'
  BY <1>12, hincrbyGood
<1>13. ASSUME NEW e \in Elem, sadd(k, e)
       PROVE  Good(meta, mem, disk, q)' /\ Plan'
  BY <1>13, AddGood DEF sadd
<1>14. ASSUME NEW e \in Elem, srem(k, e)
       PROVE  Good(meta, mem, disk, q)' /\ Plan'
  BY <1>14, ShrinkGood DEF srem
<1>15. ASSUME NEW e \in Elem, xadd(k, e)
       PROVE  Good(meta, mem, disk, q)' /\ Plan'
  BY <1>15, xaddGood
<1>16. ASSUME NEW e \in Elem, xdel(k, e)
       PROVE  Good(meta, mem, disk, q)' /\ Plan'
  BY <1>16, RemoveEntriesGood DEF xdel
<1>17. ASSUME NEW e \in Elem, jsonset(k, e)
       PROVE  Good(meta, mem, disk, q)' /\ Plan'
  BY <1>17, jsonsetGood
<1>18. ASSUME NEW e \in Elem, vecadd(k, e)
       PROVE  Good(meta, mem, disk, q)' /\ Plan'
  BY <1>18, vecaddGood
<1>19. ASSUME NEW e \in Elem, vecdel(k, e)
       PROVE  Good(meta, mem, disk, q)' /\ Plan'
  BY <1>19, vecdelGood
<1>. QED
  BY <1>1, <1>2, <1>3, <1>4, <1>5, <1>6, <1>7, <1>8, <1>9, <1>10, <1>11,
     <1>12, <1>13, <1>14, <1>15, <1>16, <1>17, <1>18, <1>19 DEF Write

LEMMA QueryGood ==
  ASSUME EngineInv, NEW k \in Keys, Query(k)
  PROVE  Good(meta, mem, disk, q)' /\ Plan'
<1>. USE DEF KeyType
<1>0. Good(meta, mem, disk, q) /\ Plan
  BY DEF EngineInv
<1>1. CASE get(k) BY <1>1, getGood
<1>2. CASE exists(k) \/ type(k) \/ ttl(k)
  BY <1>0, <1>2, InvalidGood DEF exists, type, ttl
<1>3. CASE \E ms \in ExpireArgs : expire(k, ms)
  BY <1>0, <1>3, expireGood
<1>4. CASE zscore(k) BY <1>0, <1>4, GuardedReadGood DEF zscore
<1>5. CASE zcard(k) \/ zrange(k) \/ zrangebyscore(k)
  BY <1>0, <1>5, ReadGood DEF zcard, zrange, zrangebyscore
<1>6. CASE llen(k) BY <1>0, <1>6, ReadGood DEF llen
<1>7. CASE hget(k) \/ hexists(k) \/ hgetall(k)
  BY <1>0, <1>7, GuardedReadGood DEF hget, hexists, hgetall
<1>8. CASE hlen(k) \/ forEachHash(k)
  BY <1>0, <1>8, ReadGood DEF hlen, forEachHash
<1>9. CASE sismember(k) \/ smembers(k)
  BY <1>0, <1>9, GuardedReadGood DEF sismember, smembers
<1>10. CASE scard(k) \/ forEachSet(k)
  BY <1>0, <1>10, ReadGood DEF scard, forEachSet
<1>11. CASE xread(k) \/ xrange(k)
  BY <1>0, <1>11, GuardedReadGood DEF xread, xrange
<1>12. CASE xlen(k) BY <1>0, <1>12, ReadGood DEF xlen
<1>13. CASE jsonget(k) BY <1>0, <1>13, GuardedReadGood DEF jsonget
<1>14. CASE vecget(k) BY <1>0, <1>14, GuardedReadGood DEF vecget
<1>15. CASE vecsearch(k) BY <1>0, <1>15, vecsearchGood
<1>16. CASE vecsize(k) BY <1>0, <1>16, ReadGood DEF vecsize
<1>. QED
  BY <1>1, <1>2, <1>3, <1>4, <1>5, <1>6, <1>7, <1>8, <1>9, <1>10, <1>11,
     <1>12, <1>13, <1>14, <1>15, <1>16 DEF Query

\* No call changes the clock, the policy or the clients' discipline.
Frame == UNCHANGED <<now, policy, uses>>

LEMMA CommonFrame ==
  ASSUME NEW k, NEW t
  PROVE  /\ \A c : Touch(t, k, c) => Frame
         /\ \A c : Rewrite(t, k, c) => Frame
         /\ Invalid(k) => Frame
         /\ Read(t, k) => Frame
         /\ GuardedRead(t, k) => Frame
         /\ \A e : Add(t, k, e) => Frame
         /\ \A e : Shrink(t, k, e) => Frame
<1>1. \A c : Touch(t, k, c) => Frame
  BY DEF Touch, Frame
<1>2. \A c : Rewrite(t, k, c) => Frame
  BY DEF Rewrite, Frame
<1>3. Invalid(k) => Frame
  BY DEF Invalid, Frame
<1>4. Read(t, k) => Frame
  BY <1>1 DEF Read
<1>5. GuardedRead(t, k) => Frame
  BY <1>3, <1>4 DEF GuardedRead
<1>6. \A e : Add(t, k, e) => Frame
  BY DEF Add, Frame
<1>7. \A e : Shrink(t, k, e) => Frame
  BY <1>1, <1>2 DEF Shrink
<1>. QED
  BY <1>1, <1>2, <1>3, <1>4, <1>5, <1>6, <1>7

LEMMA WriteFrame ==
  ASSUME NEW k, Write(k)
  PROVE  Frame
<1>1. Pop(k) => Frame
  BY CommonFrame DEF Pop
<1>2. \A gone : RemoveEntries(k, gone) => Frame
  BY CommonFrame DEF RemoveEntries
<1>3. del(k) \/ jsondel(k) => Frame
  BY DEF del, jsondel, Frame
<1>4. \A e : put(k, e) \/ xadd(k, e) \/ vecadd(k, e) => Frame
  BY DEF put, xadd, vecadd, Frame
<1>5. \A e : zrem(k, e) \/ jsonset(k, e) => Frame
  BY CommonFrame DEF zrem, jsonset
<1>6. \A e : hincrby(k, e) => Frame
  BY CommonFrame DEF hincrby
<1>7. \A e : vecdel(k, e) => Frame
  BY CommonFrame DEF vecdel
<1>8. \A e : zadd(k, e) \/ lpush(k, e) \/ rpush(k, e) \/ hset(k, e) \/ sadd(k, e)
               => Frame
  BY CommonFrame DEF zadd, lpush, rpush, hset, sadd
<1>9. \A e : hdel(k, e) \/ srem(k, e) => Frame
  BY CommonFrame DEF hdel, srem
<1>. QED
  BY <1>1, <1>2, <1>3, <1>4, <1>5, <1>6, <1>7, <1>8, <1>9
     DEF Write, lpop, rpop, xtrim, xdel

LEMMA QueryFrame ==
  ASSUME NEW k, Query(k)
  PROVE  Frame
<1>1. get(k) => Frame
  BY CommonFrame DEF get, Frame
<1>2. \A ms : expire(k, ms) => Frame
  BY CommonFrame DEF expire, Frame
<1>3. vecsearch(k) => Frame
  BY CommonFrame DEF vecsearch
<1>4. exists(k) \/ type(k) \/ ttl(k) => Frame
  BY CommonFrame DEF exists, type, ttl
<1>5. \A t : Read(t, k) \/ GuardedRead(t, k) => Frame
  BY CommonFrame
<1>. QED
  BY <1>1, <1>2, <1>3, <1>4, <1>5
     DEF Query, zscore, zcard, zrange, zrangebyscore, llen, hget, hexists,
         hgetall, hlen, forEachHash, sismember, smembers, scard, forEachSet,
         xread, xrange, xlen, jsonget, vecget, vecsize

LEMMA NextInv == EngineInv /\ [Next]_vars => EngineInv'
<1>. SUFFICES ASSUME EngineInv, [Next]_vars
              PROVE  EngineInv'
  OBVIOUS
<1>0. /\ Good(meta, mem, disk, q)
      /\ Plan
      /\ now \in Nat
      /\ policy \in Policies
      /\ uses \in Disciplines
  BY DEF EngineInv
<1>1. ASSUME NEW k \in Keys, Write(k) \/ Query(k)
      PROVE  EngineInv'
  <2>1. Good(meta, mem, disk, q)' /\ Plan'
    BY <1>0, <1>1, WriteGood, QueryGood
  <2>2. Frame
    BY <1>1, WriteFrame, QueryFrame
  <2>. QED
    BY <1>0, <2>1, <2>2 DEF EngineInv, Frame
<1>2. CASE CleanupExpired
  <2>1. Good(meta', mem', disk', q')
    BY <1>0, <1>2, CleanupGood DEF CleanupExpired
  <2>. QED
    BY <1>0, <1>2, <2>1, PrimeGood DEF CleanupExpired, EngineInv, Plan
<1>3. ASSUME NEW p \in Policies, set_eviction(p)
      PROVE  EngineInv'
  <2>1. Good(meta', mem', disk', q')
    BY <1>0, <1>3 DEF set_eviction
  <2>. QED
    BY <1>0, <1>3, <2>1, PrimeGood DEF set_eviction, EngineInv, Plan
<1>4. CASE EvictVictim
  <2>1. Good(meta, mem, disk, q)' /\ Plan'
    BY <1>0, <1>4, EvictVictimGood
  <2>. QED
    BY <1>0, <1>4, <2>1 DEF EvictVictim, EngineInv
<1>5. CASE EvictDone
  <2>1. Good(meta', mem', disk', q')
    BY <1>0, <1>5 DEF EvictDone
  <2>. QED
    BY <1>0, <1>5, <2>1, PrimeGood, NotEvictingType DEF EvictDone, EngineInv, Plan
<1>6. CASE Tick
  <2>1. Good(meta', mem', disk', q')
    BY <1>0, <1>6 DEF Tick
  <2>2. now' \in Nat
    BY <1>0, <1>6 DEF Tick
  <2>. QED
    BY <1>0, <1>6, <2>1, <2>2, PrimeGood DEF Tick, EngineInv, Plan
<1>7. CASE Restart
  <2>1. Good(meta', mem', disk', q')
    BY <1>0, <1>7, FreshGood DEF Restart, Good, Typed, Used
  <2>. QED
    BY <1>0, <1>7, <2>1, PrimeGood, NotEvictingType DEF Restart, EngineInv, Plan
<1>8. CASE UNCHANGED vars
  <2>1. Good(meta', mem', disk', q')
    BY <1>0, <1>8 DEF vars
  <2>. QED
    BY <1>0, <1>8, <2>1, PrimeGood DEF vars, EngineInv, Plan
<1>. QED
  BY <1>1, <1>2, <1>3, <1>4, <1>5, <1>6, <1>7, <1>8 DEF Next

\* The inductive invariant holds in every state of the engine, whatever the
\* keys, the elements, the policy, the memory limit and the clock.
THEOREM Invariance == Spec => []EngineInv
<1>. QED
  BY InitInv, NextInv, PTL DEF Spec

\* Every map of the engine keeps its type: meta_, the typed maps, the disk.
THEOREM TypeCorrect == Spec => []TypeOK
<1>1. EngineInv => TypeOK
  BY DEF EngineInv, Plan, Good, Typed, TypeOK
<1>. QED
  BY <1>1, Invariance, PTL

\* Registered keys have data in the map of their type, after every call and
\* every iteration of the eviction loop.
THEOREM RegisteredKeysHaveData == Spec => []MetadataHasData
<1>1. EngineInv => MetadataHasData
  BY DEF EngineInv, Good, HasData, MetadataHasData
<1>. QED
  BY <1>1, Invariance, PTL

\* The 2Q structure knows every registered byte string.
THEOREM ByteStringsTracked == Spec => []BytesAreTracked
<1>1. EngineInv => BytesAreTracked
  BY DEF EngineInv, Good, BytesTracked, BytesAreTracked
<1>. QED
  BY <1>1, Invariance, PTL

\* Memory and disk agree on every key that clients use with one type.
THEOREM DiskHoldsWhatMemoryHolds == Spec => []WriteThrough
<1>1. EngineInv => WriteThrough
  BY DEF EngineInv, Good, Through, WriteThrough
<1>. QED
  BY <1>1, Invariance, PTL

-----------------------------------------------------------------------------
\* The shapes of the calls

\* A call that looks at a key drops expired metadata, brings the key into
\* memory or changes only its metadata.
QueryShape(k) ==
  \/ Invalid(k)
  \/ \E u \in KeyType : \E c \in Loadable(u, k) : <<k, u>> \in uses /\ Touch(u, k, c)
  \/ get(k)
  \/ \E ms \in ExpireArgs : expire(k, ms)

\* A call that writes to a key does that to the map of one type that the
\* clients use the key with.
WriteShape(k) ==
  \/ \E u \in KeyType : <<k, u>> \in uses /\ \E c :
       \/ Touch(u, k, c)
       \/ Rewrite(u, k, c)
       \/ Grow(u, k, c)
  \/ check_memory_and_evict(meta, mem, disk, q)
  \/ \E v \in Elem : put(k, v)
  \/ del(k)
  \/ jsondel(k)

LEMMA QueryShapes ==
  ASSUME NEW k, Query(k)
  PROVE  QueryShape(k)
<1>1. \A u \in KeyType : Read(u, k) => QueryShape(k)
  <2>. SUFFICES ASSUME NEW u \in KeyType, Read(u, k)
                PROVE  QueryShape(k)
    OBVIOUS
  <2>1. PICK c \in GetOrLoad(u, k, Decode(u, disk[k])) : Touch(u, k, c)
    BY DEF Read
  <2>2. c \in Loadable(u, k) /\ <<k, u>> \in uses
    BY DEF Loadable, Read, Call
  <2>. QED
    BY <2>1, <2>2 DEF QueryShape
<1>2. \A u \in KeyType : GuardedRead(u, k) => QueryShape(k)
  BY <1>1 DEF GuardedRead, QueryShape
<1>3. vecsearch(k) => QueryShape(k)
  <2>. SUFFICES ASSUME vecsearch(k), IsValid(meta, k, now)
                PROVE  QueryShape(k)
    BY DEF vecsearch, QueryShape
  <2>1. PICK c \in GetOrLoad("vector", k,
                             Decode("vector", disk[k]) \cup Stores(disk[k])) :
          Touch("vector", k, c)
    BY DEF vecsearch
  <2>2. c \in Loadable("vector", k)
    BY DEF Loadable, GetOrLoad, Load
  <2>3. "vector" \in KeyType /\ <<k, "vector">> \in uses
    BY DEF KeyType, vecsearch, Call
  <2>. QED
    BY <2>1, <2>2, <2>3 DEF QueryShape
<1>4. exists(k) \/ type(k) \/ ttl(k) => QueryShape(k)
  BY DEF exists, type, ttl, QueryShape
<1>5. get(k) \/ (\E ms \in ExpireArgs : expire(k, ms)) => QueryShape(k)
  BY DEF QueryShape
<1>6. {"zset", "list", "hash", "set", "stream", "json", "vector"} \subseteq KeyType
  BY DEF KeyType
<1>. QED
  BY <1>1, <1>2, <1>3, <1>4, <1>5, <1>6
     DEF Query, zscore, zcard, zrange, zrangebyscore, llen, hget, hexists,
         hgetall, hlen, forEachHash, sismember, smembers, scard, forEachSet,
         xread, xrange, xlen, jsonget, vecget, vecsize

LEMMA WriteShapes ==
  ASSUME NEW k, Write(k)
  PROVE  WriteShape(k)
<1>. DEFINE OnMap(u) == \E c : Touch(u, k, c) \/ Rewrite(u, k, c) \/ Grow(u, k, c)
<1>1. \A u \in KeyType : <<k, u>> \in uses /\ OnMap(u) => WriteShape(k)
  BY DEF WriteShape
<1>. HIDE DEF OnMap
<1>2. \A u \in KeyType : \A e : Add(u, k, e) => WriteShape(k)
  BY <1>1 DEF Add, Call, OnMap
<1>3. \A u \in KeyType : \A e : Shrink(u, k, e) => WriteShape(k)
  BY <1>1 DEF Shrink, Call, OnMap
<1>4. {"zset", "list", "hash", "set", "stream", "json", "vector"} \subseteq KeyType
  BY DEF KeyType
<1>5. Pop(k) => WriteShape(k)
  BY <1>1, <1>4 DEF Pop, Call, OnMap
<1>6. \A gone : RemoveEntries(k, gone) => WriteShape(k)
  BY <1>1, <1>4 DEF RemoveEntries, Call, OnMap
<1>7. \A e : zrem(k, e) \/ jsonset(k, e) => WriteShape(k)
  BY <1>1, <1>4 DEF zrem, jsonset, Call, OnMap
<1>8. \A e : hincrby(k, e) => WriteShape(k)
  BY <1>1, <1>4 DEF hincrby, Call, OnMap
<1>9. \A e : vecdel(k, e) => WriteShape(k)
  BY <1>1, <1>4 DEF vecdel, Call, OnMap
<1>10. \A e : xadd(k, e) => WriteShape(k)
  <2>1. \A e : xadd(k, e) =>
          (<<k, "stream">> \in uses /\ OnMap("stream"))
            \/ check_memory_and_evict(meta, mem, disk, q)
    BY DEF xadd, Call, OnMap
  <2>. QED
    BY <1>1, <1>4, <2>1 DEF WriteShape
<1>11. \A e : vecadd(k, e) => WriteShape(k)
  <2>1. \A e : vecadd(k, e) =>
          (<<k, "vector">> \in uses /\ OnMap("vector"))
            \/ check_memory_and_evict(meta, mem, disk, q)
    BY DEF vecadd, Call, OnMap
  <2>. QED
    BY <1>1, <1>4, <2>1 DEF WriteShape
<1>12. (\E e \in Elem : put(k, e)) \/ del(k) \/ jsondel(k) => WriteShape(k)
  BY DEF WriteShape
<1>. QED
  BY <1>2, <1>3, <1>4, <1>5, <1>6, <1>7, <1>8, <1>9, <1>10, <1>11, <1>12
     DEF Write, lpop, rpop, xtrim, xdel, zadd, lpush, rpush, hset, hdel, sadd, srem

-----------------------------------------------------------------------------
\* What a step does to one key

\* The key's metadata, its data in every map and its stored form stay.
Kept(k) ==
  /\ meta'[k] = meta[k]
  /\ disk'[k] = disk[k]
  /\ \A t \in KeyType : mem'[t][k] = mem[t][k]

LEMMA CleanupKeeps ==
  ASSUME NEW mt, NEW mm, NEW dk, NEW tq, Cleanup(mt, mm, dk, tq),
         NEW k \in Keys, mt[k] = Absent \/ ~ IsExpired(mt[k], now)
  PROVE  /\ meta'[k] = mt[k]
         /\ disk'[k] = dk[k]
         /\ \A t \in KeyType : mem'[t][k] = mm[t][k]
<1>1. k \notin ExpiredKeys(mt, now)
  BY DEF ExpiredKeys
<1>. QED
  BY <1>1 DEF Cleanup, Forget, Erase

LEMMA UpdatesElsewhere ==
  ASSUME EngineInv, NEW j \in Keys, NEW k \in Keys, j # k, NEW u \in KeyType, NEW c
  PROVE  /\ \A t \in KeyType : [mem EXCEPT ![u][j] = c][t][k] = mem[t][k]
         /\ Persist(disk, j, u, c)[k] = disk[k]
         /\ RegisterLoaded(u, j, c)[k] = meta[k]
         /\ RegisterKey(meta, j, u)[k] = meta[k]
         /\ UnregisterKey(meta, j)[k] = meta[k]
         /\ DropIfExpired(meta, j, now)[k] = meta[k]
         /\ UpdateAccessInfo(meta, j, now)[k] = meta[k]
<1>1. /\ meta \in [Keys -> {Absent} \cup MetaRecord]
      /\ mem \in [KeyType -> [Keys -> {Absent} \cup Content]]
      /\ disk \in [Keys -> {Absent} \cup Stored]
  BY DEF EngineInv, Good, Typed
<1>2. \A t \in KeyType : [mem EXCEPT ![u][j] = c][t][k] = mem[t][k]
  BY <1>1
<1>3. Persist(disk, j, u, c)[k] = disk[k]
  BY <1>1 DEF Persist
<1>4. RegisterKey(meta, j, u)[k] = meta[k] /\ UnregisterKey(meta, j)[k] = meta[k]
  BY <1>1 DEF RegisterKey, UnregisterKey
<1>5. UpdateAccessInfo(meta, j, now)[k] = meta[k]
  BY <1>1 DEF UpdateAccessInfo
<1>. QED
  BY <1>2, <1>3, <1>4, <1>5 DEF RegisterLoaded, DropIfExpired

\* A call on one key leaves every other key alone, but for those whose
\* deadline has passed.
LEMMA CallKeepsOthers ==
  ASSUME EngineInv, NEW j \in Keys, NEW k \in Keys, j # k,
         QueryShape(j) \/ WriteShape(j), k \notin ExpiredKeys(meta, now)
  PROVE  Kept(k)
<1>0. meta[k] = Absent \/ ~ IsExpired(meta[k], now)
  BY DEF ExpiredKeys
<1>1. ASSUME NEW u \in KeyType, NEW c, Touch(u, j, c) \/ Rewrite(u, j, c)
      PROVE  Kept(k)
  <2>1. /\ meta' = RegisterLoaded(u, j, c)
        /\ mem' = [mem EXCEPT ![u][j] = c]
        /\ disk' \in {disk, Persist(disk, j, u, c)}
    BY <1>1 DEF Touch, Rewrite
  <2>2. meta'[k] = meta[k] /\ disk'[k] = disk[k]
    BY <2>1, UpdatesElsewhere
  <2>3. \A t \in KeyType : mem'[t][k] = mem[t][k]
    BY <2>1, UpdatesElsewhere
  <2>. QED
    BY <2>2, <2>3 DEF Kept
<1>2. ASSUME NEW u \in KeyType, NEW c, Grow(u, j, c)
      PROVE  Kept(k)
  <2>. DEFINE mt == RegisterLoaded(u, j, c)
              mm == [mem EXCEPT ![u][j] = c]
              dk == Persist(disk, j, u, c)
  <2>1. Cleanup(mt, mm, dk, q)
    BY <1>2 DEF Grow, check_memory_and_evict
  <2>2. mt[k] = meta[k] /\ dk[k] = disk[k] /\ \A t \in KeyType : mm[t][k] = mem[t][k]
    BY UpdatesElsewhere
  <2>. HIDE DEF mt, mm, dk
  <2>. QED
    BY <1>0, <2>1, <2>2, CleanupKeeps DEF Kept
<1>3. CASE check_memory_and_evict(meta, mem, disk, q)
  BY <1>0, <1>3, CleanupKeeps DEF check_memory_and_evict, Kept
<1>4. "bytes" \in KeyType /\ "json" \in KeyType
  BY DEF KeyType
<1>5. ASSUME NEW v, put(j, v)
      PROVE  Kept(k)
  <2>. DEFINE mt == RegisterKey(meta, j, "bytes")
              mm == [mem EXCEPT !["bytes"][j] = {v}]
              dk == Persist(disk, j, "bytes", {v})
  <2>1. Cleanup(mt, mm, dk, Accessed(q, j))
    BY <1>5 DEF put, check_memory_and_evict
  <2>2. mt[k] = meta[k] /\ dk[k] = disk[k] /\ \A t \in KeyType : mm[t][k] = mem[t][k]
    BY <1>4, UpdatesElsewhere
  <2>. HIDE DEF mt, mm, dk
  <2>. QED
    BY <1>0, <2>1, <2>2, CleanupKeeps DEF Kept
<1>6. CASE Invalid(j)
  BY <1>4, <1>6, UpdatesElsewhere DEF Invalid, Kept
<1>7. CASE get(j)
  <2>1. CASE ~ IsValid(meta, j, now)
    BY <1>6, <1>7, <2>1 DEF get
  <2>2. CASE IsValid(meta, j, now)
    <3>1. PICK c : /\ mem' = [mem EXCEPT !["bytes"][j] = c]
                   /\ meta' \in {meta, UpdateAccessInfo(meta, j, now)}
                   /\ disk' = disk
      BY <1>7, <2>2 DEF get, record_access
    <3>. QED
      BY <1>4, <3>1, UpdatesElsewhere DEF Kept
  <2>. QED
    BY <2>1, <2>2
<1>8. ASSUME NEW ms, expire(j, ms)
      PROVE  Kept(k)
  <2>1. meta \in [Keys -> {Absent} \cup MetaRecord]
    BY DEF EngineInv, Good, Typed
  <2>. QED
    BY <1>6, <1>8, <2>1 DEF expire, Kept
<1>9. CASE del(j)
  <2>1. disk \in [Keys -> {Absent} \cup Stored]
    BY DEF EngineInv, Good, Typed
  <2>. QED
    BY <1>4, <1>9, <2>1, UpdatesElsewhere DEF del, Erase, Kept
<1>10. CASE jsondel(j)
  <2>1. disk \in [Keys -> {Absent} \cup Stored]
    BY DEF EngineInv, Good, Typed
  <2>. QED
    BY <1>4, <1>10, <2>1, UpdatesElsewhere DEF jsondel, Kept
<1>. QED
  BY <1>1, <1>2, <1>3, <1>5, <1>6, <1>7, <1>8, <1>9, <1>10
     DEF QueryShape, WriteShape

\* A registered key is in memory under the only type the clients use.
LEMMA RegisteredHeld ==
  ASSUME EngineInv, NEW k \in Keys, NEW t \in KeyType, SoleType(k, t), meta[k] # Absent
  PROVE  mem[t][k] # Absent
<1>1. meta[k].type \in KeyType /\ mem[meta[k].type][k] # Absent
  BY DEF EngineInv, Good, Typed, HasData, MetaRecord
<1>2. meta[k].type = t
  BY <1>1 DEF EngineInv, Good, Used, SoleType
<1>. QED
  BY <1>1, <1>2

\* What is stored under a key that clients use with one type has that type.
LEMMA StoredType ==
  ASSUME EngineInv, NEW k \in Keys, NEW t \in KeyType, SoleType(k, t), disk[k] # Absent
  PROVE  disk[k].type = t
<1>1. disk[k].type \in KeyType /\ <<k, disk[k].type>> \in uses
  BY DEF EngineInv, Good, Typed, Used, Stored
<1>. QED
  BY <1>1 DEF SoleType

LEMMA ValueKept ==
  ASSUME NEW k \in Keys, NEW t \in KeyType, Kept(k)
  PROVE  Value(k, t)' = Value(k, t)
BY DEF Kept, Value

\* Bringing a key into memory does not change what it holds.
LEMMA LoadKeepsValue ==
  ASSUME EngineInv, NEW k \in Keys, NEW t \in KeyType \ {"vector"}, SoleType(k, t),
         NEW c \in Loadable(t, k), mem' = [mem EXCEPT ![t][k] = c], disk' = disk
  PROVE  Value(k, t)' = Value(k, t)
<1>1. mem'[t][k] = c
  BY DEF EngineInv, Good, Typed
<1>2. /\ mem[t][k] # Absent => c = mem[t][k]
      /\ mem[t][k] = Absent /\ c # Absent => disk[k] # Absent
      /\ mem[t][k] = Absent /\ c # Absent /\ t # "vector" /\ disk[k].type = t
           => disk[k].val = c
  BY LoadableFacts DEF EngineInv
<1>. QED
  BY <1>1, <1>2, StoredType DEF Value

LEMMA QueryKeepsValue ==
  ASSUME EngineInv, NEW k \in Keys, NEW t \in KeyType \ {"vector"}, SoleType(k, t),
         QueryShape(k)
  PROVE  Value(k, t)' = Value(k, t)
<1>1. mem' = mem /\ disk' = disk => Value(k, t)' = Value(k, t)
  BY DEF Value
<1>2. CASE Invalid(k)
  BY <1>1, <1>2 DEF Invalid
<1>3. ASSUME NEW u \in KeyType, NEW c \in Loadable(u, k), <<k, u>> \in uses,
             Touch(u, k, c)
      PROVE  Value(k, t)' = Value(k, t)
  <2>1. u = t
    BY <1>3 DEF SoleType
  <2>. QED
    BY <1>3, <2>1, LoadKeepsValue DEF Touch
<1>4. CASE get(k)
  <2>1. CASE ~ IsValid(meta, k, now)
    BY <1>2, <1>4, <2>1 DEF get
  <2>2. CASE IsValid(meta, k, now)
    <3>1. PICK c \in GetOrLoad("bytes", k, Decode("bytes", disk[k])) :
            mem' = [mem EXCEPT !["bytes"][k] = c] /\ disk' = disk
      BY <1>4, <2>2 DEF get
    <3>2. c \in Loadable("bytes", k)
      BY DEF Loadable
    <3>3. "bytes" = t
      BY <1>4 DEF get, Call, SoleType, KeyType
    <3>. QED
      BY <3>1, <3>2, <3>3, LoadKeepsValue
  <2>. QED
    BY <2>1, <2>2
<1>5. ASSUME NEW ms, expire(k, ms)
      PROVE  Value(k, t)' = Value(k, t)
  BY <1>1, <1>2, <1>5 DEF expire
<1>. QED
  BY <1>2, <1>3, <1>4, <1>5 DEF QueryShape

\* One iteration of the eviction loop removes one key and no more.
LEMMA EvictVictimShape ==
  ASSUME EvictVictim
  PROVE  \E v \in Victims :
           \/ /\ IsValid(meta, v, now)
              /\ meta' = UnregisterKey(meta, v)
              /\ mem' = [mem EXCEPT ![meta[v].type][v] = Absent]
              /\ disk' = IF mem[meta[v].type][v] # Absent
                         THEN Persist(disk, v, meta[v].type, mem[meta[v].type][v])
                         ELSE disk
           \/ /\ ~ IsValid(meta, v, now)
              /\ meta' = DropIfExpired(meta, v, now)
              /\ mem' = mem
              /\ disk' = disk
BY DEF EvictVictim, Evict

\* With a disk, an evicted key is still there: the map's content is persisted
\* under the type its metadata names before it leaves the map.
LEMMA EvictionKeepsValue ==
  ASSUME EngineInv, Persistent, EvictVictim,
         NEW k \in Keys, NEW t \in KeyType \ {"vector"}, SoleType(k, t)
  PROVE  Value(k, t)' = Value(k, t)
<1>1. PICK v \in Victims :
           \/ /\ IsValid(meta, v, now)
              /\ meta' = UnregisterKey(meta, v)
              /\ mem' = [mem EXCEPT ![meta[v].type][v] = Absent]
              /\ disk' = IF mem[meta[v].type][v] # Absent
                         THEN Persist(disk, v, meta[v].type, mem[meta[v].type][v])
                         ELSE disk
           \/ /\ ~ IsValid(meta, v, now)
              /\ meta' = DropIfExpired(meta, v, now)
              /\ mem' = mem
              /\ disk' = disk
  BY EvictVictimShape
<1>2. /\ mem \in [KeyType -> [Keys -> {Absent} \cup Content]]
      /\ disk \in [Keys -> {Absent} \cup Stored]
      /\ meta \in [Keys -> {Absent} \cup MetaRecord]
  BY DEF EngineInv, Good, Typed
<1>3. CASE ~ IsValid(meta, v, now)
  BY <1>1, <1>3 DEF Value
<1>4. CASE IsValid(meta, v, now) /\ v # k
  <2>1. mem'[t][k] = mem[t][k] /\ disk'[k] = disk[k]
    BY <1>1, <1>2, <1>4 DEF Persist
  <2>. QED
    BY <2>1 DEF Value
<1>5. CASE IsValid(meta, v, now) /\ v = k
  <2>1. meta[k] # Absent
    BY <1>5 DEF IsValid
  <2>2. mem[t][k] # Absent
    BY <2>1, RegisteredHeld
  <2>3. meta[k].type = t
    <3>1. meta[k].type \in KeyType /\ mem[meta[k].type][k] # Absent
      BY <2>1 DEF EngineInv, Good, Typed, HasData, MetaRecord
    <3>. QED
      BY <3>1 DEF EngineInv, Good, Used, SoleType
  <2>4. mem'[t][k] = Absent /\ disk'[k] = [type |-> t, val |-> mem[t][k]]
    BY <1>1, <1>2, <1>5, <2>2, <2>3 DEF Persist
  <2>5. [type |-> t, val |-> mem[t][k]] \in Stored
    BY <1>2, <2>2 DEF Stored
  <2>. QED
    BY <2>2, <2>4, <2>5, EngineAssumption DEF Value
<1>. QED
  BY <1>3, <1>4, <1>5

\* A restart loses the maps, but the disk holds what they held.
LEMMA RestartKeepsValue ==
  ASSUME EngineInv, Persistent, Restart,
         NEW k \in Keys, NEW t \in KeyType \ {"vector"}, SoleType(k, t)
  PROVE  Value(k, t)' = Value(k, t)
<1>1. mem'[t][k] = Absent /\ disk' = disk
  BY DEF Restart, NoData
<1>2. mem[t][k] # Absent => disk[k] = [type |-> t, val |-> mem[t][k]]
  BY DEF EngineInv, Good, Through
<1>3. mem[t][k] # Absent => [type |-> t, val |-> mem[t][k]] \in Stored
  BY DEF EngineInv, Good, Typed, Stored
<1>. QED
  BY <1>1, <1>2, <1>3, EngineAssumption DEF Value

LEMMA ValueStep ==
  ASSUME EngineInv, Persistent, [Next]_vars,
         NEW k \in Keys, NEW t \in KeyType \ {"vector"}, SoleType(k, t),
         ~ Write(k), k \notin ExpiredKeys(meta, now)
  PROVE  Value(k, t)' = Value(k, t)
<1>1. ASSUME NEW j \in Keys, Write(j) \/ Query(j), j # k
      PROVE  Value(k, t)' = Value(k, t)
  BY <1>1, WriteShapes, QueryShapes, CallKeepsOthers, ValueKept
<1>2. CASE Query(k)
  BY <1>2, QueryShapes, QueryKeepsValue
<1>3. CASE CleanupExpired
  <2>1. Kept(k)
    BY <1>3, CleanupKeeps DEF CleanupExpired, ExpiredKeys, Kept
  <2>. QED
    BY <2>1, ValueKept
<1>4. CASE EvictVictim
  BY <1>4, EvictionKeepsValue
<1>5. CASE Restart
  BY <1>5, RestartKeepsValue
<1>6. CASE (\E p \in Policies : set_eviction(p)) \/ EvictDone \/ Tick \/ UNCHANGED vars
  BY <1>6 DEF set_eviction, EvictDone, Tick, vars, Value
<1>. QED
  BY <1>1, <1>2, <1>3, <1>4, <1>5, <1>6 DEF Next

\* With a disk the cache is transparent: eviction, reload, restart, queries
\* and calls on other keys leave what a key holds as it is.
THEOREM CacheTransparent == Persistent => (Spec => OnlyWritesChangeValues)
<1>. SUFFICES ASSUME Persistent
              PROVE  Spec => OnlyWritesChangeValues
  BY EngineAssumption
<1>. DEFINE A == \A k \in Keys : \A t \in UsedTypes(k) :
                   /\ SoleType(k, t) /\ t # "vector"
                   /\ Value(k, t)' # Value(k, t)
                   => Write(k) \/ k \in ExpiredKeys(meta, now)
<1>1. EngineInv /\ [Next]_vars => [A]_vars
  BY ValueStep DEF UsedTypes
<1>. QED
  BY <1>1, Invariance, PTL DEF Spec, OnlyWritesChangeValues

-----------------------------------------------------------------------------
\* Deadlines

\* Operations on a container register a key only when they create or load it,
\* and a registered key is in memory: the metadata of a live key stays.
LEMMA RegisterLoadedKeeps ==
  ASSUME EngineInv, NEW k \in Keys, NEW t \in KeyType, SoleType(k, t),
         meta[k] # Absent, NEW u \in KeyType, <<k, u>> \in uses, NEW c
  PROVE  RegisterLoaded(u, k, c) = meta
<1>1. u = t
  BY DEF SoleType
<1>. QED
  BY <1>1, RegisteredHeld DEF RegisterLoaded

LEMMA CallKeepsDeadline ==
  ASSUME EngineInv, NEW k \in Keys, NEW t \in KeyType, SoleType(k, t),
         IsValid(meta, k, now), WriteShape(k) \/ QueryShape(k),
         ~ \E v \in Elem : put(k, v),
         ~ \E ms \in ExpireArgs : expire(k, ms),
         ~ del(k), ~ jsondel(k)
  PROVE  meta'[k] # Absent /\ meta'[k].expire = meta[k].expire
<1>0. /\ meta[k] # Absent /\ ~ IsExpired(meta[k], now)
      /\ meta \in [Keys -> {Absent} \cup MetaRecord]
  BY DEF IsValid, EngineInv, Good, Typed
<1>1. ASSUME NEW u \in KeyType, NEW c, <<k, u>> \in uses,
             Touch(u, k, c) \/ Rewrite(u, k, c)
      PROVE  meta' = meta
  BY <1>0, <1>1, RegisterLoadedKeeps DEF Touch, Rewrite
<1>2. ASSUME NEW u \in KeyType, NEW c, <<k, u>> \in uses, Grow(u, k, c)
      PROVE  meta'[k] = meta[k]
  <2>1. RegisterLoaded(u, k, c) = meta
    BY <1>0, <1>2, RegisterLoadedKeeps
  <2>. QED
    BY <1>0, <1>2, <2>1, CleanupKeeps DEF Grow, check_memory_and_evict
<1>3. check_memory_and_evict(meta, mem, disk, q) => meta'[k] = meta[k]
  BY <1>0, CleanupKeeps DEF check_memory_and_evict
<1>4. Invalid(k) => meta' = meta
  BY <1>0 DEF Invalid, DropIfExpired, ExpiredKeys
<1>5. get(k) => meta'[k] # Absent /\ meta'[k].expire = meta[k].expire
  <2>1. get(k) => meta' \in {meta, UpdateAccessInfo(meta, k, now)}
    BY DEF get, record_access, IsValid
  <2>2. /\ UpdateAccessInfo(meta, k, now)[k] # Absent
        /\ UpdateAccessInfo(meta, k, now)[k].expire = meta[k].expire
    <3>1. UpdateAccessInfo(meta, k, now)[k] = UpdateAccess(meta[k], now)
      BY <1>0 DEF UpdateAccessInfo
    <3>2. meta[k] \in MetaRecord
      BY <1>0
    <3>3. UpdateAccess(meta[k], now).expire = meta[k].expire
      BY <3>2 DEF UpdateAccess, MetaRecord
    <3>4. UpdateAccess(meta[k], now) \in MetaRecord
      <4>1. now % AccessMod \in Nat
        BY MetadataAssumption DEF EngineInv, Good, Typed
      <4>2. meta[k].lfu \in Nat
        BY <3>2 DEF MetaRecord
      <4>3. (meta[k].lfu + 1) % (LfuMax + 1) \in Nat
        BY <4>2, MetadataAssumption
      <4>. QED
        BY <3>2, <4>1, <4>3 DEF UpdateAccess, MetaRecord
    <3>. QED
      BY <3>1, <3>3, <3>4, MetadataAssumption
  <2>. QED
    BY <1>0, <2>1, <2>2
<1>. QED
  BY <1>0, <1>1, <1>2, <1>3, <1>4, <1>5 DEF WriteShape, QueryShape

LEMMA DeadlineStep ==
  ASSUME EngineInv, [Next]_vars, NEW k \in Keys, NEW t \in KeyType, SoleType(k, t),
         IsValid(meta, k, now),
         ~ \E v \in Elem : put(k, v),
         ~ \E ms \in ExpireArgs : expire(k, ms),
         ~ del(k), ~ jsondel(k)
  PROVE  \/ meta'[k] # Absent /\ meta'[k].expire = meta[k].expire
         \/ meta'[k] = Absent /\ (EvictVictim \/ Restart)
<1>0. /\ k \notin ExpiredKeys(meta, now)
      /\ meta[k] # Absent
      /\ ~ IsExpired(meta[k], now)
      /\ meta \in [Keys -> {Absent} \cup MetaRecord]
  BY DEF IsValid, ExpiredKeys, EngineInv, Good, Typed
<1>1. ASSUME NEW j \in Keys, Write(j) \/ Query(j), j # k
      PROVE  meta'[k] = meta[k]
  BY <1>0, <1>1, WriteShapes, QueryShapes, CallKeepsOthers DEF Kept
<1>2. CASE Write(k) \/ Query(k)
  BY <1>2, WriteShapes, QueryShapes, CallKeepsDeadline
<1>3. CASE CleanupExpired
  BY <1>0, <1>3, CleanupKeeps DEF CleanupExpired
<1>4. CASE EvictVictim
  <2>1. PICK v : meta' \in {UnregisterKey(meta, v), DropIfExpired(meta, v, now)}
    BY <1>4, EvictVictimShape
  <2>2. meta'[k] \in {Absent, meta[k]}
    BY <1>0, <2>1 DEF UnregisterKey, DropIfExpired
  <2>. QED
    BY <1>0, <1>4, <2>2
<1>5. CASE Restart
  BY <1>5 DEF Restart, NoMeta
<1>6. CASE (\E p \in Policies : set_eviction(p)) \/ EvictDone \/ Tick \/ UNCHANGED vars
  BY <1>0, <1>6 DEF set_eviction, EvictDone, Tick, vars
<1>. QED
  BY <1>0, <1>1, <1>2, <1>3, <1>4, <1>5, <1>6 DEF Next

\* The deadline of a live key is changed by put and expire on that key only, and
\* lost only with the metadata: in del, jsondel, its eviction and a restart.
\* (The load that follows an eviction or a restart does not bring it back.)
THEOREM DeadlinesKept == Spec => DeadlineKept
<1>. DEFINE A == \A k \in Keys : \A t \in UsedTypes(k) :
                   /\ SoleType(k, t)
                   /\ IsValid(meta, k, now)
                   /\ meta'[k] = Absent \/ meta'[k].expire # meta[k].expire
                   => \/ \E v \in Elem : put(k, v)
                      \/ \E ms \in ExpireArgs : expire(k, ms)
                      \/ /\ meta'[k] = Absent
                         /\ del(k) \/ jsondel(k) \/ EvictVictim \/ Restart
<1>1. ASSUME EngineInv, [Next]_vars, ~ UNCHANGED vars
      PROVE  A
  <2>1. ASSUME NEW k \in Keys, NEW t \in UsedTypes(k), SoleType(k, t),
               IsValid(meta, k, now),
               meta'[k] = Absent \/ meta'[k].expire # meta[k].expire,
               ~ \E v \in Elem : put(k, v),
               ~ \E ms \in ExpireArgs : expire(k, ms)
        PROVE  /\ meta'[k] = Absent
               /\ del(k) \/ jsondel(k) \/ EvictVictim \/ Restart
    <3>1. t \in KeyType
      BY DEF UsedTypes
    <3>2. CASE del(k) \/ jsondel(k)
      <4>1. meta \in [Keys -> {Absent} \cup MetaRecord]
        BY <1>1 DEF EngineInv, Good, Typed
      <4>. QED
        BY <3>2, <4>1 DEF del, jsondel, UnregisterKey
    <3>3. CASE ~ del(k) /\ ~ jsondel(k)
      BY <1>1, <2>1, <3>1, <3>3, DeadlineStep
    <3>. QED
      BY <3>2, <3>3
  <2>. QED
    BY <2>1
<1>2. EngineInv /\ [Next]_vars => [A]_vars
  BY <1>1
<1>. QED
  BY <1>2, Invariance, PTL DEF Spec, DeadlineKept

-----------------------------------------------------------------------------
\* Volatile policies

\* While an eviction under a volatile policy runs, its candidates that are
\* still registered have deadlines: no call starts in between that could
\* remove one, and no policy is chosen.
CandidatesInv ==
  /\ Idle => evicting.cand = {}
  /\ policy \in VolatilePolicy =>
       \A k \in evicting.cand : meta[k] # Absent => meta[k].expire > 0

\* A candidate of a volatile policy has a deadline.
LEMMA CandidateDeadline ==
  ASSUME EngineInv, EngineInv', now' = now, policy' = policy,
         evicting' = EvictionPlan(meta', mem')
  PROVE  CandidatesInv'
<1>1. evicting' = NotEvicting \/ (evicting'.todo # 0 /\ evicting'.cand = Candidates(meta'))
  <2>. DEFINE share == Cardinality(Candidates(meta')) \div EvictShare
  <2>1. share \in Nat
    <3>1. Candidates(meta') \subseteq Keys
      BY DEF Candidates
    <3>2. Cardinality(Candidates(meta')) \in Nat
      BY <3>1, EngineAssumption, FS_Subset, FS_CardinalityType
    <3>. QED
      BY <3>2, EngineAssumption
  <2>. HIDE DEF share
  <2>2. (IF share > 1 THEN share ELSE 1) # 0
    BY <2>1
  <2>3. \/ evicting' = NotEvicting
        \/ evicting' = [todo |-> IF share > 1 THEN share ELSE 1, cand |-> Candidates(meta')]
    BY DEF EvictionPlan, share
  <2>. QED
    BY <2>2, <2>3
<1>2. CASE evicting' = NotEvicting
  BY <1>2 DEF NotEvicting, CandidatesInv
<1>3. CASE evicting'.todo # 0 /\ evicting'.cand = Candidates(meta')
  <2>1. ASSUME policy \in VolatilePolicy, NEW k \in Candidates(meta'), meta'[k] # Absent
        PROVE  meta'[k].expire > 0
    <3>1. k \in Keys /\ GetTtlMs(meta', k, now) > 0
      BY <2>1 DEF Candidates
    <3>2. meta'[k].expire \in Nat /\ now \in Nat
      BY <2>1, <3>1 DEF EngineInv, Good, Typed, MetaRecord
    <3>. QED
      BY <3>1, <3>2 DEF GetTtlMs
  <2>. QED
    BY <1>3, <2>1 DEF CandidatesInv, Idle
<1>. QED
  BY <1>1, <1>2, <1>3

\* A call that ends without a plan leaves the loop as it found it.
LEMMA CallPlans ==
  ASSUME NEW k, WriteShape(k) \/ QueryShape(k)
  PROVE  evicting' = evicting \/ evicting' = EvictionPlan(meta', mem')
<1>1. Invalid(k) => evicting' = evicting
  BY DEF Invalid
<1>2. \A u, c : Touch(u, k, c) \/ Rewrite(u, k, c) => evicting' = evicting
  BY DEF Touch, Rewrite
<1>3. \A mt, mm, dk, tq : check_memory_and_evict(mt, mm, dk, tq) =>
        evicting' = EvictionPlan(meta', mem')
  BY DEF check_memory_and_evict
<1>4. \A u, c : Grow(u, k, c) => evicting' = EvictionPlan(meta', mem')
  BY <1>3 DEF Grow
<1>5. \A v : put(k, v) => evicting' = EvictionPlan(meta', mem')
  BY <1>3 DEF put
<1>6. del(k) \/ jsondel(k) \/ get(k) \/ (\E ms : expire(k, ms)) => evicting' = evicting
  BY <1>1 DEF del, jsondel, get, expire
<1>. QED
  BY <1>1, <1>2, <1>3, <1>4, <1>5, <1>6 DEF WriteShape, QueryShape

LEMMA CallsWhenIdle ==
  ASSUME NEW k, Write(k) \/ Query(k)
  PROVE  Idle
<1>1. \A t : Read(t, k) \/ GuardedRead(t, k) => Idle
  BY DEF Read, GuardedRead, Call
<1>2. \A t, e : Add(t, k, e) \/ Shrink(t, k, e) => Idle
  BY DEF Add, Shrink, Call
<1>3. \A gone : Pop(k) \/ RemoveEntries(k, gone) => Idle
  BY DEF Pop, RemoveEntries, Call
<1>4. CASE Write(k)
  BY <1>2, <1>3, <1>4
     DEF Write, lpop, rpop, xtrim, xdel, zadd, lpush, rpush, hset, hdel, sadd, srem,
         del, jsondel, put, zrem, hincrby, xadd, jsonset, vecadd, vecdel, Call
<1>5. CASE Query(k)
  BY <1>1, <1>5
     DEF Query, get, exists, type, ttl, expire, vecsearch, Call, zscore, zcard,
         zrange, zrangebyscore, llen, hget, hexists, hgetall, hlen, forEachHash,
         sismember, smembers, scard, forEachSet, xread, xrange, xlen, jsonget,
         vecget, vecsize
<1>. QED
  BY <1>4, <1>5

LEMMA CandidatesStep ==
  ASSUME EngineInv, EngineInv', CandidatesInv, [Next]_vars
  PROVE  CandidatesInv'
<1>0. meta \in [Keys -> {Absent} \cup MetaRecord] /\ Plan
  BY DEF EngineInv, Good, Typed
<1>1. ASSUME evicting' = evicting, Idle
      PROVE  CandidatesInv'
  BY <1>1 DEF CandidatesInv, Idle
<1>2. ASSUME NEW k \in Keys, Write(k) \/ Query(k)
      PROVE  CandidatesInv'
  <2>1. Idle
    BY <1>2, CallsWhenIdle
  <2>2. Frame
    BY <1>2, WriteFrame, QueryFrame
  <2>3. evicting' = evicting \/ evicting' = EvictionPlan(meta', mem')
    BY <1>2, WriteShapes, QueryShapes, CallPlans
  <2>. QED
    BY <1>1, <2>1, <2>2, <2>3, CandidateDeadline DEF Frame
<1>3. CASE CleanupExpired \/ \E p \in Policies : set_eviction(p)
  BY <1>1, <1>3 DEF CleanupExpired, set_eviction
<1>4. CASE EvictVictim
  <2>1. PICK v : meta' \in {UnregisterKey(meta, v), DropIfExpired(meta, v, now)}
    BY <1>4, EvictVictimShape
  <2>2. \A k : k \in Keys /\ meta'[k] # Absent => meta'[k] = meta[k]
    BY <1>0, <2>1 DEF UnregisterKey, DropIfExpired
  <2>3. \/ evicting' = NotEvicting
        \/ evicting'.todo # 0 /\ evicting'.cand = evicting.cand
    <3>1. evicting.todo \in Nat
      BY <1>0 DEF Plan
    <3>. QED
      BY <1>0, <1>4, <3>1 DEF EvictVictim, Idle, Plan
  <2>4. evicting.cand \subseteq Keys
    BY <1>0 DEF Plan
  <2>. QED
    BY <1>4, <2>2, <2>3, <2>4 DEF CandidatesInv, EvictVictim, NotEvicting, Idle
<1>5. CASE EvictDone \/ Restart
  BY <1>5 DEF EvictDone, Restart, NotEvicting, CandidatesInv
<1>6. CASE Tick \/ UNCHANGED vars
  BY <1>6 DEF Tick, vars, CandidatesInv, Idle
<1>. QED
  BY <1>2, <1>3, <1>4, <1>5, <1>6 DEF Next

\* Under a volatile policy a victim is a candidate.
LEMMA VolatileVictim ==
  ASSUME EngineInv, CandidatesInv, EvictVictim, policy \in VolatilePolicy,
         NEW k \in Keys, meta[k] # Absent, meta'[k] = Absent
  PROVE  meta[k].expire > 0
<1>0. meta \in [Keys -> {Absent} \cup MetaRecord]
  BY DEF EngineInv, Good, Typed
<1>1. PICK v \in Victims :
        \/ IsValid(meta, v, now) /\ meta' = UnregisterKey(meta, v)
        \/ ~ IsValid(meta, v, now) /\ meta' = DropIfExpired(meta, v, now)
  BY EvictVictimShape
<1>2. v = k
  BY <1>0, <1>1 DEF UnregisterKey, DropIfExpired
<1>3. Victims \subseteq evicting.cand
  BY DEF Victims, VolatilePolicy
<1>. QED
  BY <1>1, <1>2, <1>3 DEF CandidatesInv

\* A volatile policy evicts only keys with a deadline.
THEOREM VolatilePoliciesSpare == Spec => VolatileSparesPersistentKeys
<1>. DEFINE A == EvictVictim /\ policy \in VolatilePolicy =>
                   \A k \in Keys : meta[k] # Absent /\ meta'[k] = Absent
                                     => meta[k].expire > 0
<1>1. Init => CandidatesInv
  BY DEF Init, CandidatesInv, NotEvicting
<1>2. EngineInv /\ EngineInv' /\ CandidatesInv /\ [Next]_vars => CandidatesInv'
  BY CandidatesStep
<1>3. EngineInv /\ CandidatesInv /\ [Next]_vars => [A]_vars
  BY VolatileVictim
<1>. QED
  BY <1>1, <1>2, <1>3, Invariance, PTL DEF Spec, VolatileSparesPersistentKeys

=============================================================================
