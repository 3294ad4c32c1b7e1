------------------------------- MODULE Engine -------------------------------
(***************************************************************************)
(* The engine of src/src/engine.cpp, called by one client at a time: eight *)
(* typed in-memory maps, the metadata map, the 2Q structure and a RocksDB  *)
(* behind them, whose one untyped keyspace every map shares.               *)
(*                                                                         *)
(* Every API call is one action.  A call that ends in                      *)
(* check_memory_and_evict and finds the memory limit reached leaves the    *)
(* engine evicting: no other call starts until the loop of that function   *)
(* (EvictVictim, EvictDone) has run, one iteration a step.                 *)
(*                                                                         *)
(* Contents are abstracted to sets of elements: the members of a zset or   *)
(* set, the fields of a hash, the entries of a stream, the items of a      *)
(* list (each pushed item is new to the list), the ids of a vector store   *)
(* (vecdel only marks an id; Get, Size and the serialised form keep it),   *)
(* and {v} for a byte string or a JSON text v.                             *)
(***************************************************************************)
EXTENDS Integers, Sequences, FiniteSets, TwoQ, Metadata

CONSTANTS
  Elem,           \* elements and values clients write
  Opaque,         \* what bytes of another type's serialised form decode to
  Disciplines,    \* the client disciplines a behaviour may start with
  Persistent,     \* whether opts.path is set (rocksdb_ is there)
  Limit,          \* opts.max_mb in the units of MemoryUsage, 0 = unlimited
  Policies,       \* eviction policies in use
  EvictShare,     \* an eviction removes at most 1/EvictShare of the keys (10)
  ExpireArgs,     \* arguments of expire
  Epoch,          \* the clock when the engine is first opened
  MaxTime         \* bound on the clock

Policy == {"NoEviction", "AllKeysLRU", "VolatileLRU", "AllKeysLFU",
           "VolatileLFU", "AllKeysRandom", "VolatileRandom", "VolatileTTL",
           "2Q"}

VolatilePolicy == {"VolatileLRU", "VolatileLFU", "VolatileRandom", "VolatileTTL"}

Content == SUBSET (Elem \cup {Opaque})

Stored == [type : KeyType, val : Content]

ASSUME EngineAssumption ==
  /\ IsFiniteSet(Keys)
  /\ Persistent \in BOOLEAN
  /\ Limit \in Nat
  /\ EvictShare \in Nat \ {0}
  /\ Policies \subseteq Policy
  /\ ExpireArgs \subseteq Int
  /\ Epoch \in Nat
  /\ MaxTime \in Nat
  /\ Disciplines \subseteq SUBSET (Keys \X KeyType)
  /\ \A c \in Content : c # Absent
  /\ \A s \in Stored : s # Absent

VARIABLES
  now,        \* GetCurrentTimeMs()
  policy,     \* opts_.eviction
  meta,       \* meta_
  mem,        \* mem[t][k]: the content of key k in the map of type t, or Absent
  disk,       \* rocksdb_: what is stored under k, with the type it was written as
  q,          \* eviction_2q_
  evicting,   \* the loop of check_memory_and_evict: iterations left, candidates
  uses        \* the pairs <<k, t>> such that clients call type-t operations on k

vars == <<now, policy, meta, mem, disk, q, evicting, uses>>

-----------------------------------------------------------------------------
\* Persistence and loading

\* persist_*, and rocksdb_->Put of put
Persist(dk, k, t, c) ==
  IF Persistent THEN [dk EXCEPT ![k] = [type |-> t, val |-> c]] ELSE dk

\* deserialize_* of what was stored under another type: the stored form has no
\* type tag.  Lists and sets share a format, bytes and json are raw text, and
\* an empty container is a bare count in every container format.  Otherwise
\* the outcome depends on the bytes.
DecodeOther(t, d) ==
  IF {d.type, t} \in {{"list", "set"}, {"bytes", "json"}} THEN {d.val}
  ELSE IF t \in {"bytes", "json"} THEN {{Opaque}}
  ELSE IF d.val = {} /\ "vector" \notin {d.type, t} THEN {{}}
  ELSE {Absent, {}, {Opaque}}

\* deserialize_*.  A vector store is rebuilt with the dimension the caller
\* asked for, and Add rejects every vector of another dimension: vecget,
\* vecdel and vecsize ask for dimension 0 and get an empty store.
Decode(t, d) ==
  IF d.type # t THEN DecodeOther(t, d)
  ELSE IF t = "vector" THEN {{}}
  ELSE {d.val}

\* load_*: the possible outcomes, Absent when there is nothing to load.
Load(t, k, decoded) ==
  IF Persistent /\ disk[k] # Absent THEN decoded ELSE {Absent}

\* get_or_create_*: the content found in memory or else loaded; Absent is the
\* nullptr result.
GetOrLoad(t, k, decoded) ==
  IF mem[t][k] # Absent THEN {mem[t][k]} ELSE Load(t, k, decoded)

\* A content c that was not in memory is inserted and its key registered.
RegisterLoaded(t, k, c) ==
  IF mem[t][k] = Absent /\ c # Absent THEN RegisterKey(meta, k, t) ELSE meta

-----------------------------------------------------------------------------
\* Memory limit and expiry

Erase(mm, S) ==
  [t \in KeyType |-> [k \in Keys |-> IF k \in S THEN Absent ELSE mm[t][k]]]

Forget(f, S) == [k \in Keys |-> IF k \in S THEN Absent ELSE f[k]]

RemovedAll(tq, S) ==
  [prob  |-> SelectSeq(tq.prob, LAMBDA k : k \notin S),
   prot  |-> SelectSeq(tq.prot, LAMBDA k : k \notin S),
   state |-> Untracked(tq.state, S)]

\* memory_usage(): one unit for each key of a map, each element and each
\* metadata entry.
MemoryUsage(mm, mt) ==
  LET present == {p \in KeyType \X Keys : mm[p[1]][p[2]] # Absent}
  IN  Cardinality(present)
      + MapThenSumSet(LAMBDA p : Cardinality(mm[p[1]][p[2]]), present)
      + Cardinality({k \in Keys : mt[k] # Absent})

Idle == evicting.todo = 0

NotEvicting == [todo |-> 0, cand |-> {}]

\* A mutant: volatile policies consider every key.
CandidatesUnfiltered(mt) == {k \in Keys : mt[k] # Absent}

\* The keys the policy may evict.
Candidates(mt) ==
  {k \in Keys : /\ mt[k] # Absent
                /\ policy \in VolatilePolicy => GetTtlMs(mt, k, now) > 0}

\* What check_memory_and_evict does before its loop, after the clean-up.
EvictionPlan(mt, mm) ==
  LET cand == Candidates(mt)
      share == Cardinality(cand) \div EvictShare
  IN  IF /\ Limit > 0
         /\ policy # "NoEviction"
         /\ MemoryUsage(mm, mt) >= (Limit * 8) \div 10
         /\ cand # {}
      THEN [todo |-> IF share > 1 THEN share ELSE 1, cand |-> cand]
      ELSE NotEvicting

\* CleanupExpired() of the maps as the calling operation has left them: every
\* key whose metadata has expired leaves the maps, the queues and the disk.
Cleanup(mt, mm, dk, tq) ==
  LET dead == ExpiredKeys(mt, now)
  IN  /\ meta' = Forget(mt, dead)
      /\ mem' = Erase(mm, dead)
      /\ disk' = Forget(dk, dead)
      /\ q' = RemovedAll(tq, dead)

check_memory_and_evict(mt, mm, dk, tq) ==
  /\ Cleanup(mt, mm, dk, tq)
  /\ evicting' = EvictionPlan(meta', mem')

\* Which keys the policy may pick in this iteration.  Ties are broken by the
\* order of a hash map.  A candidate evicted earlier in the loop has no
\* metadata and reads as access time 0 and counter 0.
Victims ==
  LET cand == evicting.cand
      Time(k) == GetAccessTime(meta, k)
      Count(k) == GetLFUCounter(meta, k)
      Ttl(k) == GetTtlMs(meta, k, now)
  IN  CASE policy = "2Q" -> ToSet(Victim(q))
        [] policy \in {"AllKeysLRU", "VolatileLRU"} ->
             {k \in cand : \A j \in cand : Time(k) <= Time(j)}
        [] policy \in {"AllKeysLFU", "VolatileLFU"} ->
             {k \in cand : /\ Count(k) < LfuMax
                           /\ \A j \in cand : Count(k) <= Count(j)}
        [] policy \in {"AllKeysRandom", "VolatileRandom"} -> cand
        [] policy = "VolatileTTL" ->
             {k \in cand : /\ Ttl(k) > 0
                           /\ \A j \in cand : Ttl(j) > 0 => Ttl(k) <= Ttl(j)}
        [] OTHER -> {}

-----------------------------------------------------------------------------
\* What the operations have in common.  A call on a key the client does not
\* use with that type does not happen.

Call(t, k) == Idle /\ <<k, t>> \in uses

\* zadd, hset, ...: the container comes from memory or is created empty (the
\* disk is not consulted), and the grown container c is persisted.
Grow(t, k, c) ==
  check_memory_and_evict(
    RegisterLoaded(t, k, c),
    [mem EXCEPT ![t][k] = c],
    Persist(disk, k, t, c),
    q)

Held(t, k) == IF mem[t][k] = Absent THEN {} ELSE mem[t][k]

\* A mutant: every addition registers the key anew.
AddRegisters(t, k, e) ==
  /\ Call(t, k)
  /\ check_memory_and_evict(
       RegisterKey(meta, k, t), [mem EXCEPT ![t][k] = Held(t, k) \cup {e}],
       Persist(disk, k, t, Held(t, k) \cup {e}), q)
  /\ UNCHANGED <<now, policy, uses>>

Add(t, k, e) ==
  /\ Call(t, k)
  /\ Grow(t, k, Held(t, k) \cup {e})
  /\ UNCHANGED <<now, policy, uses>>

\* The key is in memory with content c, loaded if need be, and the disk keeps
\* what it has.
Touch(t, k, c) ==
  /\ mem' = [mem EXCEPT ![t][k] = c]
  /\ meta' = RegisterLoaded(t, k, c)
  /\ UNCHANGED <<now, policy, disk, q, evicting, uses>>

\* The key is in memory with content c, loaded if need be, and c is persisted.
Rewrite(t, k, c) ==
  /\ mem' = [mem EXCEPT ![t][k] = c]
  /\ meta' = RegisterLoaded(t, k, c)
  /\ disk' = Persist(disk, k, t, c)
  /\ UNCHANGED <<now, policy, q, evicting, uses>>

Read(t, k) ==
  /\ Call(t, k)
  /\ \E c \in GetOrLoad(t, k, Decode(t, disk[k])) : Touch(t, k, c)

\* meta_.IsValid failed: the metadata of an expired key is gone.
Invalid(k) ==
  /\ meta' = DropIfExpired(meta, k, now)
  /\ UNCHANGED <<now, policy, mem, disk, q, evicting, uses>>

GuardedRead(t, k) ==
  /\ Call(t, k)
  /\ IF IsValid(meta, k, now) THEN Read(t, k) ELSE Invalid(k)

\* A mutant: the reduced container is not persisted.
ShrinkUnpersisted(t, k, e) ==
  /\ Call(t, k)
  /\ \E c \in GetOrLoad(t, k, Decode(t, disk[k])) :
       Touch(t, k, IF c = Absent THEN Absent ELSE c \ {e})

\* hdel, srem, ...: remove e if it is there, and persist either way.
Shrink(t, k, e) ==
  /\ Call(t, k)
  /\ \E c \in GetOrLoad(t, k, Decode(t, disk[k])) :
       IF c = Absent THEN Touch(t, k, c) ELSE Rewrite(t, k, c \ {e})

-----------------------------------------------------------------------------
\* Pure KV

\* A mutant: put records the access only under the 2Q policy, as get does.
putTracksUnder2Q(k, v) ==
  /\ Call("bytes", k)
  /\ check_memory_and_evict(
       RegisterKey(meta, k, "bytes"),
       [mem EXCEPT !["bytes"][k] = {v}],
       Persist(disk, k, "bytes", {v}),
       IF policy = "2Q" THEN Accessed(q, k) ELSE q)
  /\ UNCHANGED <<now, policy, uses>>

put(k, v) ==
  /\ Call("bytes", k)
  /\ check_memory_and_evict(
       RegisterKey(meta, k, "bytes"),
       [mem EXCEPT !["bytes"][k] = {v}],
       Persist(disk, k, "bytes", {v}),
       Accessed(q, k))
  /\ UNCHANGED <<now, policy, uses>>

record_access(k) ==
  /\ meta' = UpdateAccessInfo(meta, k, now)
  /\ q' = IF policy = "2Q" THEN Accessed(q, k) ELSE q

\* get: a hit in memory, a hit on disk (the value is cached, the metadata keeps
\* its type), or a miss.
get(k) ==
  /\ Call("bytes", k)
  /\ IF ~ IsValid(meta, k, now) THEN Invalid(k)
     ELSE \E c \in GetOrLoad("bytes", k, Decode("bytes", disk[k])) :
            /\ mem' = [mem EXCEPT !["bytes"][k] = c]
            /\ IF c = Absent THEN UNCHANGED <<meta, q>> ELSE record_access(k)
            /\ UNCHANGED <<now, policy, disk, evicting, uses>>

\* A mutant: the metadata survives.
delKeepsMetadata(k) ==
  /\ Idle
  /\ mem' = Erase(mem, {k})
  /\ q' = Removed(q, k)
  /\ disk' = [disk EXCEPT ![k] = Absent]
  /\ UNCHANGED <<now, policy, meta, evicting, uses>>

del(k) ==
  /\ Idle
  /\ mem' = Erase(mem, {k})
  /\ q' = Removed(q, k)
  /\ meta' = UnregisterKey(meta, k)
  /\ disk' = [disk EXCEPT ![k] = Absent]
  /\ UNCHANGED <<now, policy, evicting, uses>>

exists(k) == Idle /\ Invalid(k)

type(k) == Idle /\ Invalid(k)

\* expire: ms is stored as it is, as an absolute time.
expire(k, ms) ==
  /\ Idle
  /\ IF IsValid(meta, k, now)
     THEN /\ meta' = [meta EXCEPT ![k] = SetExpireMs(@, ms)]
          /\ UNCHANGED <<now, policy, mem, disk, q, evicting, uses>>
     ELSE Invalid(k)

ttl(k) == Idle /\ Invalid(k)

-----------------------------------------------------------------------------
\* Sorted set

zadd(k, e) == Add("zset", k, e)
zscore(k) == GuardedRead("zset", k)

\* zrem looks in memory only.
zrem(k, e) ==
  /\ Call("zset", k)
  /\ mem["zset"][k] # Absent
  /\ Rewrite("zset", k, mem["zset"][k] \ {e})

zcard(k) == Read("zset", k)
zrange(k) == Read("zset", k)
zrangebyscore(k) == Read("zset", k)

-----------------------------------------------------------------------------
\* List

lpush(k, e) == e \notin Held("list", k) /\ Add("list", k, e)
rpush(k, e) == e \notin Held("list", k) /\ Add("list", k, e)

\* An item leaves the list, and an empty list is not persisted again.
Pop(k) ==
  /\ Call("list", k)
  /\ \E c \in GetOrLoad("list", k, Decode("list", disk[k])) :
       IF c \in {Absent, {}} THEN Touch("list", k, c)
       ELSE \E e \in c : Rewrite("list", k, c \ {e})

lpop(k) == Pop(k)
rpop(k) == Pop(k)
llen(k) == Read("list", k)

-----------------------------------------------------------------------------
\* Hash

hset(k, e) == Add("hash", k, e)
hget(k) == GuardedRead("hash", k)
hdel(k, e) == Shrink("hash", k, e)
hexists(k) == GuardedRead("hash", k)
hgetall(k) == GuardedRead("hash", k)
hlen(k) == Read("hash", k)
forEachHash(k) == Read("hash", k)

\* hincrby loads the hash before it creates one, and never evicts.
hincrby(k, e) ==
  /\ Call("hash", k)
  /\ \E c \in GetOrLoad("hash", k, Decode("hash", disk[k])) :
       Rewrite("hash", k, (IF c = Absent THEN {} ELSE c) \cup {e})

-----------------------------------------------------------------------------
\* Set

sadd(k, e) == Add("set", k, e)
srem(k, e) == Shrink("set", k, e)
sismember(k) == GuardedRead("set", k)
smembers(k) == GuardedRead("set", k)
scard(k) == Read("set", k)
forEachSet(k) == Read("set", k)

-----------------------------------------------------------------------------
\* Stream.  StreamData::XAdd accepts an id greater than the last entry's; an
\* empty stream accepts any id (ids are not empty here).

xadd(k, e) ==
  /\ Call("stream", k)
  /\ \/ /\ e \notin Held("stream", k)
        /\ Grow("stream", k, Held("stream", k) \cup {e})
     \/ /\ Held("stream", k) # {}
        /\ check_memory_and_evict(meta, mem, disk, q)
  /\ UNCHANGED <<now, policy, uses>>

xread(k) == GuardedRead("stream", k)
xrange(k) == GuardedRead("stream", k)
xlen(k) == Read("stream", k)

\* The entries of gone leave the stream; nothing is persisted when none does.
RemoveEntries(k, gone) ==
  /\ Call("stream", k)
  /\ \E c \in GetOrLoad("stream", k, Decode("stream", disk[k])) :
       IF c = Absent \/ gone \cap c = {} THEN Touch("stream", k, c)
       ELSE Rewrite("stream", k, c \ gone)

xdel(k, e) == RemoveEntries(k, {e})
xtrim(k) == \E gone \in Content : RemoveEntries(k, gone)

-----------------------------------------------------------------------------
\* JSON

\* jsonset of a text that parses; the path is ignored.
jsonset(k, v) ==
  /\ Call("json", k)
  /\ Rewrite("json", k, {v})

jsonget(k) == GuardedRead("json", k)

\* jsondel at the root: the 2Q structure and the other maps keep the key.
jsondel(k) ==
  /\ Call("json", k)
  /\ mem' = [mem EXCEPT !["json"][k] = Absent]
  /\ meta' = UnregisterKey(meta, k)
  /\ disk' = [disk EXCEPT ![k] = Absent]
  /\ UNCHANGED <<now, policy, q, evicting, uses>>

-----------------------------------------------------------------------------
\* Vector.  Clients use one dimension per key.  A store that is empty in memory
\* was rebuilt: with another dimension, and it rejects every vector, or by a
\* vecsearch with the client's own dimension, and it accepts them.

vecadd(k, e) ==
  /\ Call("vector", k)
  /\ \/ mem["vector"][k] = {} /\ check_memory_and_evict(meta, mem, disk, q)
     \/ Grow("vector", k, Held("vector", k) \cup {e})
  /\ UNCHANGED <<now, policy, uses>>

vecget(k) == GuardedRead("vector", k)

vecdel(k, e) ==
  /\ Call("vector", k)
  /\ \E c \in GetOrLoad("vector", k, Decode("vector", disk[k])) :
       IF c # Absent /\ e \in c THEN Rewrite("vector", k, c)
       ELSE Touch("vector", k, c)

\* deserialize_vector with the dimension that was stored.
Stores(d) == IF d.type = "vector" THEN {d.val} ELSE {}

\* vecsearch rebuilds the store with the dimension of its query.
vecsearch(k) ==
  /\ Call("vector", k)
  /\ IF ~ IsValid(meta, k, now) THEN Invalid(k)
     ELSE \E c \in GetOrLoad("vector", k,
                             Decode("vector", disk[k]) \cup Stores(disk[k])) :
            Touch("vector", k, c)

vecsize(k) == Read("vector", k)

-----------------------------------------------------------------------------
\* Maintenance

CleanupExpired ==
  /\ Idle
  /\ Cleanup(meta, mem, disk, q)
  /\ UNCHANGED <<now, policy, evicting, uses>>

set_eviction(p) ==
  /\ Idle
  /\ policy' = p
  /\ UNCHANGED <<now, meta, mem, disk, q, evicting, uses>>

\* A mutant: the victim is deleted from the disk as an expired key is.
EvictDeletesStored(v, tq) ==
  /\ disk' = [disk EXCEPT ![v] = Absent]
  /\ mem' = [mem EXCEPT ![meta[v].type][v] = Absent]
  /\ q' = Removed(tq, v)
  /\ meta' = UnregisterKey(meta, v)

\* A mutant: the victim stays registered.
EvictKeepsMetadata(v, tq) ==
  /\ disk' = Persist(disk, v, meta[v].type, mem[meta[v].type][v])
  /\ mem' = [mem EXCEPT ![meta[v].type][v] = Absent]
  /\ q' = Removed(tq, v)
  /\ meta' = meta

\* The victim's data is persisted and leaves the map its metadata names.
Evict(v, tq) ==
  LET t == meta[v].type
  IN  /\ disk' = IF mem[t][v] # Absent THEN Persist(disk, v, t, mem[t][v]) ELSE disk
      /\ mem' = [mem EXCEPT ![t][v] = Absent]
      /\ q' = Removed(tq, v)
      /\ meta' = UnregisterKey(meta, v)

OverLimit == MemoryUsage(mem, meta) > Limit

\* One iteration of the loop of check_memory_and_evict.  A victim without
\* metadata, or with expired metadata, uses the iteration up.
EvictVictim ==
  /\ ~ Idle
  /\ OverLimit
  /\ \E v \in Victims :
       LET tq == IF policy = "2Q" THEN AfterVictim(q) ELSE q
       IN  IF IsValid(meta, v, now) THEN Evict(v, tq)
           ELSE /\ meta' = DropIfExpired(meta, v, now)
                /\ q' = tq
                /\ UNCHANGED <<mem, disk>>
  /\ evicting' = IF evicting.todo = 1 THEN NotEvicting
                 ELSE [evicting EXCEPT !.todo = @ - 1]
  /\ UNCHANGED <<now, policy, uses>>

\* The loop ends early: usage is below the limit, or the policy has no victim.
EvictDone ==
  /\ ~ Idle
  /\ ~ OverLimit \/ Victims = {}
  /\ evicting' = NotEvicting
  /\ UNCHANGED <<now, policy, meta, mem, disk, q, uses>>

-----------------------------------------------------------------------------
\* Environment

Tick ==
  /\ now < MaxTime
  /\ now' = now + 1
  /\ UNCHANGED <<policy, meta, mem, disk, q, evicting, uses>>

NoMeta == [k \in Keys |-> Absent]
NoData == [t \in KeyType |-> [k \in Keys |-> Absent]]

\* The process ends or crashes, between calls or inside an eviction, and the
\* engine is constructed again: only RocksDB keeps its contents.
Restart ==
  /\ meta' = NoMeta
  /\ mem' = NoData
  /\ q' = EmptyQ
  /\ evicting' = NotEvicting
  /\ policy' \in Policies
  /\ UNCHANGED <<now, disk, uses>>

Init ==
  /\ now = Epoch
  /\ policy \in Policies
  /\ meta = NoMeta
  /\ mem = NoData
  /\ disk = [k \in Keys |-> Absent]
  /\ q = EmptyQ
  /\ evicting = NotEvicting
  /\ uses \in Disciplines

\* Calls that may change what a key holds.
Write(k) ==
  \/ del(k)
  \/ lpop(k)
  \/ rpop(k)
  \/ xtrim(k)
  \/ jsondel(k)
  \/ \E e \in Elem :
       \/ put(k, e)
       \/ zadd(k, e)
       \/ zrem(k, e)
       \/ lpush(k, e)
       \/ rpush(k, e)
       \/ hset(k, e)
       \/ hdel(k, e)
       \/ hincrby(k, e)
       \/ sadd(k, e)
       \/ srem(k, e)
       \/ xadd(k, e)
       \/ xdel(k, e)
       \/ jsonset(k, e)
       \/ vecadd(k, e)
       \/ vecdel(k, e)

\* Calls that ask about a key, or about its time to live.
Query(k) ==
  \/ get(k)
  \/ exists(k)
  \/ type(k)
  \/ ttl(k)
  \/ \E ms \in ExpireArgs : expire(k, ms)
  \/ zscore(k)
  \/ zcard(k)
  \/ zrange(k)
  \/ zrangebyscore(k)
  \/ llen(k)
  \/ hget(k)
  \/ hexists(k)
  \/ hgetall(k)
  \/ hlen(k)
  \/ forEachHash(k)
  \/ sismember(k)
  \/ smembers(k)
  \/ scard(k)
  \/ forEachSet(k)
  \/ xread(k)
  \/ xrange(k)
  \/ xlen(k)
  \/ jsonget(k)
  \/ vecget(k)
  \/ vecsearch(k)
  \/ vecsize(k)

Next ==
  \/ \E k \in Keys : Write(k) \/ Query(k)
  \/ CleanupExpired
  \/ \E p \in Policies : set_eviction(p)
  \/ EvictVictim
  \/ EvictDone
  \/ Tick
  \/ Restart

Spec == Init /\ [][Next]_vars

-----------------------------------------------------------------------------
\* Properties

TypeOK ==
  /\ now \in Nat
  /\ policy \in Policies
  /\ meta \in [Keys -> {Absent} \cup MetaRecord]
  /\ mem \in [KeyType -> [Keys -> {Absent} \cup Content]]
  /\ disk \in [Keys -> {Absent} \cup Stored]
  /\ Tracked(q) \subseteq Keys
  /\ evicting \in [todo : Nat, cand : SUBSET Keys]
  /\ uses \in Disciplines

\* A key the engine claims to have (exists, type) is in the map of the type it
\* claims: no operation removes data and leaves metadata behind, and a typed
\* read of a live key never has to fall back to the untagged disk.
MetadataHasData ==
  \A k \in Keys : meta[k] # Absent => mem[meta[k].type][k] # Absent

\* Every byte-string key is known to the 2Q structure, whatever the policy was
\* when it was written, so the default policy can always evict it.
BytesAreTracked ==
  \A k \in Keys : meta[k] # Absent /\ meta[k].type = "bytes" => k \in Tracked(q)

UsedTypes(k) == {t \in KeyType : <<k, t>> \in uses}

\* The clients use key k with type t only.
SoleType(k, t) == \A u \in KeyType : <<k, u>> \in uses <=> u = t

\* Write-through: what a map holds for a key is what the disk holds, after
\* every call and after every iteration of an eviction.  (Vector stores are
\* not covered: a reload drops their contents.)
WriteThrough ==
  \A k \in Keys, t \in KeyType \ {"vector"} :
    Persistent /\ SoleType(k, t) /\ mem[t][k] # Absent
      => disk[k] = [type |-> t, val |-> mem[t][k]]

\* What the engine holds for k, in memory or on disk.
Value(k, t) ==
  IF mem[t][k] # Absent THEN mem[t][k]
  ELSE IF disk[k] # Absent THEN disk[k].val
  ELSE Absent

\* The cache is transparent: eviction, reload, restart, queries and calls on
\* other keys never change what a key holds; only a writing call on that key
\* or its expiry does.
OnlyWritesChangeValues ==
  [][\A k \in Keys : \A t \in UsedTypes(k) :
       /\ SoleType(k, t) /\ t # "vector"
       /\ Value(k, t)' # Value(k, t)
       => Write(k) \/ k \in ExpiredKeys(meta, now)]_vars

\* No query and no addition costs a live key its deadline: it is changed by put
\* and expire on that key, and goes with the metadata in del, jsondel, the
\* eviction of the key and a restart.  After an eviction or a restart the data
\* is still on disk, and the load that finds it registers the key without a
\* deadline (engine.cpp:361, 385): there it is lost, and only there.
DeadlineKept ==
  [][\A k \in Keys : \A t \in UsedTypes(k) :
       /\ SoleType(k, t)
       /\ IsValid(meta, k, now)
       /\ meta'[k] = Absent \/ meta'[k].expire # meta[k].expire
       => \/ \E v \in Elem : put(k, v)
          \/ \E ms \in ExpireArgs : expire(k, ms)
          \/ /\ meta'[k] = Absent
             /\ del(k) \/ jsondel(k) \/ EvictVictim \/ Restart]_vars

\* A volatile policy evicts only keys that have a deadline.
VolatileSparesPersistentKeys ==
  [][EvictVictim /\ policy \in VolatilePolicy =>
       \A k \in Keys : meta[k] # Absent /\ meta'[k] = Absent => meta[k].expire > 0]_vars

-----------------------------------------------------------------------------
\* What the repository's tests and headers say of the engine, and the code
\* does not do.

\* tests/cpp/kv_test.cpp, TTL: after expire(key, ms) on a live key, ttl lies
\* between 1 and ms.  expire stores ms as an absolute time instead.
ExpireSetsTtl ==
  [][\A k \in Keys, ms \in ExpireArgs :
       expire(k, ms) /\ IsValid(meta, k, now) /\ ms > 0
         => GetTtlMs(meta', k, now) \in 1..ms]_vars

\* tests/cpp/kv_test.cpp, ZSet: after a zadd that returned true the member can
\* be read.  zadd registers a key only when it creates the container: once a
\* query has dropped the metadata of an expired key, the container is still
\* there, zadd adds to it, and zscore keeps missing.
AddedMemberReadable ==
  [][\A k \in Keys, e \in Elem :
       zadd(k, e) /\ k \notin ExpiredKeys(meta, now) => IsValid(meta', k, now)]_vars

\* tests/cpp/kv_test.cpp, ZSet: a second zadd keeps the first member.  After a
\* restart or an eviction zadd starts from an empty set and overwrites the
\* stored one.
AddKeepsMembers ==
  [][\A k \in Keys, e \in Elem :
       /\ zadd(k, e)
       /\ k \notin ExpiredKeys(meta, now)
       /\ Value(k, "zset") # Absent
       => Value(k, "zset") \subseteq Value(k, "zset")']_vars

=============================================================================
