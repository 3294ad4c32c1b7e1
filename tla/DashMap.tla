------------------------------ MODULE DashMap -------------------------------
(***************************************************************************)
(* The sharded map of src/src/dash_map.hpp (ThreadSafe = true), used by    *)
(* several threads.  Insert and Remove hold the mutex of one shard while   *)
(* they change its map and then the atomic size_; the scans (AllKeys,      *)
(* AllEntries, ForEach) and Clear visit the shards one after the other and *)
(* hold one mutex at a time.  Values are abstracted away: the map is the   *)
(* set of its keys, and Get and Contains change nothing.                   *)
(*                                                                         *)
(* Size() reads size_ without a mutex, so the change of a shard's map and  *)
(* the change of size_ are two steps.                                      *)
(***************************************************************************)
EXTENDS Integers, FiniteSets

CONSTANTS
  Keys,
  Threads,
  Clearers,     \* the threads that call Clear
  NumShards,    \* shards_.size()
  ShardIndex,   \* the shard of each key
  SizeMod,      \* size_ counts modulo this (2^64)
  Nobody        \* no thread holds the mutex

Shards == 1..NumShards

ASSUME DashMapAssumption ==
  /\ IsFiniteSet(Keys)
  /\ Clearers \subseteq Threads
  /\ NumShards \in Nat \ {0}
  /\ ShardIndex \in [Keys -> Shards]
  /\ SizeMod \in Nat
  /\ SizeMod > Cardinality(Keys)
  /\ Nobody \notin Threads

VARIABLES
  map,       \* the keys in the shards
  size,      \* size_
  mutex,     \* mutex[s]: the thread that holds the mutex of shard s for writing
  pc,        \* where each thread is
  next,      \* next[t]: the next shard thread t visits in a scan or a Clear
  seen,      \* seen[t]: the keys thread t's scan has collected
  stable,    \* stable[t]: the keys in the map ever since t's scan began
  ever,      \* ever[t]: the keys in the map at some time since t's scan began
  cleared    \* a thread has called Clear

vars == <<map, size, mutex, pc, next, seen, stable, ever, cleared>>

Content(s) == {k \in map : ShardIndex[k] = s}

\* An absl::MutexLock or ReaderMutexLock on shard s can be taken now.
Free(s) == mutex[s] = Nobody

Go(t, where) == pc' = [pc EXCEPT ![t] = where]

-----------------------------------------------------------------------------
\* The scans in progress, for the history variables.
Scanning == {u \in Threads : pc[u] = "scanning"}

Gained(k) == [u \in Threads |-> IF u \in Scanning THEN ever[u] \cup {k} ELSE ever[u]]

Lost(S) == [u \in Threads |-> IF u \in Scanning THEN stable[u] \ S ELSE stable[u]]

\* A mutant: the mutex does not cover the count.
InsertUnlocksEarly(t, k) ==
  /\ pc[t] = "idle"
  /\ Free(ShardIndex[k])
  /\ k \notin map
  /\ map' = map \cup {k}
  /\ ever' = Gained(k)
  /\ Go(t, "inserted")
  /\ UNCHANGED <<size, mutex, next, seen, stable, cleared>>

\* A mutant: an assignment to a key that is there counts as an insertion.
InsertCountsAssignments(t, k) ==
  /\ pc[t] = "idle"
  /\ Free(ShardIndex[k])
  /\ mutex' = [mutex EXCEPT ![ShardIndex[k]] = t]
  /\ map' = map \cup {k}
  /\ ever' = Gained(k)
  /\ Go(t, "inserted")
  /\ UNCHANGED <<size, next, seen, stable, cleared>>

\* insert_or_assign of a new key.  Assigning to a key that is there changes
\* neither the keys nor the size.
Insert(t, k) ==
  /\ pc[t] = "idle"
  /\ Free(ShardIndex[k])
  /\ k \notin map
  /\ mutex' = [mutex EXCEPT ![ShardIndex[k]] = t]
  /\ map' = map \cup {k}
  /\ ever' = Gained(k)
  /\ Go(t, "inserted")
  /\ UNCHANGED <<size, next, seen, stable, cleared>>

Unlocked(t) == [s \in Shards |-> IF mutex[s] = t THEN Nobody ELSE mutex[s]]

\* size_.fetch_add, and the end of the critical section
InsertCount(t) ==
  /\ pc[t] = "inserted"
  /\ size' = (size + 1) % SizeMod
  /\ mutex' = Unlocked(t)
  /\ Go(t, "idle")
  /\ UNCHANGED <<map, next, seen, stable, ever, cleared>>

\* erase of a key that is there
Remove(t, k) ==
  /\ pc[t] = "idle"
  /\ Free(ShardIndex[k])
  /\ k \in map
  /\ mutex' = [mutex EXCEPT ![ShardIndex[k]] = t]
  /\ map' = map \ {k}
  /\ stable' = Lost({k})
  /\ Go(t, "removed")
  /\ UNCHANGED <<size, next, seen, ever, cleared>>

\* size_.fetch_sub, and the end of the critical section
RemoveCount(t) ==
  /\ pc[t] = "removed"
  /\ size' = (size - 1) % SizeMod
  /\ mutex' = Unlocked(t)
  /\ Go(t, "idle")
  /\ UNCHANGED <<map, next, seen, stable, ever, cleared>>

-----------------------------------------------------------------------------
\* AllKeys, AllEntries and ForEach

\* A mutant: the shards are counted from 0.
ScanBeginAtZero(t) ==
  /\ pc[t] = "idle"
  /\ next' = [next EXCEPT ![t] = 0]
  /\ seen' = [seen EXCEPT ![t] = {}]
  /\ stable' = [stable EXCEPT ![t] = map]
  /\ ever' = [ever EXCEPT ![t] = map]
  /\ Go(t, "scanning")
  /\ UNCHANGED <<map, size, mutex, cleared>>

ScanBegin(t) ==
  /\ pc[t] = "idle"
  /\ next' = [next EXCEPT ![t] = 1]
  /\ seen' = [seen EXCEPT ![t] = {}]
  /\ stable' = [stable EXCEPT ![t] = map]
  /\ ever' = [ever EXCEPT ![t] = map]
  /\ Go(t, "scanning")
  /\ UNCHANGED <<map, size, mutex, cleared>>

ScanShard(t) ==
  /\ pc[t] = "scanning"
  /\ next[t] \in Shards
  /\ Free(next[t])
  /\ seen' = [seen EXCEPT ![t] = @ \cup Content(next[t])]
  /\ next' = [next EXCEPT ![t] = @ + 1]
  /\ UNCHANGED <<map, size, mutex, pc, stable, ever, cleared>>

\* A mutant: the last shard is not visited.
ScanDoneEarly(t) == next[t] = NumShards

ScanDone(t) == next[t] = NumShards + 1

\* The scan returns; seen[t] is its result.
ScanReturn(t) ==
  /\ pc[t] = "scanning"
  /\ ScanDone(t)
  /\ Go(t, "scanned")
  /\ UNCHANGED <<map, size, mutex, next, seen, stable, ever, cleared>>

\* The caller has looked at the result.
ScanForget(t) ==
  /\ pc[t] = "scanned"
  /\ Go(t, "idle")
  /\ seen' = [seen EXCEPT ![t] = {}]
  /\ stable' = [stable EXCEPT ![t] = {}]
  /\ ever' = [ever EXCEPT ![t] = {}]
  /\ next' = [next EXCEPT ![t] = 1]
  /\ UNCHANGED <<map, size, mutex, cleared>>

-----------------------------------------------------------------------------
\* Clear

ClearBegin(t) ==
  /\ t \in Clearers
  /\ pc[t] = "idle"
  /\ next' = [next EXCEPT ![t] = 1]
  /\ cleared' = TRUE
  /\ Go(t, "clearing")
  /\ UNCHANGED <<map, size, mutex, seen, stable, ever>>

ClearShard(t) ==
  /\ pc[t] = "clearing"
  /\ next[t] \in Shards
  /\ Free(next[t])
  /\ map' = map \ Content(next[t])
  /\ stable' = Lost(Content(next[t]))
  /\ next' = [next EXCEPT ![t] = @ + 1]
  /\ UNCHANGED <<size, mutex, pc, seen, ever, cleared>>

\* size_.store(0), under no mutex
ClearSize(t) ==
  /\ pc[t] = "clearing"
  /\ next[t] = NumShards + 1
  /\ size' = 0
  /\ next' = [next EXCEPT ![t] = 1]
  /\ Go(t, "idle")
  /\ UNCHANGED <<map, mutex, seen, stable, ever, cleared>>

-----------------------------------------------------------------------------

Init ==
  /\ map = {}
  /\ size = 0
  /\ mutex = [s \in Shards |-> Nobody]
  /\ pc = [t \in Threads |-> "idle"]
  /\ next = [t \in Threads |-> 1]
  /\ seen = [t \in Threads |-> {}]
  /\ stable = [t \in Threads |-> {}]
  /\ ever = [t \in Threads |-> {}]
  /\ cleared = FALSE

Next ==
  \E t \in Threads :
    \/ \E k \in Keys : Insert(t, k) \/ Remove(t, k)
    \/ InsertCount(t)
    \/ RemoveCount(t)
    \/ ScanBegin(t)
    \/ ScanShard(t)
    \/ ScanReturn(t)
    \/ ScanForget(t)
    \/ ClearBegin(t)
    \/ ClearShard(t)
    \/ ClearSize(t)

Spec == Init /\ [][Next]_vars

-----------------------------------------------------------------------------
\* Properties

PC == {"idle", "inserted", "removed", "scanning", "scanned", "clearing"}

TypeOK ==
  /\ map \subseteq Keys
  /\ size \in 0..(SizeMod - 1)
  /\ mutex \in [Shards -> Threads \cup {Nobody}]
  /\ pc \in [Threads -> PC]
  /\ next \in [Threads -> 1..(NumShards + 1)]
  /\ seen \in [Threads -> SUBSET Keys]
  /\ stable \in [Threads -> SUBSET Keys]
  /\ ever \in [Threads -> SUBSET Keys]
  /\ cleared \in BOOLEAN

\* Size(), read at any moment without a mutex, is a size the map can have: the
\* counter never wraps below zero, because the mutex of the shard covers both
\* the map and the count.  (Of a map nobody has cleared:
\* Clear stores 0 after it has let the last shard go.)
SizeInRange == ~cleared => size <= Cardinality(Keys)

\* No thread is between the two halves of an operation, or in Clear.
Quiet == \A t \in Threads : pc[t] \notin {"inserted", "removed", "clearing"}

\* Between operations size_ is the number of keys in the shards, however the
\* insertions, removals and counts of the threads are interleaved, as long as
\* nobody has called Clear.
SizeAgrees == ~cleared /\ Quiet => size = Cardinality(map)

\* A scan is no snapshot, but it misses no key that was in the map all the
\* time and returns none that was never there.
ScanComplete ==
  \A t \in Threads : pc[t] = "scanned" =>
    /\ stable[t] \subseteq seen[t]
    /\ seen[t] \subseteq ever[t]

=============================================================================
