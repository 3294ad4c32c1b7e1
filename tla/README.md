# TLA+ verification of AstrakV

AstrakV is an embedded key-value store in C++: an engine with eight typed
in-memory maps, per-key metadata with expiry, a memory limit with eviction, and
an optional RocksDB behind it, wrapped in a C API, a C++ class and Rust bindings.
This directory models the parts that decide what a key holds and when it goes
away, checks them with TLC on small instances, and proves with TLAPS, for every value
of the constants, most of what the runs check.

Paths below are relative to the repository.

## Inventory

| Component | State | Operations | Correct when |
|---|---|---|---|
| `src/eviction_2q.*` | two deques, `key_state_` | `RecordAccess`, `RemoveKey`, `GetVictim`, under one mutex | queues and states agree; the protected queue is an LRU list; demotion takes the LRU end |
| `src/metadata.hpp` | a DashMap from key to type, deadline, access time, LFU counter | register, unregister, validity (with lazy expiry), deadlines, access info | metadata says what the maps hold; a deadline stays until it is changed or the metadata goes |
| `src/engine.*` | eight DashMaps, metadata, 2Q, options, RocksDB | about 45 API calls, expiry, eviction loop | memory and disk agree; only writes and expiry change a key; memory stays bounded |
| `src/rocksdb_adapter.*` | a RocksDB handle | `Put`, `Get`, `Delete` | what is stored survives a restart |
| `src/dash_map.hpp` | shards with a reader-writer mutex each, an atomic size | `Insert`, `Get`, `Remove`, `Clear`, scans | linearizable per key; size agrees with the contents; scans miss nothing stable |
| `src/zset/bplustree.hpp`, `bplustree_internal.hpp` | nodes with keys, children and item counts; the tree's count, height and number of nodes | insert, delete, clear, search, rank, walk | balanced, within its arrays, counts exact; an ordered set |
| `src/zset/bplustree_zset.*` | a B+ tree by (score, hash), a map of scores, a map from hashes to members, a mutex | add, remove, rank and score ranges | the three hold the same pairs; every call returns |
| `src/linked_list.hpp` | a vector, or a deque once it has grown | push, pop, index, set, range, trim, insert, remove | a sequence, in whichever container |
| `src/stream_data.*` | a deque of entries, the last id | `XAdd`, `XRead`, `XRange`, `XDel`, `XTrim` | ids increase; loading drops nothing; reads are complete, also for a reader that comes back |
| `src/vector_data.*` | an HNSW index and id maps | add, get, remove, search | ids and labels are a bijection |
| `src/hll.hpp`, `src/bitmap.hpp` | registers, bytes | add, count; set, get, count | reference definitions |
| `src/kv_impl.cpp`, `src/kv.cpp`, `rust/` | handles, last error | one wrapper per engine call | calls are passed on unchanged |

How they interact: the API layers call the engine; every engine call is a
sequence of calls on DashMaps, each under its own lock, then RocksDB, then
`check_memory_and_evict`, which cleans expired keys up and evicts. Nothing holds
a lock across two maps.

What is hard: metadata, maps, 2Q and disk are four views of a key that only
convention keeps together; expiry is lazy in three different places; eviction
runs inside other operations; RocksDB survives a restart and the metadata does
not; stored values carry no type tag; and concurrent callers interleave between
the DashMap calls.

## Modules

| Module | Models |
|---|---|
| `TwoQ` | the 2Q structure as operators on a record of two sequences and a state map |
| `Eviction2Q` | the class `Eviction2Q` as a state machine over `TwoQ` |
| `Metadata` | `KeyMetadata` and `KeyMetadataManager` as operators on the metadata map |
| `Engine` | the engine; uses `TwoQ` and `Metadata` |
| `DashMap` | the sharded map, used by several threads |
| `ListSpec` | what a list promises: a sequence |
| `LinkedList` | the list as it is coded, a vector and a deque; refines `ListSpec` |
| `StreamData` | a stream, with storing and loading |
| `StreamReader` | a stream and a client that follows it from the last id it was given |
| `OrderedSet` | what the tree of a sorted set promises: a set of items in order |
| `BPlusTree` | the tree as it is coded, nodes, paths, splits and merges; refines `OrderedSet` |
| `ZSet` | the sorted set and its mutex, used by several threads, over an ordered set |
| `SharedEngine` | several threads in the engine's hash operations and `del`, on one key |
| `Eviction2QProofs`, `EngineProofs`, `DashMapProofs`, `LinkedListProofs`, `StreamDataProofs`, `ZSetProofs` | theorems and proofs |
| `BPlusTreeLemmas`, `BPlusTreeProofs` | the same for the tree: what its node operations do to a tree in order, and the theorems |
| `MCEviction2Q`, `MCEngine`, `MCDashMap`, `MCLinkedList`, `MCStreamData`, `MCBPlusTree`, `MCZSet`, `MCSharedEngine` | constants for TLC |

Operators with the comment "A mutant" are deliberately wrong variants of the
definition that follows them. No specification uses them; replacing the
definition by its variant makes TLC report the property listed with it in
`PROJECT.json`, which shows that the property depends on that piece of code.

### Eviction2Q

`q.prob` and `q.prot` are `probationary_queue_` and `protected_queue_`, front
first; `q.state` is `key_state_`. The class runs every method under one mutex,
so each is one action. `recency` is a history variable: the tracked keys by last
access, oldest first. It says what "least recently used" means without reference
to the queues. The ratio is a rational `ProtNum/ProtDen`; the code computes
`static_cast<size_t>(total * (1.0 - ratio))`, the floor of the product.

### Engine

One client calls at a time; each API call is one action, including its trailing
`check_memory_and_evict`. When that call finds usage at 80 % of the limit, the
engine is `evicting`: the loop's iterations are the actions `EvictVictim` and
`EvictDone`, no call starts before it ends, and the clock or a crash may come in
between.

Contents are abstracted to sets of elements. The disk is one untyped keyspace
that all types share; `disk[k]` remembers the type a value was written as, and
`Decode` says what a typed load makes of it. For a value of the same type the
serialised form is read back item by item (checked in the code with explicit
lengths); for a value of another type there is no tag, so `DecodeOther` lists the
outcomes: lists and sets have the same format, bytes and JSON are raw text, an
empty container is a bare count in every format, and anything else depends on the
bytes. Vector stores are rebuilt with the dimension the caller asks for, which is
0 in all calls but `vecsearch`, so a reloaded store is empty. The dimension of an
empty store is not kept in the model, so `vecadd` to one may succeed or fail.

`uses` is the clients' discipline: which types are used with which key. Runs
start either with one type per key or with keys used with two types.

Memory is counted in units (one per key, element and metadata entry) instead of
bytes; `Limit` is in the same units and 80 % and the comparison with the limit are
as in the code.

### DashMap

`map` is the union of the shards (a key's shard is fixed, `ShardIndex`), `mutex[s]`
the writer that holds shard `s`. An insertion or a removal is two steps, the
change of the shard and the change of `size_`, both under the shard's mutex,
because `Size()` reads `size_` without one. A scan (`AllKeys`, `AllEntries`,
`ForEach`) and `Clear` take one step per shard, which is atomic because the shard
is locked, and one for `size_.store(0)`. Readers need no place in `mutex`: their
critical section is one step. `stable[t]` and `ever[t]` are history variables:
the keys that have been in the map all the time, or at some time, since `t`'s
scan began. `Clearers` are the threads that call `Clear`, and `cleared` says that one
has: `SizeAgrees` is claimed until then, because `Clear` stores 0 in `size_` after
it has let the shards go (`src/dash_map.hpp:143`), and an insertion in between is in
the map and not in the count. The engine clears none of its maps.

### LinkedList and ListSpec

Both containers are sequences; `Active` is the one `use_vector_` names. The
template's copying and moving overloads have the same body. `ListSpec` defines
every operation by positions: `Range` and `Trim` select the positions between two
ends without clamping, `Remove` the first occurrences by rank, while `LinkedList`
has the code's clamping, its two erasures and its loop. `res` holds the last
call with its arguments and result, so that the refinement is about results
too. The code's `Range` is `ListRange` here, and the loop of `Remove` is a function of
the number of iterations (`Removal`). `ListSpec` states what the header promises, a
Redis list: nothing is found at an index on either side of the list. The code's
`Index` finds the head before the head (`src/linked_list.hpp:131`, finding 5), so
`ListRefined` allows, beside the steps of `ListSpec`, the steps `HeadReadBeforeIt` and
no others.

### StreamData and StreamReader

An id is a pair, or an element of `Undashed` for ids without a dash, which
`compare_ids` takes for 0-0 and `XAdd` does not remember. `system_clock` may say
anything at any call. `stored` is what `serialize_stream` wrote last; `Load` and
`LoadEntry` are an eviction or restart followed by a reading operation, which
re-adds the entries one by one. `wrapped` is a history variable, true once a
generated sequence number has wrapped (2^64 in the code, `SeqMod` here): from
then on ids are out of order and loads may drop entries, so the properties speak
of streams in which it has not happened. An `xadd` that comes first after a
restart does not load at all; that is in `Engine` (finding 3).

`StreamReader` adds a client that calls `xread` with the last id it was given
(`cursor`) between any two steps of the stream. `got` is what it was given of the
entries that are still there. `ReaderMissesNothing` says that at any moment each
entry has been given to the reader or is what a further call will give it, and not
both. It is not true without a condition: `XAdd` compares a given id with the last
entry only (`src/stream_data.cpp:50`), so once that entry and all behind the reader's
place have been deleted, trimmed or lost in a load, an entry may be added where the
reader has already been. `rewound` is a history variable that says this has happened.

### BPlusTree and OrderedSet

`nodes` is the memory: nodes by their addresses, each a record of its keys, its
children's addresses and, in an inner node, the number of items below it, which the
code stores in the block (`cnt`). A `BPTreePath` is the sequence of the nodes and
positions it records; positions count from 0 as in the code. `Insert`, `Delete` and
`Clear` are actions. One that changes a single leaf, or moves items between a leaf and
its neighbour, is over in one step. One that splits or merges nodes goes on in the next
level up: `job` holds what it has still to do, the node to add on the right of another
(`Adding`) or the path whose last node may have become poor (`Fixing`), and
`Continue` is a round of the loop of `InsertToFullLeaf` or `Delete`. No call begins
before the loop has ended, as under the mutex of `ZSetBPlus`; the properties speak of
the tree between two calls (`job = Idle`). The operators keep the code's division of
labour (`RebalanceChild`, `MergeOrRebalanceChild`, `Split`, `IncreaseSubtreeCounts`), since
that is where a count or a key could be forgotten.

The tree only compares its items, so an item is its place among the others:
before a call the items are renumbered 2, 4, 6, ..., and the odd numbers are the
places a new item can have. `VIEW Canonical` identifies trees that differ in the
numbers or in the addresses only. `call` holds the last call, so that `SetRefined` says
that `Insert` adds and `Delete` removes this item and no other, and that a further round
changes nothing. A call that finds nothing to do returns false and is a stuttering
step. The reading calls (`Contains`, `GetRank`, `ToRank`, `GEQ`, `LEQ`, `Iterate`,
`IterateReverse`) are operators, compared in every reachable tree with the items in
order. Descents and loops are recursive functions of the level or the iteration, so
that they can be proved about.

### ZSet

`member_to_score`, `ordered_set` and `hash_to_member` are the three structures of
`ZSetBPlus`; `mutex` is the thread inside. A call waits at "enter", changes the tree
in one step and the maps in the next, and unlocks at its return. A read is one step
under the mutex, and `ReadsAgree` compares what all the reads would return at that
moment with the scores. `zrange` casts signed ranks to `uint64_t`; `Word` is 2^64.
`RemoveRangeByScore` calls `Remove`, which takes the mutex again: the thread is at
"self_wait" and there is no step from there. Nothing in the repository calls it yet.

Distinct members are assumed to have distinct hashes (`HashInjective`): the code
identifies a member in the tree by `absl::Hash` alone. `CountersSuffice` says that a set
has fewer members than its counters count; the ranks of the tree are `uint32_t`, so sets
of 2^32 members and more are out of scope. `GetByRank` and `GetScoreByRank` ignore
their parameter `reverse`, as in the code, and `ReadsAgree` says so: they answer from
the lowest score whatever it is (finding 6), while the other reads agree with the
scores in both directions.

### SharedEngine

The steps of a thread are the calls it makes on the type's map, the metadata, the
container and RocksDB, each atomic by itself. `hset`, `hdel`, `hget` (and `hexists`,
`hgetall`), `hlen`, `hincrby` and `del` are there; `zadd`, `sadd` and their like have
the same shape. `serialize_hash` reads the hash shard by shard in the code and at once
here. Containers are shared pointers: `objects` holds what each one
contains, `hashes` names the one in the map, `h[t]` the one a thread works on.
`owed` and `clean` are history variables: what calls that have returned put in
each field with no removal in progress since. `AdditionsKept` says that
this is there once all calls have returned.

## Runs

| Run | Shows | Bounds |
|---|---|---|
| `twoq` | queues and states agree, LRU order, demotion and the last victims take the LRU keys, a promotion leaves room for probation | 5 keys, ratio 1/2: the protected quota goes through 0..2, and removals make it drop so that several keys are demoted at once, which the default ratio does only from 15 keys on |
| `engine_persistent` | type correctness, metadata has data, 2Q knows the byte strings, write-through, only writes change values, a deadline changes by `put` and `expire` only and goes only with the metadata; all operations of all eight types | two keys, two elements, every type and the pairs of types whose stored forms do and do not agree, a limit that evictions reach, deadlines that pass and that do not, restarts at any time |
| `engine_memory` | metadata has data and 2Q knows the byte strings in an in-memory engine under all nine policies, changed at run time; volatile policies spare keys without deadline | three keys, so that there is a choice of victims and a candidate can be evicted twice |
| `dashmap` | `size_` in range at every moment and right between operations until somebody clears; scans miss nothing that stayed, return nothing that was never there | 3 threads, one of which clears, 3 keys in 2 shards: two threads meet in one shard while a third is in the other |
| `list` | the list refines a sequence, one container at a time, but for `Index` before the head (finding 5) | 3 values, length up to 4, threshold 2, so that conversions, long deques and deques shorter than the threshold occur; indices from -5 to 5 |
| `stream` | ids increase, loading is complete, ranges are complete, a reader that goes on from its last id misses nothing and gets nothing twice until the stream ends before its place | clock readings 1..3 in any order, six ids around them, 4 entries, sequence numbers that wrap after 3 |
| `btree` | the tree is balanced and within its arrays, its counts are exact, its items in order; ranks, searches and walks are right; it implements an ordered set | every tree that insertions and deletions of up to 20 items can build, in leaves of 3 and inner nodes of 4 keys, round by round: three levels, roots that split and are given up, inner nodes below the root that merge and pass keys to either side; 4 is even, as the code's 10 is, so that a split leaves the right half short. An inner node below the root splits only from 22 items on: the proofs cover it |
| `zset` | the three structures agree when the mutex is free, the reads agree with the scores, in both directions but for `GetByRank` and `GetScoreByRank` (finding 6), every call returns unless `RemoveRangeByScore` waits for itself (finding 7) | 2 threads of 3 calls each, 3 members, 2 scores, so that members share a score and are ordered by hash; ranks in words of 256 |
| `ttl`, `zadd_expired`, `zadd_restart`, `threads` | the code does not do what a test or a header says; each is one of the findings 1 to 4 | the smallest instance in which it happens |

No action of `LinkedList` reads `res`, so the run `list` identifies states that
differ in it alone (`VIEW`); TLC checks each generated step all the same.

Deadlock is not checked where the threads stop after a bounded number of calls
(`zset`, `threads`).

Fairness: `FairSpec` of `ZSet` has weak fairness of each thread's steps inside a call,
and none of making calls. The code justifies it as far as the scheduler and
`absl::Mutex` do: a runnable thread runs on, and a mutex that is free with waiters is
given to one of them. Weak fairness of `Enter` says no more here, because each thread
makes at most `MaxCalls` calls, so the mutex is not taken from a waiter for ever. The
other modules claim no liveness: a client may stop at any time, and the eviction
loop is bounded by its counter.

## Findings

1. `expire(key, ms)` stores `ms` as an absolute time, so every live key given a
   deadline expires at once (`src/engine.cpp:541`). The test `KvTest.TTL` says
   otherwise.
2. After a query has lazily expired a zset, `zadd` adds to the leftover container
   without registering the key, and reads keep missing (`src/engine.cpp:556`).
3. After a restart or an eviction, the first addition to a container starts from
   an empty one and overwrites what is stored (`src/engine.cpp:556`).
4. The header promises a thread-safe store (`include/astrakv/kv.h:2`), but no lock
   covers an engine call (`src/engine.cpp:307`): two threads that set fields of a
   hash serialize it in one order and write it in the other, and RocksDB lacks a
   field whose `hset` has returned. `AdditionsKept` also fails in memory, when both
   threads create the container, when `hlen` loads an older copy and installs it over
   a writer's, and when two `hincrby` read the same value.
5. `Index` of a list returns the head for an index before the head
   (`src/linked_list.hpp:131`), where `Set` and `Insert` fail. The header promises a
   Redis-compatible list (`src/linked_list.hpp:2`), and `LINDEX` gives nothing there. The
   engine never calls `Index`.
6. `GetByRank` and `GetScoreByRank` ignore `reverse` (`src/zset/bplustree_zset.cpp:96`,
   `116`). The header says "reverse = true for reverse order"
   (`src/zset/bplustree_zset.hpp:99`). The engine calls neither.
7. `RemoveRangeByScore` holds the mutex and calls `Remove`, which locks it again
   (`src/zset/bplustree_zset.cpp:268`): as soon as one member is in the range, the
   thread waits for itself and every later call for it. Nothing calls it yet.

The last three need no run that fails: `ListRefined`, `ReadsAgree` and `CallsReturn` name
the exception, and the runs `list`, `zset` show that it is what the code does and the only one.

Seen in the models, contradicting no document: after a restart `get` misses every
stored key, because the metadata is not restored (`src/engine.cpp:487`); a key that is
evicted, or whose process restarts, and is loaded again has lost its deadline and never
expires (`src/engine.cpp:361`, `385`); under the default 2Q policy only byte strings are
ever evicted, so the memory limit does not hold for containers, and the eviction loop
gives up above it (`src/engine.cpp:1138`); `DashMap::Clear` can leave `size_` wrong for good
(`src/dash_map.hpp:143`); a stream that was emptied or reloaded may accept ids that its
readers have passed (`src/stream_data.cpp:50`).

What the properties do not catch: `BytesAreTracked` says that the default policy can reach
every byte string, and nothing bounds the memory taken by containers, because the code
does not; `CallsReturn` excepts the wait of `RemoveRangeByScore` for itself.

## Proofs

`Eviction2QProofs` proves, for any set of keys and any ratio below 1, that
`Eviction2Q` keeps its types, that the queues match the states and that the
protected queue is in LRU order. The inductive invariant `IInv` adds to these
that `recency` lists exactly the tracked keys without repetition: without it the
position of an accessed key in `recency` says nothing about the queue. The proof
rests on lemmas about what removing an element, appending, splitting and
concatenating do to the elements and the order of a sequence. From `IInv` follow the
action properties: demotions cut a prefix of the protected queue, which is in LRU
order (`DemotionTakesLRU`); the victim is its head, when everything is in it
(`ProtectedVictimIsLRU`); and the quota of a ratio below 1 is less than the number of
tracked keys, so a promotion leaves one out (`PromotionLeavesProbation`).

`EngineProofs` proves, for any finite set of keys, any elements, limit, policies
and clock, type correctness, `MetadataHasData`, `BytesAreTracked` and
`WriteThrough`. An operation first computes new maps and then lets
`check_memory_and_evict` clean them up, so the inductive invariant is stated as a
predicate `Good(mt, mm, dk, tq)` of the four maps, and each stage (store, load,
register, forget, erase, delete, untrack) has a lemma that says it preserves
`Good`; an action's proof chains them. `Good` adds to the four properties that
data exists only under types the clients use (`Used`): a load could otherwise
bring back a value of another type under a key that is used with one type only.

The engine's action properties are proved from the same invariant. Some forty calls
have only a few shapes (`QueryShape`, `WriteShape`: what is loaded, registered,
stored, erased), and a call of such a shape leaves every other key that has not expired
as it was (`Kept`). Evictions and restarts keep a value because write-through has put
it on the disk first; that is `CacheTransparent`, and it is why that theorem has the
hypothesis `Persistent`: without RocksDB an eviction loses the value, as it is meant to.
`DeadlinesKept` says of each step of each call that a live key's deadline is changed by
`put` and `expire` on that key only, and that a deadline is lost only together with the
metadata, in `del`, `jsondel`, an eviction of the key or a restart. It does not say that
the key has a deadline again when it is loaded: it has none. The theorem rests on
`MetadataHasData`: a load registers a key only if memory did not
hold it, and a registered key is held (`RegisterLoadedKeeps`). `VolatilePoliciesSpare` needs an invariant of its own,
`CandidatesInv`: the candidates are collected once, before the loop, and while it runs
each one that is still registered still has its deadline.

`DashMapProofs` proves type correctness and `ScanComplete` for any threads, keys
and shards, clearing threads included. The invariant `ScanInv` says of a scan in
progress that its stable keys are in the map, that the map is within what was
ever there, and that the stable keys of the shards behind it have been collected.
`SizeInRange` and `SizeAgrees` follow from `SizeInv`: `size_` is the cardinality of a set
of keys that differs from the map in at most one key of each locked shard, the one its
holder has still to count (`Counted`). With no bookkeeping of pending changes as numbers,
each step changes the set by the key it changes `size_` for, and when no shard is locked
the set is the map. `LockInv` (a working thread holds exactly one mutex) makes the keys of
two threads different.

`LinkedListProofs` proves `OneContainer`, which is inductive as it stands, and that the
list implements `ListSpec` for any elements, indices and threshold: `ListRefined` is the
abstract specification itself under the refinement mapping. Each operation is shown to
take the abstract step of the same name with the same result. The hard one is `Remove`,
a loop in the code and a selection of the first occurrences by rank in `ListSpec`: by
induction, after `i` iterations the loop has kept what the ranks keep of the first `i`
elements and has removed as many as there are occurrences among them, up to the count.
The one call that has no abstract step, `Index` before the head, is the exception the
theorem's property names.

`StreamDataProofs` proves type correctness, `IdsIncrease` and `LoadKeepsEntries`
for any ids, clock, lengths and `SeqMod`. An entry is accepted while loading
because what is stored is in order; what is generated is in order because the
last id is not before the last entry; and what is stored is what is there and
what is still to be loaded. `IInv` is the conjunction of the three. On ordered
entries, the ids behind a bound are a suffix (`SuffixCut`) and the loops of `XRead` and
`XRange` collect a slice behind it, by induction on the iterations; `XRangeComplete` is
then about slices. `ReadersMissNothing` is a theorem of the stream together with its
reader. Its invariant `ReaderInv` says that what the reader was given is what is in the
stream up to `cursor`, and that, until the stream ends before the reader's place, an
entry that is added comes behind `cursor`. A step of the stream keeps it because an entry
is accepted only behind the last one, which is not before `cursor`; a read keeps it
because the batch is the slice that begins behind `cursor`.

`ZSetProofs` proves type correctness and `MapsAgree` for any threads, members, scores
and injective hashes. The invariant has to say what holds in the middle of a call:
only the holder of the mutex is inside (`Exclusive`), it has the argument its step
needs (`ArgsOK`), the reverse map follows the scores at every moment
(`HashesLeadBack`), and the tree is what the scores say, except that inside
"add_maps", "remove_maps" and "clear_maps" it is what they will say after the next
step (`TreeAhead`). That the element of one member is never the element of another,
which deleting the old score's element needs, is where `HashInjective` comes in.
For `ReadsAgree`, a reader finds the tree to be that of the scores; the rank of an
element, the number of smaller ones, is a bijection from the tree onto 0..Size-1; the
score and rank ranges are runs of ranks; and the loop over such a run collects the
members at these ranks. `CountersSuffice` is needed for the casts of `zrange` only: -1
cast to the word has to lie behind every rank.

`BPlusTreeProofs` proves, for any number of items and any capacity of at least three
keys, odd or even, that between two calls the tree has its shape, exact counts and its items in
order (`ShapeKept`, `CountsKept`, `OrderKept`), and that it implements the ordered set,
call by call (`TreeImplementsSet`). None of this is inductive between two calls, since a
call that goes on leaves a tree that is none. `BPlusTreeLemmas` therefore says what a
tree is without recursion: each node has a level (`lv`) and two items between which its
own lie (`lo`, `hi`). `Form` is the conjunction of seven conditions on one node or on a
node and its children: types (`Typed`), the root (`Rooted`), children one level down
(`Leveled`), keys between the bounds (`Ordered`), each child bounded by the keys beside it
(`Linked`), the nodes of a level apart from each other (`Apart`), and the count as the
number of items between the bounds (`Counted`). `Fill` says how many keys a node has, with
at most one node that has one too many or too few. `Pending` is the tree in the middle of
an insertion: it would be a tree if the last node on a path had one item and one child
more, and the counts on the path were right. `Owing` is the tree in the middle of a
deletion. The invariant `TreeInv` says that after every round the tree is whole (`Tidy`),
pending (`Growing`) or owing (`Settling`). The proof has a lemma for each way a round can
go: the item finds room, the node is split, a neighbour takes some of its items, two
nodes are merged, items are taken from a neighbour, a new root, a root given up. That
renumbering the items before a call changes nothing is a lemma too: the tree only compares.

Induction: the library's induction rule takes an operator, which these provers cannot
instantiate. The modules that need induction derive from the well-foundedness of the
natural numbers that a *set* that holds 0 and every successor holds all of them
(`NatSetInduction`), which is used with the set of the numbers that have the property.
Loops are recursive functions of the iteration; that such a function has the values its
definition gives is proved with it (`LoopExists`, `CollectedFacts`, and the like).

The assumptions are the ones named in the modules: `RatioAssumption`,
`MetadataAssumption`, `EngineAssumption`, `DashMapAssumption`, `LinkedListAssumption`,
`StreamAssumption`, `HashInjective`, `ZSetAssumption`, `CountersSuffice`,
`CapacityAssumption`.

Only model-checked: the reading calls of the tree (`Ranks`, `Seeks`, `Walks`), which
`ZSet` takes as those of the ordered set; `CallsReturn`, since liveness is out of the
provers' reach; and the violations behind the findings, which are counterexamples.

## Not modelled

- The vector store (`src/vector_data.*`): its index is hnswlib, approximate by
  design; `Engine` has the engine's handling of vector keys.
- `bitmap.hpp` and `hll.hpp`: arithmetic on bytes and floating-point estimates without
  state beyond one array.
- The C API, the C++ class and the Rust bindings: one wrapper per engine call that
  converts arguments and copies results.
- The SIMD helpers and macros, the statistics counters, `MemoryUsage` of the zset,
  and `ForceUpdate` of the tree, which nothing calls.
- Failing RocksDB writes: the engine ignores their result, so a failure breaks
  write-through at once and no code reacts to it.
- The concurrent use of the engine beyond one key's hash operations and `del`, such as
  metadata records changed by two threads, and data races inside lists, streams and
  vector stores, which are undefined behaviour.
- The unlocked variant of `DashMap`, NaN scores, and members with equal hashes.

## Plan

1. Done: `Eviction2Q`, `Metadata`, `Engine`, `DashMap`, `LinkedList`, `StreamData` and its
   reader, `BPlusTree`, `ZSet`, `SharedEngine`, their runs, and the proofs of the safety
   properties of all but `SharedEngine` and the tree's reading calls.
2. Proofs: what `Rank`, `ToRank` and the path's steps return in a tree of the proved
   form; what does hold of `SharedEngine`.
3. With more of the engine under threads: metadata records and deadlines, and the
   order of map and disk writes of `put`.
