---------------------------- MODULE SharedEngine ----------------------------
(***************************************************************************)
(* The engine of src/src/engine.cpp under several threads, on one key.     *)
(*                                                                         *)
(* Each container locks itself, but an engine call is a row of calls to    *)
(* the map of the type, the metadata, the container and RocksDB, with no   *)
(* lock around them.  The steps here are those calls, each atomic: the     *)
(* hash operations, whose shape zadd, zrem, sadd, srem and their reads     *)
(* share, hincrby, and del.  Containers are shared pointers, so a thread   *)
(* may go on with one that is no longer in the map.                        *)
(*                                                                         *)
(* Eviction, expiry and restarts are in Engine; RocksDB's writes succeed.  *)
(***************************************************************************)
EXTENDS Integers, FiniteSets

CONSTANTS
  Threads,
  Fields,
  Counter,    \* the field that hincrby counts in
  None,
  MaxCalls    \* a bound on the calls of a thread, for the checks

VARIABLES
  hashes,     \* hashes_: the container of the key, or None
  objects,    \* what each container holds
  registered, \* the key is in the metadata
  disk,       \* RocksDB: what is stored under the key, or None
  pc, op, field,
  h,          \* the thread's shared pointer, or None
  read,       \* what hincrby read
  data,       \* the serialized container, on its way to RocksDB
  calls,
  owed,       \* for each field, what returned calls put there and none took
  clean       \* no removal has been in progress since the thread's call began

vars == <<hashes, objects, registered, disk, pc, op, field, h, read, data,
          calls, owed, clean>>

Keys == Fields \cup {Counter}
Empty == [f \in Keys |-> 0]

\* One container in the map and one for each thread.
Ids == 0..Cardinality(Threads)

\* A container that nobody points to.
Fresh == CHOOSE i \in Ids : i # hashes /\ \A t \in Threads : h[t] # i

Shared == <<hashes, objects, registered, disk>>
Locals == <<op, field, calls>>

Goto(t, label) == pc' = [pc EXCEPT ![t] = label]

Removals == {"hdel", "del"}

Removing == \E t \in Threads : pc[t] # "idle" /\ op[t] \in Removals

\* A removal may take back what it meets: nothing is owed for what it can
\* have met.
Call(t, o, f) ==
  /\ pc[t] = "idle" /\ calls[t] < MaxCalls
  /\ Goto(t, CASE o = "del" -> "del_map" [] o = "hget" -> "valid" [] OTHER -> "lookup")
  /\ op' = [op EXCEPT ![t] = o] /\ field' = [field EXCEPT ![t] = f]
  /\ calls' = [calls EXCEPT ![t] = @ + 1]
  /\ IF o \in Removals
     THEN clean' = [u \in Threads |-> FALSE] /\ owed' = Empty
     ELSE clean' = [clean EXCEPT ![t] = ~ Removing] /\ owed' = owed
  /\ UNCHANGED <<Shared, h, read, data>>

\* The answer goes out; the shared pointer goes.
Return(t) ==
  /\ Goto(t, "idle")
  /\ h' = [h EXCEPT ![t] = None]

\* hget, hexists and hgetall return at once if the key is not registered.
Valid(t) ==
  /\ pc[t] = "valid"
  /\ IF registered THEN Goto(t, "lookup") /\ UNCHANGED h ELSE Return(t)
  /\ UNCHANGED <<Shared, Locals, read, data, owed, clean>>

AfterGet(t) ==
  CASE op[t] = "hincrby" -> "read"
    [] op[t] \in {"hget", "hlen"} -> "get"
    [] OTHER -> "change"

\* hashes_.Get.  hset makes an empty container, the others look on disk.
Lookup(t) ==
  /\ pc[t] = "lookup"
  /\ \/ /\ hashes # None
        /\ h' = [h EXCEPT ![t] = hashes]
        /\ Goto(t, AfterGet(t))
        /\ UNCHANGED objects
     \/ /\ hashes = None
        /\ h' = [h EXCEPT ![t] = Fresh]
        /\ objects' = [objects EXCEPT ![Fresh] = Empty]
        /\ Goto(t, IF op[t] = "hset" THEN "install" ELSE "load")
  /\ UNCHANGED <<hashes, registered, disk, Locals, read, data, owed, clean>>

\* load_hash.  hincrby goes on with the empty container, the others return.
Load(t) ==
  /\ pc[t] = "load"
  /\ \/ /\ disk # None
        /\ objects' = [objects EXCEPT ![h[t]] = disk]
        /\ Goto(t, "install") /\ UNCHANGED h
     \/ /\ disk = None /\ op[t] = "hincrby"
        /\ Goto(t, "install") /\ UNCHANGED <<objects, h>>
     \/ /\ disk = None /\ op[t] # "hincrby"
        /\ Return(t) /\ UNCHANGED objects
  /\ UNCHANGED <<hashes, registered, disk, Locals, read, data, owed, clean>>

\* hashes_.Insert, which replaces what is there.
Install(t) ==
  /\ pc[t] = "install"
  /\ hashes' = h[t]
  /\ Goto(t, "register")
  /\ UNCHANGED <<objects, registered, disk, Locals, h, read, data, owed, clean>>

RegisterKey(t) ==
  /\ pc[t] = "register"
  /\ registered' = TRUE
  /\ Goto(t, AfterGet(t))
  /\ UNCHANGED <<hashes, objects, disk, Locals, h, read, data, owed, clean>>

ReadField(t) ==
  /\ pc[t] = "read"
  /\ read' = [read EXCEPT ![t] = objects[h[t]][field[t]]]
  /\ Goto(t, "change")
  /\ UNCHANGED <<Shared, Locals, h, data, owed, clean>>

\* h->Insert or h->Remove.
Change(t) ==
  /\ pc[t] = "change"
  /\ objects' = [objects EXCEPT ![h[t]][field[t]] =
       CASE op[t] = "hset" -> 1
         [] op[t] = "hincrby" -> read[t] + 1
         [] op[t] = "hdel" -> 0]
  /\ Goto(t, "serialize")
  /\ UNCHANGED <<hashes, registered, disk, Locals, h, read, data, owed, clean>>

\* persist_hash: serialize_hash, and then the write.  AllEntries reads the hash
\* shard by shard (src/src/dash_map.hpp:151-192), which is one step here.
Serialize(t) ==
  /\ pc[t] = "serialize"
  /\ data' = [data EXCEPT ![t] = objects[h[t]]]
  /\ Goto(t, "write")
  /\ UNCHANGED <<Shared, Locals, h, read, owed, clean>>

Write(t) ==
  /\ pc[t] = "write"
  /\ disk' = data[t]
  /\ Return(t)
  /\ owed' = CASE op[t] = "hset" /\ clean[t] -> [owed EXCEPT ![field[t]] = 1]
               [] op[t] = "hincrby" /\ clean[t] -> [owed EXCEPT ![field[t]] = @ + 1]
               [] OTHER -> owed
  /\ UNCHANGED <<hashes, objects, registered, Locals, read, data, clean>>

\* The last step of the calls that read.
GetField(t) ==
  /\ pc[t] = "get"
  /\ Return(t)
  /\ UNCHANGED <<Shared, Locals, read, data, owed, clean>>

DelMap(t) ==
  /\ pc[t] = "del_map"
  /\ hashes' = None
  /\ Goto(t, "del_meta")
  /\ UNCHANGED <<objects, registered, disk, Locals, h, read, data, owed, clean>>

DelMeta(t) ==
  /\ pc[t] = "del_meta"
  /\ registered' = FALSE
  /\ Goto(t, "del_disk")
  /\ UNCHANGED <<hashes, objects, disk, Locals, h, read, data, owed, clean>>

DelDisk(t) ==
  /\ pc[t] = "del_disk"
  /\ disk' = None
  /\ Return(t)
  /\ UNCHANGED <<hashes, objects, registered, Locals, read, data, owed, clean>>

-----------------------------------------------------------------------------
Init ==
  /\ hashes = None /\ objects = [i \in Ids |-> Empty]
  /\ registered = FALSE /\ disk = None
  /\ pc = [t \in Threads |-> "idle"]
  /\ op = [t \in Threads |-> None] /\ field = [t \in Threads |-> None]
  /\ h = [t \in Threads |-> None]
  /\ read = [t \in Threads |-> 0] /\ data = [t \in Threads |-> Empty]
  /\ calls = [t \in Threads |-> 0]
  /\ owed = Empty /\ clean = [t \in Threads |-> TRUE]

Calls(t) ==
  \/ \E f \in Fields : Call(t, "hset", f) \/ Call(t, "hdel", f)
  \/ Call(t, "hincrby", Counter)
  \/ Call(t, "hget", None) \/ Call(t, "hlen", None)
  \/ Call(t, "del", None)

Step(t) ==
  \/ Valid(t) \/ Lookup(t) \/ Load(t) \/ Install(t) \/ RegisterKey(t)
  \/ ReadField(t) \/ Change(t) \/ Serialize(t) \/ Write(t) \/ GetField(t)
  \/ DelMap(t) \/ DelMeta(t) \/ DelDisk(t)

Next == \E t \in Threads : Calls(t) \/ Step(t)

Spec == Init /\ [][Next]_vars

-----------------------------------------------------------------------------
Quiet == \A t \in Threads : pc[t] = "idle"

Held(f) == IF hashes = None THEN 0 ELSE objects[hashes][f]
Stored(f) == IF disk = None THEN 0 ELSE disk[f]

\* A thread-safe store: once every call has returned, memory and RocksDB hold
\* every field that was set, and for a counter at least the increments that
\* returned, since the last removal.
AdditionsKept ==
  Quiet => \A f \in Keys : Held(f) >= owed[f] /\ Stored(f) >= owed[f]

=============================================================================
