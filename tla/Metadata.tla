------------------------------ MODULE Metadata ------------------------------
(***************************************************************************)
(* KeyMetadata and KeyMetadataManager (src/src/metadata.hpp) as operators  *)
(* on the metadata map: meta[k] is the record of key k, or Absent.         *)
(* The version field is left out: nothing outside the class reads it.      *)
(***************************************************************************)
EXTENDS Integers

CONSTANTS
  Keys,
  Absent,       \* no entry; not a value of any map
  AccessMod,    \* access_time_ms keeps now modulo this (0xFFFFFF + 1)
  LfuMax        \* largest lfu_counter (UINT8_MAX)

KeyType == {"bytes", "zset", "list", "hash", "set", "stream", "json", "vector"}

MetaRecord == [type : KeyType, expire : Nat, access : Nat, lfu : Nat]

ASSUME MetadataAssumption ==
  /\ AccessMod \in Nat \ {0}
  /\ LfuMax \in Nat
  /\ Absent \notin MetaRecord

-----------------------------------------------------------------------------
\* KeyMetadata.  expire = 0 stands for an empty expire_time_ms.

NewMetadata(t) == [type |-> t, expire |-> 0, access |-> 0, lfu |-> 0]

IsExpired(m, now) == m.expire > 0 /\ m.expire < now

\* A mutant: negative times are stored too.
SetExpireMsUnchecked(m, ms) == [m EXCEPT !.expire = ms]

SetExpireMs(m, ms) == [m EXCEPT !.expire = IF ms <= 0 THEN 0 ELSE ms]

\* The counter is a uint8_t: min(lfu + 1, 255) wraps before it saturates.
UpdateAccess(m, now) ==
  [m EXCEPT !.access = now % AccessMod, !.lfu = (@ + 1) % (LfuMax + 1)]

-----------------------------------------------------------------------------
\* KeyMetadataManager

RegisterKey(meta, k, t) == [meta EXCEPT ![k] = NewMetadata(t)]

UnregisterKey(meta, k) == [meta EXCEPT ![k] = Absent]

\* The result of IsValid ...
IsValid(meta, k, now) == meta[k] # Absent /\ ~ IsExpired(meta[k], now)

ExpiredKeys(meta, now) ==
  {k \in Keys : meta[k] # Absent /\ IsExpired(meta[k], now)}

\* ... and its effect, which GetKeyType shares: an expired key loses its
\* metadata, and only its metadata.
DropIfExpired(meta, k, now) ==
  IF k \in ExpiredKeys(meta, now) THEN UnregisterKey(meta, k) ELSE meta

GetTtlMs(meta, k, now) ==
  IF ~ IsValid(meta, k, now) THEN -2
  ELSE IF meta[k].expire <= now THEN -1
  ELSE meta[k].expire - now

GetAccessTime(meta, k) == IF meta[k] = Absent THEN 0 ELSE meta[k].access

GetLFUCounter(meta, k) == IF meta[k] = Absent THEN 0 ELSE meta[k].lfu

UpdateAccessInfo(meta, k, now) ==
  IF meta[k] = Absent THEN meta
  ELSE [meta EXCEPT ![k] = UpdateAccess(@, now)]

=============================================================================
