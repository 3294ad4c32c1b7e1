----------------------------- MODULE StreamData -----------------------------
(***************************************************************************)
(* A stream: src/src/stream_data.cpp, with what the engine does around it, *)
(* persisting after a change and loading what it persisted.                *)
(*                                                                         *)
(* An id "ms-seq" is the pair <<ms, seq>>; the code takes an id without a  *)
(* dash for 0-0.  The fields of an entry are copied and never looked at,   *)
(* so an entry is its id.  last_seq_ wraps as the uint64_t it is; ids are  *)
(* in order until it does, and the history variable wrapped says when that *)
(* is over.                                                                *)
(***************************************************************************)
EXTENDS Integers, Sequences

CONSTANTS
  Ids,       \* the ids callers pass
  Undashed,  \* those without a dash
  Clock,     \* what system_clock::now() may say, in any order
  Counts,    \* the counts and lengths callers pass
  SeqMod,    \* sequence numbers are below this (2^64)
  MaxLen     \* a bound on the length, for the checks

Dashed == Nat \X (0..(SeqMod - 1))

ASSUME StreamAssumption ==
  /\ SeqMod \in Nat \ {0}
  /\ Clock \subseteq Nat
  /\ Ids \subseteq Undashed \cup Dashed
  /\ \A id \in Undashed : id \notin Dashed
  /\ Counts \subseteq Int
  /\ MaxLen \in Nat

Ext == INSTANCE SequencesExt

VARIABLES
  entries,   \* entries_
  last_ms,   \* last_ms_
  last_seq,  \* last_seq_
  stored,    \* the entries serialize_stream put in RocksDB last
  pending,   \* what deserialize_stream has still to add
  wrapped    \* history: a generated sequence number has wrapped

vars == <<entries, last_ms, last_seq, stored, pending, wrapped>>

-----------------------------------------------------------------------------
Parse(id) == IF id \in Undashed THEN <<0, 0>> ELSE id

compare_ids(a, b) ==
  LET p == Parse(a)
      q == Parse(b)
  IN IF p[1] # q[1] THEN IF p[1] < q[1] THEN -1 ELSE 1
     ELSE IF p[2] # q[2] THEN IF p[2] < q[2] THEN -1 ELSE 1
     ELSE 0

Back == entries[Len(entries)]

\* What the engine does after a change
persist_stream == stored' = entries'

Loaded == pending = <<>>

-----------------------------------------------------------------------------
\* A mutant: the clock is believed even if it went back.
XAddAutoTrustsClock(now) ==
  LET id == <<now, IF now = last_ms THEN (last_seq + 1) % SeqMod ELSE 0>> IN
  /\ Loaded
  /\ Len(entries) < MaxLen
  /\ last_ms' = id[1]
  /\ last_seq' = id[2]
  /\ entries' = Append(entries, id)
  /\ persist_stream
  /\ wrapped' = (wrapped \/ (now = last_ms /\ last_seq + 1 = SeqMod))
  /\ UNCHANGED pending

\* A mutant: the sequence number is counted in a wider type than it has.
XAddAutoUnwrapped(now) ==
  LET ms == IF now < last_ms THEN last_ms ELSE now
      id == <<ms, IF ms = last_ms THEN last_seq + 1 ELSE 0>>
  IN /\ Loaded
     /\ Len(entries) < MaxLen
     /\ last_ms' = id[1]
     /\ last_seq' = id[2]
     /\ entries' = Append(entries, id)
     /\ persist_stream
     /\ UNCHANGED <<pending, wrapped>>

\* XAdd("*"): auto_generate_id and push_back
XAddAuto(now) ==
  LET ms == IF now < last_ms THEN last_ms ELSE now
      id == <<ms, IF ms = last_ms THEN (last_seq + 1) % SeqMod ELSE 0>>
  IN /\ Loaded
     /\ Len(entries) < MaxLen
     /\ last_ms' = id[1]
     /\ last_seq' = id[2]
     /\ entries' = Append(entries, id)
     /\ persist_stream
     /\ wrapped' = (wrapped \/ (ms = last_ms /\ last_seq + 1 = SeqMod))
     /\ UNCHANGED pending

\* XAdd appends an id it was given.
Appended(id) ==
  /\ entries' = Append(entries, id)
  /\ last_ms' = IF id \in Undashed THEN last_ms ELSE id[1]
  /\ last_seq' = IF id \in Undashed THEN last_seq ELSE id[2]

\* The ids XAdd takes now
Accepts(id) == entries # <<>> => compare_ids(id, Back) > 0

XAdd(id) ==
  /\ Loaded
  /\ Len(entries) < MaxLen
  /\ Accepts(id)
  /\ Appended(id)
  /\ persist_stream
  /\ UNCHANGED <<pending, wrapped>>

\* XDel of an id that is there; i is its first occurrence.
XDel(i) ==
  /\ Loaded
  /\ i \in DOMAIN entries
  /\ \A j \in 1..(i - 1) : entries[j] # entries[i]
  /\ entries' = Ext!RemoveAt(entries, i)
  /\ persist_stream
  /\ UNCHANGED <<last_ms, last_seq, pending, wrapped>>

\* The entries XTrim pops from the front; maxlen is signed.
TrimCount(maxlen) == Len(entries) - (IF maxlen < 0 THEN 0 ELSE maxlen)

XTrim(maxlen) ==
  /\ Loaded
  /\ TrimCount(maxlen) > 0
  /\ entries' = SubSeq(entries, TrimCount(maxlen) + 1, Len(entries))
  /\ persist_stream
  /\ UNCHANGED <<last_ms, last_seq, pending, wrapped>>

\* The container is evicted, or the process restarts, and an operation that
\* reads the stream finds it on disk: load_stream into a new StreamData.
Load ==
  /\ Loaded
  /\ entries' = <<>>
  /\ last_ms' = 0
  /\ last_seq' = 0
  /\ pending' = stored
  /\ UNCHANGED <<stored, wrapped>>

\* A mutant: what was stored is added in the opposite order.
LoadEntryBackwards ==
  /\ ~Loaded
  /\ LET id == pending[Len(pending)] IN
     IF Accepts(id) THEN Appended(id) ELSE UNCHANGED <<entries, last_ms, last_seq>>
  /\ pending' = SubSeq(pending, 1, Len(pending) - 1)
  /\ UNCHANGED <<stored, wrapped>>

\* One iteration of deserialize_stream: s.XAdd(id, fields), whose result it
\* ignores
LoadEntry ==
  /\ ~Loaded
  /\ LET id == Head(pending) IN
     IF Accepts(id) THEN Appended(id) ELSE UNCHANGED <<entries, last_ms, last_seq>>
  /\ pending' = Tail(pending)
  /\ UNCHANGED <<stored, wrapped>>

-----------------------------------------------------------------------------
\* The reads: loops over the entries that collect until count are found

Found(acc, count) == count > 0 /\ Len(acc) >= count

\* What a loop over the first m entries collects of those at the positions in
\* P, until count are found
Collected(P, count, m) ==
  LET loop[n \in 0..m] ==
        IF n = 0 THEN <<>>
        ELSE IF n \in P /\ ~Found(loop[n - 1], count)
        THEN Append(loop[n - 1], entries[n])
        ELSE loop[n - 1]
  IN  loop[m]

\* A mutant: the entry the reader has seen last is read again.
XReadAgain(start, count) ==
  Collected({i \in DOMAIN entries : compare_ids(entries[i], start) >= 0},
            count, Len(entries))

XRead(start, count) ==
  Collected({i \in DOMAIN entries : compare_ids(entries[i], start) > 0},
            count, Len(entries))

\* The entries XRange does not skip
FromStart(start) == {i \in DOMAIN entries : compare_ids(entries[i], start) >= 0}

\* The loop of XRange is left at the first of them behind the end.
BreakAt(start, end) ==
  LET P == {i \in FromStart(start) : compare_ids(entries[i], end) > 0} IN
  IF P = {} THEN Len(entries) + 1 ELSE CHOOSE i \in P : \A j \in P : i <= j

\* A mutant: the loop stops at the end of the range itself.
XRangeOpenEnded(start, end, count) ==
  Collected({i \in FromStart(start) : compare_ids(entries[i], end) < 0},
            count, BreakAt(start, end) - 1)

XRange(start, end, count) ==
  Collected(FromStart(start), count, BreakAt(start, end) - 1)

-----------------------------------------------------------------------------
Init ==
  /\ entries = <<>>
  /\ last_ms = 0
  /\ last_seq = 0
  /\ stored = <<>>
  /\ pending = <<>>
  /\ wrapped = FALSE

Next ==
  \/ \E now \in Clock : XAddAuto(now)
  \/ \E id \in Ids : XAdd(id)
  \/ \E i \in DOMAIN entries : XDel(i)
  \/ \E maxlen \in Counts : XTrim(maxlen)
  \/ Load
  \/ LoadEntry

Spec == Init /\ [][Next]_vars

-----------------------------------------------------------------------------
\* Properties

TypeOK ==
  /\ entries \in Seq(Undashed \cup Dashed)
  /\ last_ms \in Nat
  /\ last_seq \in 0..(SeqMod - 1)
  /\ stored \in Seq(Undashed \cup Dashed)
  /\ pending \in Seq(Undashed \cup Dashed)
  /\ wrapped \in BOOLEAN

\* The ids of a sequence of entries are in order, and none is there twice.
Increasing(s) ==
  \A i, j \in DOMAIN s : i < j => compare_ids(s[i], s[j]) < 0

\* Entries are in the order of their ids although auto_generate_id never looks
\* at them and the clock may go back: until a sequence number wraps, last_ms_
\* and last_seq_ are at or behind the last entry, whatever was added, deleted,
\* trimmed and loaded before.
IdsIncrease ==
  ~wrapped =>
    /\ Increasing(entries)
    /\ entries # <<>> => compare_ids(Back, <<last_ms, last_seq>>) <= 0

\* Loading drops nothing: XAdd, which checks ids, accepts every entry that
\* was stored, so what is there and what is still to come is what was stored.
LoadKeepsEntries == ~wrapped => entries \o pending = stored

\* Leaving the loop at the first id behind the end loses nothing: the entries
\* in a range stand together, and XRange returns the first count of them, or
\* all if there are no more or count is not positive.
XRangeComplete ==
  ~wrapped =>
    \A start, end \in Ids, count \in Counts :
      \E first \in 1..(Len(entries) + 1), last \in 0..Len(entries) :
        /\ first..last = {i \in DOMAIN entries :
                            /\ compare_ids(start, entries[i]) <= 0
                            /\ compare_ids(entries[i], end) <= 0}
        /\ XRange(start, end, count) =
             SubSeq(entries, first, IF count > 0 /\ first + count - 1 < last
                                    THEN first + count - 1 ELSE last)

=============================================================================
