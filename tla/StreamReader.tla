---------------------------- MODULE StreamReader ----------------------------
(***************************************************************************)
(* A client that follows a stream: it calls xread with the id of the last  *)
(* entry it was given (src/src/engine.cpp hands the id on to               *)
(* StreamData::XRead) while others add, delete and trim, and while the     *)
(* stream is evicted or the process restarts and it is loaded again.       *)
(***************************************************************************)
EXTENDS StreamData

VARIABLES
  cursor,    \* the id the reader passes next
  got,       \* history: the entries of the stream that it was given
  rewound    \* history: the stream has ended before the reader's place

readerVars == <<entries, last_ms, last_seq, stored, pending, wrapped,
                cursor, got, rewound>>

\* The id a reader begins with, "0-0"
Origin == <<0, 0>>

\* No entry of s is at or behind id.
EndsBefore(s, id) == s = <<>> \/ compare_ids(s[Len(s)], id) < 0

-----------------------------------------------------------------------------
\* xread from the cursor
ReadOn(count) ==
  LET batch == XRead(cursor, count) IN
  /\ Loaded
  /\ batch # <<>>
  /\ cursor' = batch[Len(batch)]
  /\ got' = got \cup Ext!ToSet(batch)
  /\ UNCHANGED <<vars, rewound>>

\* The stream changes.  An entry that goes is forgotten, so that one added
\* later under the same id counts as new.
StreamStep ==
  /\ Next
  /\ UNCHANGED cursor
  /\ got' = got \cap Ext!ToSet(stored')
  /\ rewound' = (rewound \/ (cursor # Origin /\ EndsBefore(stored', cursor)))

-----------------------------------------------------------------------------
ReaderInit ==
  /\ Init
  /\ cursor = Origin
  /\ got = {}
  /\ rewound = FALSE

ReaderNext ==
  \/ StreamStep
  \/ \E count \in Counts : ReadOn(count)

ReaderSpec == ReaderInit /\ [][ReaderNext]_readerVars

-----------------------------------------------------------------------------
\* The reader gets every entry behind 0-0 once: at any moment each entry is one
\* it was given or one a further xread gives it, never both and never neither,
\* whatever was added, deleted, trimmed, loaded and read before.  This holds
\* until a sequence number wraps, and as long as the stream has not ended before
\* the reader's place: XAdd compares a given id with the last entry only
\* (src/src/stream_data.cpp:50), so when that and all behind the reader's place
\* are gone, an entry may be added that the reader has passed already.
ReaderMissesNothing ==
  ~wrapped /\ ~rewound =>
    \A i \in DOMAIN entries :
      compare_ids(entries[i], Origin) > 0 =>
        (entries[i] \in got) # (entries[i] \in Ext!ToSet(XRead(cursor, 0)))

=============================================================================
