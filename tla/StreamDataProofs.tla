-------------------------- MODULE StreamDataProofs --------------------------
(***************************************************************************)
(* Type correctness, the order of the ids, the completeness of loading and *)
(* of ranges, and what a reader that goes on from its last id is given,    *)
(* for all ids, clocks, lengths and widths of a sequence number.           *)
(*                                                                         *)
(* Neither the order nor the completeness is inductive alone: an entry is  *)
(* accepted while loading because what was stored is in order, and what is *)
(* generated is in order because last_ms_ and last_seq_ are not before the *)
(* last entry.  The three are proved together, and the reader's invariant  *)
(* on top of them.                                                         *)
(***************************************************************************)
EXTENDS StreamReader, FiniteSetTheorems, SequenceTheorems, WellFoundedInduction, TLAPS

-----------------------------------------------------------------------------
(* Induction over numbers. *)

\* A set of natural numbers that is not empty has a least element.
LEMMA LeastExists ==
  ASSUME NEW P \in SUBSET Nat, P # {}
  PROVE  \E x \in P : \A y \in P : x <= y
<1>. DEFINE R == OpToRel(<, Nat)
<1>1. IsWellFoundedOn(R, Nat)
  BY NatLessThanWellFounded
<1>. HIDE DEF R
<1>2. PICK x \in P : \A y \in P : ~ (<<y, x>> \in R)
  BY <1>1, WFMin
<1>3. ASSUME NEW y \in P PROVE x <= y
  <2>1. x \in Nat /\ y \in Nat
    OBVIOUS
  <2>2. ~ (y < x)
    BY <2>1, <1>2 DEF R, OpToRel
  <2>. QED
    BY <2>1, <2>2
<1>. QED
  BY <1>3

\* A set that holds 0 and, with each natural number, the next one holds all of
\* them: otherwise the numbers it lacks have a least one.
LEMMA NatSetInduction ==
  ASSUME NEW S, 0 \in S, \A n \in Nat : n \in S => n + 1 \in S
  PROVE  Nat \subseteq S
<1>. DEFINE T == Nat \ S
<1>. SUFFICES ASSUME T # {} PROVE FALSE
  OBVIOUS
<1>1. T \in SUBSET Nat
  OBVIOUS
<1>. HIDE DEF T
<1>2. PICK x \in T : \A y \in T : x <= y
  BY <1>1, LeastExists
<1>3. x \in Nat /\ x \notin S
  BY <1>2 DEF T
<1>4. x # 0 /\ x - 1 \in Nat /\ (x - 1) + 1 = x /\ ~(x <= x - 1)
  BY <1>3
<1>5. x - 1 \in S
  BY <1>2, <1>4 DEF T
<1>. QED
  BY <1>3, <1>4, <1>5

\* A set of positions that holds, with a position, all behind it is what lies
\* behind a cut.
LEMMA SuffixCut ==
  ASSUME NEW m \in Nat, NEW P \in SUBSET (1..m),
         \A i \in P, j \in 1..m : i <= j => j \in P
  PROVE  \E k \in 0..m : P = (k + 1)..m
<1>1. CASE P = {}
  <2>1. m \in 0..m /\ (m + 1)..m = {}
    OBVIOUS
  <2>. QED
    BY <2>1, <1>1
<1>2. CASE P # {}
  <2>1. P \in SUBSET Nat
    OBVIOUS
  <2>2. PICK x \in P : \A y \in P : x <= y
    BY <2>1, <1>2, LeastExists
  <2>3. x \in 1..m
    OBVIOUS
  <2>4. x - 1 \in 0..m /\ (x - 1) + 1 = x
    BY <2>3
  <2>5. P \subseteq x..m
    BY <2>2, <2>3
  <2>6. x..m \subseteq P
    BY <2>3
  <2>7. P = ((x - 1) + 1)..m
    BY <2>4, <2>5, <2>6
  <2>. QED
    BY <2>4, <2>7
<1>. QED
  BY <1>1, <1>2

Id == Undashed \cup Dashed

Last == <<last_ms, last_seq>>

LastNotBefore == entries # <<>> => compare_ids(Back, Last) <= 0

\* The inductive invariant
IInv ==
  /\ TypeOK
  /\ ~wrapped =>
       /\ entries \o pending = stored
       /\ Increasing(stored)
       /\ LastNotBefore

-----------------------------------------------------------------------------
\* compare_ids is a linear order of what the ids are parsed to.

LEMMA ParseType ==
  ASSUME NEW id \in Id
  PROVE  Parse(id) \in Nat \X Nat
  BY StreamAssumption DEF Id, Dashed, Parse

LEMMA CompareSymmetric ==
  ASSUME NEW a \in Id, NEW b \in Id
  PROVE  /\ compare_ids(a, b) \in {-1, 0, 1}
         /\ compare_ids(a, b) < 0 <=> compare_ids(b, a) > 0
<1> DEFINE p == Parse(a)
           q == Parse(b)
<1>1. p \in Nat \X Nat /\ q \in Nat \X Nat
  BY ParseType
<1>2. p[1] \in Nat /\ p[2] \in Nat /\ q[1] \in Nat /\ q[2] \in Nat
  BY <1>1
<1> QED
  BY <1>2 DEF compare_ids

LEMMA CompareTransitive ==
  ASSUME NEW a \in Id, NEW b \in Id, NEW c \in Id, compare_ids(a, b) <= 0
  PROVE  /\ compare_ids(b, c) < 0 => compare_ids(a, c) < 0
         /\ compare_ids(b, c) <= 0 => compare_ids(a, c) <= 0
<1> DEFINE p == Parse(a)
           q == Parse(b)
           r == Parse(c)
<1>1. p \in Nat \X Nat /\ q \in Nat \X Nat /\ r \in Nat \X Nat
  BY ParseType
<1>2. /\ p[1] \in Nat /\ p[2] \in Nat /\ q[1] \in Nat
      /\ q[2] \in Nat /\ r[1] \in Nat /\ r[2] \in Nat
  BY <1>1
<1> QED
  BY <1>2 DEF compare_ids

\* A generated id is behind the last one, unless the sequence number wraps.
LEMMA GeneratedIsBehind ==
  ASSUME TypeOK, NEW now \in Nat,
         NEW ms, ms = IF now < last_ms THEN last_ms ELSE now,
         NEW id, id = <<ms, IF ms = last_ms THEN (last_seq + 1) % SeqMod ELSE 0>>
  PROVE  /\ id \in Dashed
         /\ ~(ms = last_ms /\ last_seq + 1 = SeqMod) => compare_ids(Last, id) < 0
<1>1. /\ last_ms \in Nat /\ last_seq \in 0..(SeqMod - 1) /\ SeqMod \in Nat \ {0}
      /\ ms \in Nat /\ last_ms <= ms
  BY StreamAssumption DEF TypeOK
<1>2. (last_seq + 1) % SeqMod \in 0..(SeqMod - 1)
  BY <1>1
<1>3. id \in Dashed
  BY <1>1, <1>2 DEF Dashed
<1>4. Last \in Dashed
  BY <1>1 DEF Dashed, Last
<1>5. id \notin Undashed /\ Last \notin Undashed
  BY <1>3, <1>4, StreamAssumption
<1>6. Parse(id) = id /\ Parse(Last) = Last
  BY <1>5 DEF Parse
<1>7. ASSUME ms = last_ms, last_seq + 1 # SeqMod
      PROVE  compare_ids(Last, id) < 0
  <2>1. (last_seq + 1) % SeqMod = last_seq + 1
    BY <1>1, <1>7
  <2>2. id[1] = last_ms /\ id[2] = last_seq + 1 /\ Last[1] = last_ms /\ Last[2] = last_seq
    BY <2>1, <1>7 DEF Last
  <2> QED
    BY <2>2, <1>6, <1>1 DEF compare_ids
<1>8. ASSUME ms # last_ms
      PROVE  compare_ids(Last, id) < 0
  <2>1. id[1] = ms /\ Last[1] = last_ms
    BY DEF Last
  <2> QED
    BY <2>1, <1>6, <1>1, <1>8 DEF compare_ids
<1> QED
  BY <1>3, <1>7, <1>8

-----------------------------------------------------------------------------
\* What the operations do to an increasing sequence

LEMMA AppendIncreasing ==
  ASSUME NEW s \in Seq(Id), NEW id \in Id, Increasing(s),
         s # <<>> => compare_ids(s[Len(s)], id) < 0
  PROVE  Increasing(Append(s, id))
<1> DEFINE t == Append(s, id)
<1>1. /\ Len(t) = Len(s) + 1
      /\ \A i \in 1..Len(s) : t[i] = s[i]
      /\ t[Len(s) + 1] = id
      /\ DOMAIN t = 1..Len(t) /\ DOMAIN s = 1..Len(s) /\ Len(s) \in Nat
  BY AppendProperties
<1>2. SUFFICES ASSUME NEW i \in DOMAIN t, NEW j \in DOMAIN t, i < j
               PROVE  compare_ids(t[i], t[j]) < 0
  BY DEF Increasing
<1> HIDE DEF t
<1>3. CASE j \in 1..Len(s)
  <2>1. t[i] = s[i] /\ t[j] = s[j] /\ i \in DOMAIN s /\ j \in DOMAIN s
    BY <1>1, <1>2, <1>3
  <2> QED
    BY <2>1, <1>2 DEF Increasing
<1>4. CASE j = Len(s) + 1
  <2>1. i \in 1..Len(s) /\ t[i] = s[i] /\ t[j] = id /\ s # <<>> /\ Len(s) \in 1..Len(s)
    BY <1>1, <1>2, <1>4
  <2>2. compare_ids(s[Len(s)], id) < 0
    BY <2>1
  <2>3. CASE i = Len(s)
    BY <2>1, <2>2, <2>3
  <2>4. CASE i < Len(s)
    <3>1. compare_ids(s[i], s[Len(s)]) < 0
      BY <2>1, <2>4, <1>1 DEF Increasing
    <3>2. s[i] \in Id /\ s[Len(s)] \in Id
      BY <2>1
    <3>3. compare_ids(s[i], s[Len(s)]) <= 0
      BY <3>1, <3>2, CompareSymmetric
    <3> QED
      BY <2>1, <2>2, <3>2, <3>3, CompareTransitive
  <2> QED
    BY <2>1, <2>3, <2>4, <1>1
<1> QED
  BY <1>1, <1>2, <1>3, <1>4

LEMMA RemoveAtProperties ==
  ASSUME NEW S, NEW s \in Seq(S), NEW n \in 1..Len(s)
  PROVE  /\ Ext!RemoveAt(s, n) \in Seq(S)
         /\ Len(Ext!RemoveAt(s, n)) = Len(s) - 1
         /\ \A i \in 1..(Len(s) - 1) :
              Ext!RemoveAt(s, n)[i] = s[IF i < n THEN i ELSE i + 1]
<1> DEFINE a == SubSeq(s, 1, n - 1)
           b == SubSeq(s, n + 1, Len(s))
<1>1. Len(s) \in Nat /\ n \in Nat /\ n <= Len(s) /\ 1 <= n
  OBVIOUS
<1>2. a \in Seq(S) /\ Len(a) = n - 1 /\ \A i \in 1..(n - 1) : a[i] = s[i]
  BY <1>1, SubSeqProperties
<1>3. b \in Seq(S)
  BY <1>1, SubSeqProperties
<1>4. Len(b) = Len(s) - n
  BY <1>1
<1>5. \A i \in 1..(Len(s) - n) : b[i] = s[n + i]
  BY <1>1
<1>6. Ext!RemoveAt(s, n) = a \o b
  BY DEF Ext!RemoveAt
<1> HIDE DEF a, b
<1>7. /\ a \o b \in Seq(S) /\ Len(a \o b) = Len(a) + Len(b)
      /\ \A i \in 1..(Len(a) + Len(b)) :
           (a \o b)[i] = IF i <= Len(a) THEN a[i] ELSE b[i - Len(a)]
  BY <1>2, <1>3, ConcatProperties
<1>8. Len(a \o b) = Len(s) - 1
  BY <1>1, <1>2, <1>4, <1>7
<1>9. ASSUME NEW i \in 1..(Len(s) - 1)
      PROVE  (a \o b)[i] = s[IF i < n THEN i ELSE i + 1]
  <2>1. i \in Int /\ i \in 1..(Len(a) + Len(b))
    BY <1>1, <1>2, <1>4
  <2>2. CASE i < n
    BY <1>1, <1>2, <1>7, <2>1, <2>2
  <2>3. CASE ~(i < n)
    <3>1. (a \o b)[i] = b[i - (n - 1)]
      BY <1>1, <1>2, <1>7, <2>1, <2>3
    <3>2. i - (n - 1) \in 1..(Len(s) - n) /\ n + (i - (n - 1)) = i + 1
      BY <1>1, <2>1, <2>3
    <3>3. b[i - (n - 1)] = s[i + 1]
      BY <3>2, <1>5
    <3> QED
      BY <3>1, <3>3, <2>3
  <2> QED
    BY <2>2, <2>3
<1> QED
  BY <1>6, <1>7, <1>8, <1>9

\* A sequence that picks elements of an increasing one in order is increasing,
\* and its last element is not behind the other's.
LEMMA PickIncreasing ==
  ASSUME NEW s \in Seq(Id), Increasing(s), NEW t \in Seq(Id),
         NEW f \in [DOMAIN t -> DOMAIN s],
         \A i \in DOMAIN t : t[i] = s[f[i]],
         \A i, j \in DOMAIN t : i < j => f[i] < f[j]
  PROVE  /\ Increasing(t)
         /\ t # <<>> => s # <<>> /\ compare_ids(t[Len(t)], s[Len(s)]) <= 0
<1>1. Increasing(t)
  BY DEF Increasing
<1>2. ASSUME t # <<>>
      PROVE  s # <<>> /\ compare_ids(t[Len(t)], s[Len(s)]) <= 0
  <2>1. Len(t) \in DOMAIN t /\ DOMAIN s = 1..Len(s) /\ Len(s) \in Nat
    BY <1>2
  <2>2. PICK m \in DOMAIN s : t[Len(t)] = s[m]
    BY <2>1
  <2>3. Len(s) \in DOMAIN s /\ m <= Len(s) /\ m \in Nat /\ s # <<>>
    BY <2>1, <2>2
  <2>4. CASE m = Len(s)
    <3>1. s[m] \in Id
      BY <2>3
    <3>2. compare_ids(s[m], s[m]) = 0
      BY <3>1 DEF compare_ids
    <3> QED
      BY <2>2, <2>3, <2>4, <3>2
  <2>5. CASE m < Len(s)
    <3>1. compare_ids(s[m], s[Len(s)]) < 0
      BY <2>3, <2>5 DEF Increasing
    <3>2. s[m] \in Id /\ s[Len(s)] \in Id
      BY <2>3
    <3> QED
      BY <2>2, <2>3, <3>1, <3>2, CompareSymmetric
  <2> QED
    BY <2>1, <2>3, <2>4, <2>5
<1> QED
  BY <1>1, <1>2

-----------------------------------------------------------------------------
\* The steps

\* A stream that is loaded is what is stored, and is in order.
LEMMA LoadedIsStored ==
  ASSUME IInv, Loaded, ~wrapped
  PROVE  stored = entries /\ Increasing(entries) /\ LastNotBefore
  BY ConcatEmptySeq DEF IInv, TypeOK, Loaded

LEMMA InitIInv == Init => IInv
<1> SUFFICES ASSUME Init PROVE IInv
  OBVIOUS
<1>1. TypeOK
  <2>1. 0 \in 0..(SeqMod - 1)
    BY StreamAssumption
  <2>2. <<>> \in Seq(Undashed \cup Dashed)
    OBVIOUS
  <2> QED
    BY <2>1, <2>2 DEF Init, TypeOK
<1>2. entries \o pending = stored
  BY <1>1, ConcatEmptySeq DEF Init, TypeOK
<1>3. Increasing(stored) /\ LastNotBefore
  BY DEF Init, Increasing, LastNotBefore
<1> QED
  BY <1>1, <1>2, <1>3 DEF IInv

LEMMA XAddAutoIInv ==
  ASSUME IInv, NEW now \in Clock, XAddAuto(now)
  PROVE  IInv'
<1> DEFINE ms == IF now < last_ms THEN last_ms ELSE now
           id == <<ms, IF ms = last_ms THEN (last_seq + 1) % SeqMod ELSE 0>>
<1>1. TypeOK /\ now \in Nat /\ Loaded
  BY StreamAssumption DEF IInv, XAddAuto
<1>2. /\ id \in Dashed
      /\ ~(ms = last_ms /\ last_seq + 1 = SeqMod) => compare_ids(Last, id) < 0
  BY <1>1, GeneratedIsBehind
<1>3. /\ entries' = Append(entries, id) /\ stored' = entries' /\ pending' = pending
      /\ last_ms' = id[1] /\ last_seq' = id[2]
      /\ wrapped' = (wrapped \/ (ms = last_ms /\ last_seq + 1 = SeqMod))
  BY DEF XAddAuto, persist_stream
<1>4. id \in Id /\ Last' = id
  BY <1>2, <1>3 DEF Id, Last, Dashed
<1> HIDE DEF ms, id
<1>5. TypeOK'
  <2>1. entries' \in Seq(Id)
    BY <1>1, <1>3, <1>4, AppendProperties DEF TypeOK, Id
  <2>2. id[1] \in Nat /\ id[2] \in 0..(SeqMod - 1)
    BY <1>2 DEF Dashed
  <2>3. wrapped' \in BOOLEAN
    BY <1>1, <1>3 DEF TypeOK
  <2> QED
    BY <1>1, <1>3, <2>1, <2>2, <2>3 DEF TypeOK, Id
<1>6. ASSUME ~wrapped'
      PROVE  (entries \o pending = stored /\ Increasing(stored) /\ LastNotBefore)'
  <2>1. ~wrapped /\ compare_ids(Last, id) < 0
    BY <1>2, <1>3, <1>6
  <2>2. Increasing(entries) /\ LastNotBefore
    BY <1>1, <2>1, LoadedIsStored
  <2>3. entries' \o pending' = stored'
    BY <1>1, <1>3, <1>5, ConcatEmptySeq DEF TypeOK, Loaded
  <2>4. entries # <<>> => compare_ids(entries[Len(entries)], id) < 0
    <3>1. ASSUME entries # <<>> PROVE Back \in Id /\ Last \in Id
      BY <1>1, <3>1 DEF TypeOK, Back, Id, Last, Dashed
    <3> QED
      BY <2>1, <2>2, <3>1, <1>4, CompareTransitive DEF LastNotBefore, Back
  <2>5. Increasing(entries')
    BY <1>1, <1>3, <1>4, <2>2, <2>4, AppendIncreasing DEF TypeOK, Id
  <2>6. Increasing(stored)'
    BY <2>5, <1>3 DEF Increasing
  <2>7. Back' = id
    BY <1>1, <1>3, <1>4, AppendProperties DEF TypeOK, Id, Back
  <2>8. compare_ids(id, id) = 0
    BY DEF compare_ids
  <2>9. LastNotBefore'
    BY <1>4, <2>7, <2>8 DEF LastNotBefore
  <2> QED
    BY <2>3, <2>6, <2>9
<1> QED
  BY <1>5, <1>6 DEF IInv

\* XAdd of a given id, by a caller or while loading
LEMMA AppendedKeepsOrder ==
  ASSUME TypeOK, Increasing(entries), LastNotBefore,
         NEW id \in Id, Accepts(id), Appended(id)
  PROVE  Increasing(entries') /\ LastNotBefore'
<1>1. entries \in Seq(Id) /\ entries' = Append(entries, id)
  BY DEF TypeOK, Id, Appended
<1>2. entries # <<>> => compare_ids(entries[Len(entries)], id) < 0
  BY <1>1, CompareSymmetric DEF Accepts, Back
<1>3. Increasing(entries')
  BY <1>1, <1>2, AppendIncreasing
<1>4. Back' = id
  BY <1>1, AppendProperties DEF Back
<1>5. compare_ids(id, Last') <= 0
  <2>1. CASE id \in Undashed
    <3>1. last_ms' \in Nat /\ last_seq' \in Nat /\ Last' \in Dashed
      BY <2>1 DEF TypeOK, Appended, Last, Dashed
    <3>2. Last' \notin Undashed
      BY <3>1, StreamAssumption
    <3> QED
      BY <2>1, <3>1, <3>2 DEF compare_ids, Parse, Last
  <2>2. CASE id \notin Undashed
    <3>1. id = <<id[1], id[2]>> /\ id \in Dashed
      BY <2>2 DEF Id, Dashed
    <3>2. Last' = id
      BY <2>2, <3>1 DEF Appended, Last
    <3> QED
      BY <3>2 DEF compare_ids
  <2> QED
    BY <2>1, <2>2
<1> QED
  BY <1>3, <1>4, <1>5 DEF LastNotBefore

LEMMA AppendedType ==
  ASSUME TypeOK, NEW id \in Id, Appended(id)
  PROVE  entries' \in Seq(Id) /\ last_ms' \in Nat /\ last_seq' \in 0..(SeqMod - 1)
  BY AppendProperties DEF TypeOK, Appended, Id, Dashed

LEMMA XAddIInv ==
  ASSUME IInv, NEW id \in Ids, XAdd(id)
  PROVE  IInv'
<1>1. /\ TypeOK /\ Loaded /\ id \in Id /\ Accepts(id) /\ Appended(id)
      /\ stored' = entries' /\ pending' = pending /\ wrapped' = wrapped
  BY StreamAssumption DEF IInv, XAdd, persist_stream, Id
<1>2. TypeOK'
  BY <1>1, AppendedType DEF TypeOK, Id
<1>3. ASSUME ~wrapped'
      PROVE  (entries \o pending = stored /\ Increasing(stored) /\ LastNotBefore)'
  <2>1. Increasing(entries) /\ LastNotBefore
    BY <1>1, <1>3, LoadedIsStored
  <2>2. Increasing(entries') /\ LastNotBefore'
    BY <1>1, <2>1, AppendedKeepsOrder
  <2>3. entries' \o pending' = stored'
    BY <1>1, <1>2, ConcatEmptySeq DEF TypeOK, Loaded
  <2>4. Increasing(stored)'
    BY <2>2, <1>1 DEF Increasing
  <2> QED
    BY <2>2, <2>3, <2>4
<1> QED
  BY <1>2, <1>3 DEF IInv

\* An operation that removes entries
LEMMA ShrinkIInv ==
  ASSUME IInv, Loaded, stored' = entries', entries' \in Seq(Id),
         UNCHANGED <<last_ms, last_seq, pending, wrapped>>,
         NEW f \in [DOMAIN entries' -> DOMAIN entries],
         \A i \in DOMAIN entries' : entries'[i] = entries[f[i]],
         \A i, j \in DOMAIN entries' : i < j => f[i] < f[j]
  PROVE  IInv'
<1>1. TypeOK /\ TypeOK'
  BY DEF IInv, TypeOK, Id
<1>2. ASSUME ~wrapped'
      PROVE  (entries \o pending = stored /\ Increasing(stored) /\ LastNotBefore)'
  <2>1. Increasing(entries) /\ LastNotBefore
    BY <1>2, LoadedIsStored
  <2>2. /\ Increasing(entries')
        /\ entries' # <<>> =>
             entries # <<>> /\ compare_ids(entries'[Len(entries')], entries[Len(entries)]) <= 0
    BY <1>1, <2>1, PickIncreasing DEF TypeOK, Id
  <2>3. entries' \o pending' = stored'
    BY <1>1, ConcatEmptySeq DEF TypeOK, Loaded
  <2>4. LastNotBefore'
    <3>1. SUFFICES ASSUME entries' # <<>> PROVE compare_ids(Back', Last') <= 0
      BY DEF LastNotBefore
    <3>2. entries' \in Seq(Id) /\ entries \in Seq(Id) /\ entries # <<>>
      BY <1>1, <2>2, <3>1 DEF TypeOK, Id
    <3>3. Back' \in Id /\ Back \in Id /\ Last \in Id /\ Last' = Last
      BY <1>1, <3>1, <3>2 DEF TypeOK, Back, Last, Id, Dashed
    <3>4. compare_ids(Back', Back) <= 0 /\ compare_ids(Back, Last) <= 0
      BY <2>1, <2>2, <3>1, <3>2 DEF Back, LastNotBefore
    <3> QED
      BY <3>3, <3>4, CompareTransitive
  <2>5. Increasing(stored)'
    BY <2>2 DEF Increasing
  <2> QED
    BY <2>3, <2>4, <2>5
<1> QED
  BY <1>1, <1>2 DEF IInv

LEMMA XDelIInv ==
  ASSUME IInv, NEW n \in DOMAIN entries, XDel(n)
  PROVE  IInv'
<1> DEFINE t == Ext!RemoveAt(entries, n)
           f == [i \in DOMAIN entries' |-> IF i < n THEN i ELSE i + 1]
<1>1. /\ entries \in Seq(Id) /\ Loaded /\ entries' = t /\ stored' = entries'
      /\ UNCHANGED <<last_ms, last_seq, pending, wrapped>>
      /\ n \in 1..Len(entries) /\ Len(entries) \in Nat
  BY DEF IInv, TypeOK, Id, XDel, persist_stream
<1>2. /\ t \in Seq(Id)
      /\ Len(t) = Len(entries) - 1
      /\ \A i \in 1..(Len(entries) - 1) : t[i] = entries[IF i < n THEN i ELSE i + 1]
  BY <1>1, RemoveAtProperties
<1> HIDE DEF t
<1>3. entries' \in Seq(Id) /\ DOMAIN entries' = 1..(Len(entries) - 1)
  BY <1>1, <1>2
<1>4. /\ f \in [DOMAIN entries' -> DOMAIN entries]
      /\ \A i \in DOMAIN entries' : entries'[i] = entries[f[i]]
      /\ \A i, j \in DOMAIN entries' : i < j => f[i] < f[j]
  BY <1>1, <1>2, <1>3
<1> HIDE DEF f
<1> QED
  BY <1>1, <1>3, <1>4, ShrinkIInv

LEMMA XTrimIInv ==
  ASSUME IInv, NEW maxlen \in Counts, XTrim(maxlen)
  PROVE  IInv'
<1> DEFINE n == TrimCount(maxlen)
           f == [i \in DOMAIN entries' |-> n + i]
<1>1. /\ entries \in Seq(Id) /\ Loaded /\ stored' = entries'
      /\ entries' = SubSeq(entries, n + 1, Len(entries))
      /\ UNCHANGED <<last_ms, last_seq, pending, wrapped>> /\ n > 0
  BY DEF IInv, TypeOK, Id, XTrim, persist_stream
<1>2. Len(entries) \in Nat /\ n \in Int /\ n <= Len(entries)
  BY <1>1, StreamAssumption DEF TrimCount
<1> HIDE DEF n
<1>3. /\ entries' \in Seq(Id)
      /\ Len(entries') = Len(entries) - n
      /\ \A i \in 1..(Len(entries) - n) : entries'[i] = entries[n + i]
  BY <1>1, <1>2, SubSeqProperties
<1>4. /\ f \in [DOMAIN entries' -> DOMAIN entries]
      /\ \A i \in DOMAIN entries' : entries'[i] = entries[f[i]]
      /\ \A i, j \in DOMAIN entries' : i < j => f[i] < f[j]
  BY <1>1, <1>2, <1>3
<1> HIDE DEF f
<1> QED
  BY <1>1, <1>3, <1>4, ShrinkIInv

LEMMA LoadIInv ==
  ASSUME IInv, Load
  PROVE  IInv'
<1>1. TypeOK'
  BY StreamAssumption DEF IInv, TypeOK, Load
<1>2. entries' \o pending' = stored'
  BY ConcatEmptySeq DEF IInv, TypeOK, Load
<1>3. LastNotBefore'
  BY DEF Load, LastNotBefore
<1>4. Increasing(stored) => Increasing(stored)'
  BY DEF Load, Increasing
<1>5. wrapped' = wrapped
  BY DEF Load
<1> QED
  BY <1>1, <1>2, <1>3, <1>4, <1>5 DEF IInv

LEMMA LoadEntryIInv ==
  ASSUME IInv, LoadEntry
  PROVE  IInv'
<1> DEFINE id == Head(pending)
<1>1. /\ TypeOK /\ entries \in Seq(Id) /\ pending \in Seq(Id) /\ stored \in Seq(Id)
      /\ pending # <<>> /\ pending' = Tail(pending)
      /\ stored' = stored /\ wrapped' = wrapped
  BY DEF IInv, TypeOK, Id, LoadEntry, Loaded
<1>2. /\ id \in Id /\ pending' \in Seq(Id)
      /\ Len(pending) \in Nat \ {0} /\ id = pending[1]
      /\ Len(Tail(pending)) = Len(pending) - 1
      /\ \A i \in 1..Len(Tail(pending)) : Tail(pending)[i] = pending[i + 1]
  BY <1>1, HeadTailProperties
<1>3. IF Accepts(id) THEN Appended(id) ELSE UNCHANGED <<entries, last_ms, last_seq>>
  BY DEF LoadEntry
<1> HIDE DEF id
<1>4. TypeOK'
  <2>1. entries' \in Seq(Id) /\ last_ms' \in Nat /\ last_seq' \in 0..(SeqMod - 1)
    BY <1>1, <1>2, <1>3, AppendedType DEF TypeOK
  <2> QED
    BY <1>1, <1>2, <2>1 DEF TypeOK, Id
<1>5. ASSUME ~wrapped'
      PROVE  (entries \o pending = stored /\ Increasing(stored) /\ LastNotBefore)'
  <2>1. entries \o pending = stored /\ Increasing(stored) /\ LastNotBefore
    BY <1>1, <1>5 DEF IInv
  <2>2. /\ Len(stored) = Len(entries) + Len(pending)
        /\ \A i \in 1..Len(stored) :
             stored[i] = IF i <= Len(entries) THEN entries[i] ELSE pending[i - Len(entries)]
        /\ Len(entries) \in Nat
    BY <1>1, <2>1, ConcatProperties
  <2>3. Increasing(entries)
    <3>1. ASSUME NEW i \in DOMAIN entries, NEW j \in DOMAIN entries, i < j
          PROVE  compare_ids(entries[i], entries[j]) < 0
      <4>1. i \in 1..Len(stored) /\ j \in 1..Len(stored) /\ i <= Len(entries) /\ j <= Len(entries)
        BY <1>1, <1>2, <2>2
      <4>2. stored[i] = entries[i] /\ stored[j] = entries[j] /\ i \in DOMAIN stored /\ j \in DOMAIN stored
        BY <4>1, <2>2, <1>1
      <4> QED
        BY <4>2, <2>1, <3>1 DEF Increasing
    <3> QED
      BY <3>1 DEF Increasing
  <2>4. Accepts(id)
    <3>1. SUFFICES ASSUME entries # <<>> PROVE compare_ids(id, Back) > 0
      BY DEF Accepts
    <3>2. /\ Len(entries) \in 1..Len(stored) /\ Len(entries) + 1 \in 1..Len(stored)
          /\ DOMAIN stored = 1..Len(stored)
      BY <1>1, <1>2, <2>2, <3>1
    <3>3. stored[Len(entries)] = Back /\ stored[Len(entries) + 1] = id
      BY <1>2, <2>2, <3>2 DEF Back
    <3>4. compare_ids(Back, id) < 0
      BY <2>1, <2>2, <3>2, <3>3 DEF Increasing
    <3>5. Back \in Id
      BY <1>1, <3>1 DEF Back
    <3> QED
      BY <1>2, <3>4, <3>5, CompareSymmetric
  <2>5. Appended(id) /\ entries' = Append(entries, id)
    BY <1>3, <2>4 DEF Appended
  <2>6. LastNotBefore'
    BY <1>1, <1>2, <2>1, <2>3, <2>4, <2>5, AppendedKeepsOrder
  <2>7. entries' \o pending' = stored'
    <3>1. pending = <<id>> \o pending'
      BY <1>1, <1>2
    <3>2. entries' = entries \o <<id>> /\ <<id>> \in Seq(Id)
      BY <1>1, <1>2, <2>5, AppendIsConcat
    <3>3. (entries \o <<id>>) \o pending' = entries \o (<<id>> \o pending')
      BY <1>1, <1>2, <3>2, ConcatAssociative
    <3> QED
      BY <3>1, <3>2, <3>3, <2>1, <1>1
  <2>8. Increasing(stored)'
    BY <2>1, <1>1 DEF Increasing
  <2> QED
    BY <2>6, <2>7, <2>8
<1> QED
  BY <1>4, <1>5 DEF IInv

\* The invariant is inductive.
THEOREM Inductive == Spec => []IInv
<1>1. IInv /\ [Next]_vars => IInv'
  <2> SUFFICES ASSUME IInv, [Next]_vars PROVE IInv'
    OBVIOUS
  <2>1. CASE \E now \in Clock : XAddAuto(now)
    BY <2>1, XAddAutoIInv
  <2>2. CASE \E id \in Ids : XAdd(id)
    BY <2>2, XAddIInv
  <2>3. CASE \E i \in DOMAIN entries : XDel(i)
    BY <2>3, XDelIInv
  <2>4. CASE \E maxlen \in Counts : XTrim(maxlen)
    BY <2>4, XTrimIInv
  <2>5. CASE Load
    BY <2>5, LoadIInv
  <2>6. CASE LoadEntry
    BY <2>6, LoadEntryIInv
  <2>7. CASE UNCHANGED vars
    BY <2>7 DEF vars, IInv, TypeOK, Increasing, LastNotBefore, Back, Last
  <2> QED
    BY <2>1, <2>2, <2>3, <2>4, <2>5, <2>6, <2>7 DEF Next
<1> QED
  BY <1>1, InitIInv, PTL DEF Spec

\* Every operation of a stream keeps the types of its fields.
THEOREM TypeCorrect == Spec => []TypeOK
<1>1. IInv => TypeOK
  BY DEF IInv
<1> QED
  BY <1>1, Inductive, PTL

\* Until a sequence number wraps, loading (deserialize_stream, which ignores
\* what XAdd answers) brings back every entry that was stored.
THEOREM LoadIsComplete == Spec => []LoadKeepsEntries
<1>1. IInv => LoadKeepsEntries
  BY DEF IInv, LoadKeepsEntries
<1> QED
  BY <1>1, Inductive, PTL

\* Until a sequence number wraps, the entries are in the order of their ids,
\* and what auto_generate_id starts from is not before the last of them.
THEOREM IdsInOrder == Spec => []IdsIncrease
<1>1. IInv => IdsIncrease
  <2> SUFFICES ASSUME IInv, ~wrapped
               PROVE  Increasing(entries) /\ LastNotBefore
    BY DEF IdsIncrease, LastNotBefore, Last
  <2>1. /\ entries \in Seq(Id) /\ pending \in Seq(Id) /\ entries \o pending = stored
        /\ Increasing(stored) /\ LastNotBefore
    BY DEF IInv, TypeOK, Id
  <2>2. /\ Len(entries) \in Nat /\ Len(pending) \in Nat
        /\ Len(stored) = Len(entries) + Len(pending) /\ stored \in Seq(Id)
        /\ \A i \in 1..Len(entries) : stored[i] = entries[i]
    <3>1. Len(entries) \in Nat /\ Len(pending) \in Nat
      BY <2>1
    <3>2. /\ stored \in Seq(Id) /\ Len(stored) = Len(entries) + Len(pending)
          /\ \A i \in 1..(Len(entries) + Len(pending)) :
               stored[i] = IF i <= Len(entries) THEN entries[i] ELSE pending[i - Len(entries)]
      BY <2>1, ConcatProperties
    <3> QED
      BY <3>1, <3>2
  <2>3. \A i \in DOMAIN entries : i \in DOMAIN stored /\ stored[i] = entries[i]
    BY <2>1, <2>2
  <2> QED
    BY <2>1, <2>3 DEF Increasing
<1> QED
  BY <1>1, Inductive, PTL

-----------------------------------------------------------------------------
\* The reads.  A loop that collects the entries behind a cut collects a part
\* of entries, which is what both reads come down to when the ids increase.

\* The entries from position k + 1 to position u
Slice(k, u) == SubSeq(entries, k + 1, u)

\* Where a loop over n entries that begins to collect behind k stops
Upto(k, count, n) == IF count > 0 /\ k + count < n THEN k + count ELSE n

Unrolled(P, count, m, f) ==
  [n \in 0..m |->
     IF n = 0 THEN <<>>
     ELSE IF n \in P /\ ~Found(f[n - 1], count)
     THEN Append(f[n - 1], entries[n])
     ELSE f[n - 1]]

CollectedLoop(P, count, m) == CHOOSE f : f = Unrolled(P, count, m, f)

LEMMA SliceFacts ==
  ASSUME TypeOK, NEW k \in Nat, NEW u \in Nat, k <= u, u <= Len(entries)
  PROVE  /\ Slice(k, u) \in Seq(Id)
         /\ Len(Slice(k, u)) = u - k
         /\ \A i \in 1..(u - k) : Slice(k, u)[i] = entries[k + i]
<1>. DEFINE b == SubSeq(entries, k + 1, u)
<1>1. /\ entries \in Seq(Id) /\ Len(entries) \in Nat
      /\ \A i \in 1..Len(entries) : entries[i] \in Id
  BY LenProperties, ElementOfSeq DEF TypeOK, Id
<1>2. k + 1 \in Int /\ u \in Int /\ \A i \in (k + 1)..u : entries[i] \in Id
  BY <1>1
<1>3. Slice(k, u) = b
  BY DEF Slice
<1>. HIDE DEF b
<1>4. /\ b \in Seq(Id)
      /\ Len(b) = IF k + 1 <= u THEN u - (k + 1) + 1 ELSE 0
      /\ \A i \in 1..(u - (k + 1) + 1) : b[i] = entries[(k + 1) + i - 1]
  BY <1>1, <1>2, SubSeqProperties DEF b
<1>5. Len(b) = u - k
  BY <1>4
<1>6. ASSUME NEW i \in 1..(u - k) PROVE b[i] = entries[k + i]
  <2>1. i \in 1..(u - (k + 1) + 1) /\ (k + 1) + i - 1 = k + i
    OBVIOUS
  <2>. QED
    BY <2>1, <1>4
<1>. QED
  BY <1>3, <1>4, <1>5, <1>6

LEMMA SliceGrows ==
  ASSUME TypeOK, NEW k \in Nat, NEW u \in Nat, k <= u, u + 1 <= Len(entries)
  PROVE  /\ Slice(k, k) = <<>>
         /\ Append(Slice(k, u), entries[u + 1]) = Slice(k, u + 1)
<1>. DEFINE a == Slice(k, u)
            b == Slice(k, u + 1)
            c == Append(a, entries[u + 1])
<1>1. Len(entries) \in Nat /\ entries \in Seq(Id)
  BY LenProperties DEF TypeOK, Id
<1>2. /\ a \in Seq(Id) /\ Len(a) = u - k
      /\ \A i \in 1..(u - k) : a[i] = entries[k + i]
  <2>1. u <= Len(entries)
    BY <1>1
  <2>. QED
    BY <2>1, SliceFacts
<1>3. /\ b \in Seq(Id) /\ Len(b) = (u + 1) - k
      /\ \A i \in 1..((u + 1) - k) : b[i] = entries[k + i]
  <2>1. u + 1 \in Nat /\ k <= u + 1
    OBVIOUS
  <2>. QED
    BY <2>1, SliceFacts
<1>4. Slice(k, k) = <<>>
  <2>1. k <= k /\ k <= Len(entries) /\ k - k = 0
    BY <1>1
  <2>2. Slice(k, k) \in Seq(Id) /\ Len(Slice(k, k)) = k - k
    BY <2>1, SliceFacts
  <2>. QED
    BY <2>1, <2>2, EmptySeq
<1>. HIDE DEF a, b
<1>5. entries[u + 1] \in Id
  BY <1>1, ElementOfSeq
<1>6. /\ c \in Seq(Id) /\ Len(c) = Len(a) + 1
      /\ \A i \in 1..Len(a) : c[i] = a[i]
      /\ c[Len(a) + 1] = entries[u + 1]
  BY <1>2, <1>5, AppendProperties
<1>. HIDE DEF c
<1>7. ASSUME NEW i \in 1..((u + 1) - k) PROVE c[i] = b[i]
  <2>1. CASE i \in 1..(u - k)
    BY <2>1, <1>2, <1>3, <1>6
  <2>2. CASE i = (u - k) + 1
    <3>1. k + i = u + 1
      BY <2>2
    <3>. QED
      BY <2>2, <3>1, <1>2, <1>3, <1>6
  <2>. QED
    BY <2>1, <2>2
<1>8. Len(c) = Len(b) /\ Len(c) = (u + 1) - k
  BY <1>2, <1>3, <1>6
<1>9. c = b
  BY <1>3, <1>6, <1>7, <1>8, SeqEqual
<1>. QED
  BY <1>4, <1>9 DEF a, b, c

\* The loop over the first m entries, of which those behind k are wanted.
LEMMA CollectedFacts ==
  ASSUME TypeOK, NEW count \in Int, NEW m \in 0..Len(entries), NEW k \in 0..m,
         NEW P, P \cap (1..m) = (k + 1)..m
  PROVE  Collected(P, count, m) = Slice(k, Upto(k, count, m))
<1>. DEFINE f == [n \in 0..m |-> IF n <= k THEN <<>>
                                 ELSE Slice(k, Upto(k, count, n))]
            g == CollectedLoop(P, count, m)
            Iter(h, n) == IF n \in P /\ ~Found(h[n - 1], count)
                          THEN Append(h[n - 1], entries[n])
                          ELSE h[n - 1]
<1>1. Len(entries) \in Nat
  BY LenProperties DEF TypeOK
<1>2. \A n \in 1..m : n \in P <=> k < n
  <2>1. \A n \in 1..m : n \in P <=> n \in (k + 1)..m
    OBVIOUS
  <2>2. \A n \in 1..m : n \in (k + 1)..m <=> k < n
    BY <1>1
  <2>. QED
    BY <2>1, <2>2
<1>3. ASSUME NEW n \in 1..m PROVE f[n] = Iter(f, n)
  <2>1. n - 1 \in 0..m /\ n \in 0..m
    BY <1>1
  <2>2. CASE n <= k
    <3>1. n - 1 <= k /\ ~(k < n)
      BY <1>1, <2>2
    <3>. QED
      BY <2>1, <2>2, <3>1, <1>2
  <2>3. CASE k < n
    <3>. DEFINE u == Upto(k, count, n - 1)
    <3>0. n \in P
      BY <2>3, <1>2
    <3>1. u \in Nat /\ k <= u /\ u <= n - 1
      BY <2>3, <1>1 DEF Upto
    <3>2. f[n - 1] = Slice(k, u)
      <4>1. CASE n - 1 <= k
        <5>1. u = k
          BY <4>1, <3>1, <2>3, <1>1
        <5>2. Slice(k, k) = <<>>
          BY <2>3, <1>1, SliceGrows
        <5>. QED
          BY <4>1, <5>1, <5>2, <2>1
      <4>2. CASE ~(n - 1 <= k)
        BY <4>2, <2>1
      <4>. QED
        BY <4>1, <4>2
    <3>3. f[n] = Slice(k, Upto(k, count, n))
      BY <2>1, <2>3, <1>1
    <3>4. Len(Slice(k, u)) = u - k
      <4>1. u <= Len(entries) /\ k \in Nat
        BY <3>1, <1>1
      <4>. HIDE DEF u
      <4>. QED
        BY <3>1, <4>1, SliceFacts
    <3>. HIDE DEF f, u
    <3>5. Found(f[n - 1], count) <=> count > 0 /\ k + count <= n - 1
      BY <3>1, <3>2, <3>4, <2>3, <1>1 DEF Found, u, Upto
    <3>6. CASE Found(f[n - 1], count)
      <4>1. Upto(k, count, n) = u
        BY <3>5, <3>6, <2>3, <1>1 DEF Upto, u
      <4>. QED
        BY <4>1, <3>2, <3>3, <3>6
    <3>7. CASE ~Found(f[n - 1], count)
      <4>1. u = n - 1 /\ Upto(k, count, n) = n
        BY <3>5, <3>7, <2>3, <1>1 DEF Upto, u
      <4>2. Append(Slice(k, n - 1), entries[n]) = Slice(k, n)
        <5>1. /\ n - 1 \in Nat /\ k \in Nat /\ k <= n - 1
              /\ (n - 1) + 1 = n /\ n <= Len(entries)
          BY <2>3, <1>1
        <5>. QED
          BY <5>1, SliceGrows
      <4>. QED
        BY <4>1, <4>2, <3>0, <3>2, <3>3, <3>7
    <3>. QED
      BY <3>6, <3>7
  <2>. QED
    BY <2>2, <2>3, <1>1
<1>4. f = Unrolled(P, count, m, f)
  <2>1. f[0] = <<>>
    BY <1>1
  <2>2. DOMAIN f = 0..m /\ f = [n \in 0..m |-> f[n]]
    OBVIOUS
  <2>. HIDE DEF f
  <2>3. \A n \in 0..m : n # 0 => n \in 1..m
    BY <1>1
  <2>4. \A n \in 0..m : f[n] = IF n = 0 THEN <<>> ELSE Iter(f, n)
    BY <2>1, <2>3, <1>3
  <2>5. f = [n \in 0..m |-> IF n = 0 THEN <<>> ELSE Iter(f, n)]
    BY <2>2, <2>4
  <2>. QED
    BY <2>5 DEF Unrolled
<1>5. g = Unrolled(P, count, m, g)
  BY <1>4 DEF CollectedLoop
<1>6. Collected(P, count, m) = g[m]
  BY DEF Collected, CollectedLoop, Unrolled
<1>. HIDE DEF f, g
<1>7. f[0] = <<>> /\ g[0] = <<>>
  <2>1. 0 \in 0..m
    BY <1>1
  <2>. QED
    BY <2>1, <1>4, <1>5 DEF Unrolled
<1>8. ASSUME NEW n \in 1..m PROVE g[n] = Iter(g, n)
  <2>1. n \in 0..m /\ n # 0
    BY <1>1
  <2>2. Unrolled(P, count, m, g)[n] = Iter(g, n)
    BY <2>1 DEF Unrolled
  <2>. QED
    BY <2>2, <1>5
<1>. DEFINE S == {n \in Nat : n <= m => g[n] = f[n]}
<1>9. 0 \in S
  BY <1>7
<1>10. ASSUME NEW n \in Nat, n \in S PROVE n + 1 \in S
  <2>. SUFFICES ASSUME n + 1 <= m PROVE g[n + 1] = f[n + 1]
    OBVIOUS
  <2>1. n + 1 \in 1..m /\ (n + 1) - 1 = n /\ n <= m
    BY <1>1
  <2>2. g[n] = f[n]
    BY <2>1, <1>10
  <2>3. g[n + 1] = Iter(g, n + 1) /\ f[n + 1] = Iter(f, n + 1)
    BY <2>1, <1>3, <1>8
  <2>. QED
    BY <2>1, <2>2, <2>3
<1>11. g[m] = f[m]
  <2>1. Nat \subseteq S
    <3>. HIDE DEF S
    <3>. QED
      BY <1>9, <1>10, NatSetInduction
  <2>2. m \in Nat /\ m <= m
    BY <1>1
  <2>. QED
    BY <2>1, <2>2
<1>12. f[m] = Slice(k, Upto(k, count, m))
  <2>1. CASE m <= k
    <3>1. m = k /\ m \in 0..m
      BY <2>1, <1>1
    <3>2. Upto(k, count, m) = k
      BY <3>1, <1>1 DEF Upto
    <3>3. Slice(k, k) = <<>>
      <4>1. k \in Nat /\ k <= k /\ k <= Len(entries) /\ k - k = 0
        BY <1>1
      <4>2. Slice(k, k) \in Seq(Id) /\ Len(Slice(k, k)) = k - k
        BY <4>1, SliceFacts
      <4>. QED
        BY <4>1, <4>2, EmptySeq
    <3>. QED
      BY <3>1, <3>2, <3>3, <2>1 DEF f
  <2>2. CASE ~(m <= k)
    <3>1. m \in 0..m
      BY <1>1
    <3>. QED
      BY <3>1, <2>2 DEF f
  <2>. QED
    BY <2>1, <2>2
<1>. QED
  BY <1>6, <1>11, <1>12

\* In a stream whose ids increase, the entries behind an id, or from an id on,
\* are those behind a cut.
LEMMA EntriesCut ==
  ASSUME TypeOK, Increasing(entries), NEW id \in Id, NEW m \in 0..Len(entries)
  PROVE  /\ \E k \in 0..m :
              {i \in DOMAIN entries : compare_ids(entries[i], id) > 0} \cap (1..m)
                = (k + 1)..m
         /\ \E k \in 0..m : FromStart(id) \cap (1..m) = (k + 1)..m
<1>1. /\ entries \in Seq(Id) /\ Len(entries) \in Nat
      /\ DOMAIN entries = 1..Len(entries)
      /\ \A i \in 1..Len(entries) : entries[i] \in Id
  BY LenProperties, ElementOfSeq DEF TypeOK, Id
<1>2. m \in Nat /\ \A i \in 1..m : i \in DOMAIN entries /\ entries[i] \in Id
  BY <1>1
<1>3. ASSUME NEW i \in 1..m, NEW j \in 1..m, i <= j
      PROVE  /\ compare_ids(entries[i], id) > 0 => compare_ids(entries[j], id) > 0
             /\ compare_ids(entries[i], id) >= 0 => compare_ids(entries[j], id) >= 0
  <2>1. CASE i = j
    BY <2>1
  <2>2. CASE i < j
    <3>1. compare_ids(entries[i], entries[j]) < 0
      BY <2>2, <1>2 DEF Increasing
    <3>. DEFINE a == entries[i]
                b == entries[j]
    <3>2. a \in Id /\ b \in Id
      BY <1>2
    <3>. HIDE DEF a, b
    <3>3. /\ compare_ids(a, b) \in Int /\ compare_ids(a, b) < 0
          /\ compare_ids(a, id) \in Int /\ compare_ids(b, id) \in Int
          /\ compare_ids(id, a) \in Int /\ compare_ids(id, b) \in Int
      BY <3>1, <3>2, CompareSymmetric DEF a, b
    <3>4. /\ compare_ids(id, a) < 0 <=> compare_ids(a, id) > 0
          /\ compare_ids(a, id) < 0 <=> compare_ids(id, a) > 0
          /\ compare_ids(id, b) < 0 <=> compare_ids(b, id) > 0
      BY <3>2, CompareSymmetric
    <3>5. compare_ids(id, a) <= 0 => compare_ids(id, b) < 0
      BY <3>2, <3>3, CompareTransitive
    <3>6. compare_ids(a, id) >= 0 => compare_ids(b, id) > 0
      BY <3>3, <3>4, <3>5
    <3>. QED
      BY <3>3, <3>6 DEF a, b
  <2>. QED
    BY <2>1, <2>2, <1>2, <1>3
<1>. DEFINE P == {i \in DOMAIN entries : compare_ids(entries[i], id) > 0} \cap (1..m)
            Q == FromStart(id) \cap (1..m)
<1>4. P \in SUBSET (1..m) /\ \A i \in P, j \in 1..m : i <= j => j \in P
  BY <1>2, <1>3
<1>5. Q \in SUBSET (1..m) /\ \A i \in Q, j \in 1..m : i <= j => j \in Q
  BY <1>2, <1>3 DEF FromStart
<1>. HIDE DEF P, Q
<1>6. \E k \in 0..m : P = (k + 1)..m
  BY <1>2, <1>4, SuffixCut
<1>7. \E k \in 0..m : Q = (k + 1)..m
  BY <1>2, <1>5, SuffixCut
<1>. QED
  BY <1>6, <1>7 DEF P, Q

\* BreakAt is the first position at which XRange leaves its loop.
LEMMA BreakAtFacts ==
  ASSUME TypeOK, NEW start, NEW end
  PROVE  /\ BreakAt(start, end) \in 1..(Len(entries) + 1)
         /\ \A i \in 1..(BreakAt(start, end) - 1) :
              i \in FromStart(start) => ~ (compare_ids(entries[i], end) > 0)
         /\ BreakAt(start, end) <= Len(entries) =>
              compare_ids(entries[BreakAt(start, end)], end) > 0
<1>. DEFINE P == {i \in FromStart(start) : compare_ids(entries[i], end) > 0}
            b == BreakAt(start, end)
<1>1. Len(entries) \in Nat /\ DOMAIN entries = 1..Len(entries)
  BY LenProperties DEF TypeOK
<1>2. P \in SUBSET (1..Len(entries))
  BY <1>1 DEF FromStart
<1>3. b = IF P = {} THEN Len(entries) + 1 ELSE CHOOSE i \in P : \A j \in P : i <= j
  BY DEF BreakAt
<1>4. CASE P = {}
  <2>1. b = Len(entries) + 1
    BY <1>3, <1>4
  <2>2. \A i \in FromStart(start) : ~ (compare_ids(entries[i], end) > 0)
    BY <1>4
  <2>. HIDE DEF b
  <2>3. b \in 1..(Len(entries) + 1) /\ ~(b <= Len(entries))
    BY <2>1, <1>1
  <2>. QED
    BY <2>2, <2>3 DEF b
<1>5. CASE P # {}
  <2>1. \E i \in P : \A j \in P : i <= j
    <3>1. P \in SUBSET Nat
      BY <1>1, <1>2
    <3>. HIDE DEF P
    <3>. QED
      BY <3>1, <1>5, LeastExists
  <2>2. b = CHOOSE i \in P : \A j \in P : i <= j
    BY <1>3, <1>5
  <2>. HIDE DEF b, P
  <2>3. b \in P /\ \A j \in P : b <= j
    BY <2>1, <2>2
  <2>4. b \in 1..Len(entries)
    BY <2>3, <1>2
  <2>5. b \in 1..(Len(entries) + 1)
    BY <2>4, <1>1
  <2>6. \A i \in 1..(b - 1) : i \notin P
    <3>1. \A i \in 1..(b - 1) : ~(b <= i)
      BY <2>4, <1>1
    <3>. QED
      BY <3>1, <2>3
  <2>. QED
    BY <2>3, <2>5, <2>6 DEF P, b
<1>. QED
  BY <1>4, <1>5

LEMMA XRangeStep ==
  ASSUME TypeOK, Increasing(entries),
         NEW start \in Ids, NEW end \in Ids, NEW count \in Counts
  PROVE  \E first \in 1..(Len(entries) + 1), last \in 0..Len(entries) :
           /\ first..last = {i \in DOMAIN entries :
                               /\ compare_ids(start, entries[i]) <= 0
                               /\ compare_ids(entries[i], end) <= 0}
           /\ XRange(start, end, count) =
                SubSeq(entries, first, IF count > 0 /\ first + count - 1 < last
                                       THEN first + count - 1 ELSE last)
<1>. DEFINE b == BreakAt(start, end)
            m == b - 1
            I == {i \in DOMAIN entries : /\ compare_ids(start, entries[i]) <= 0
                                         /\ compare_ids(entries[i], end) <= 0}
<1>1. /\ Len(entries) \in Nat /\ DOMAIN entries = 1..Len(entries)
      /\ \A i \in 1..Len(entries) : entries[i] \in Id
  BY LenProperties, ElementOfSeq DEF TypeOK, Id
<1>2. start \in Id /\ end \in Id /\ count \in Int
  BY StreamAssumption DEF Id
<1>3. /\ b \in 1..(Len(entries) + 1)
      /\ \A i \in 1..(b - 1) :
           i \in FromStart(start) => ~ (compare_ids(entries[i], end) > 0)
      /\ b <= Len(entries) => compare_ids(entries[b], end) > 0
  BY BreakAtFacts
<1>4. XRange(start, end, count) = Collected(FromStart(start), count, m)
  BY DEF XRange
<1>. HIDE DEF b
<1>5. m \in 0..Len(entries) /\ m \in Nat
  BY <1>1, <1>3
<1>6. PICK k \in 0..m : FromStart(start) \cap (1..m) = (k + 1)..m
  BY <1>2, <1>5, EntriesCut
<1>7. Collected(FromStart(start), count, m) = Slice(k, Upto(k, count, m))
  <2>. HIDE DEF m
  <2>. QED
    BY <1>2, <1>5, <1>6, CollectedFacts
<1>8. \A i \in DOMAIN entries :
        /\ compare_ids(entries[i], start) \in Int /\ compare_ids(start, entries[i]) \in Int
        /\ compare_ids(entries[i], end) \in Int
        /\ compare_ids(entries[i], start) < 0 <=> compare_ids(start, entries[i]) > 0
  BY <1>1, <1>2, CompareSymmetric
<1>9. I = FromStart(start) \cap (1..m)
  <2>1. ASSUME NEW i \in DOMAIN entries
        PROVE  compare_ids(start, entries[i]) <= 0 <=> i \in FromStart(start)
    BY <1>8 DEF FromStart
  <2>2. ASSUME NEW i \in 1..m, i \in FromStart(start)
        PROVE  compare_ids(entries[i], end) <= 0
    <3>1. i \in DOMAIN entries
      BY <2>2 DEF FromStart
    <3>2. ~ (compare_ids(entries[i], end) > 0)
      BY <2>2, <1>3
    <3>. QED
      BY <3>1, <3>2, <1>8
  <2>3. ASSUME NEW i \in DOMAIN entries, i \notin 1..m
        PROVE  ~ (compare_ids(entries[i], end) <= 0)
    <3>1. b <= Len(entries) /\ b \in 1..Len(entries) /\ b <= i /\ i \in Int
      BY <2>3, <1>1, <1>3
    <3>2. compare_ids(entries[b], end) > 0
      BY <3>1, <1>3
    <3>3. compare_ids(entries[i], end) > 0
      <4>1. CASE b = i
        BY <4>1, <3>2
      <4>2. CASE b # i
        <5>1. compare_ids(entries[b], entries[i]) < 0
          BY <4>2, <3>1, <1>1, <1>3 DEF Increasing
        <5>2. entries[b] \in Id /\ entries[i] \in Id
          BY <3>1, <1>1
        <5>3. compare_ids(end, entries[b]) < 0 /\ compare_ids(end, entries[b]) \in Int
          BY <5>2, <3>2, <1>2, CompareSymmetric
        <5>4. compare_ids(end, entries[b]) <= 0
          BY <5>3
        <5>5. compare_ids(end, entries[i]) < 0
          BY <5>1, <5>2, <5>4, <1>2, CompareTransitive
        <5>. QED
          BY <5>2, <5>5, <1>2, CompareSymmetric
      <4>. QED
        BY <4>1, <4>2
    <3>. QED
      BY <3>3, <1>8
  <2>4. \A i \in 1..m : i \in DOMAIN entries
    BY <1>1, <1>5
  <2>. HIDE DEF m
  <2>. QED
    BY <2>1, <2>2, <2>3, <2>4 DEF FromStart
<1>. HIDE DEF m, I
<1>10. /\ k + 1 \in 1..(Len(entries) + 1)
       /\ Upto(k, count, m) = IF count > 0 /\ (k + 1) + count - 1 < m
                              THEN (k + 1) + count - 1 ELSE m
  <2>1. k \in Int /\ k <= m /\ 0 <= k /\ m \in Int
    BY <1>5
  <2>2. (k + 1) + count - 1 = k + count
    BY <2>1, <1>2
  <2>. QED
    BY <2>1, <2>2, <1>1, <1>2, <1>5 DEF Upto
<1>11. XRange(start, end, count) =
         SubSeq(entries, k + 1, IF count > 0 /\ (k + 1) + count - 1 < m
                                THEN (k + 1) + count - 1 ELSE m)
  BY <1>4, <1>7, <1>10 DEF Slice
<1>12. (k + 1)..m = I
  BY <1>6, <1>9
<1>. QED
  BY <1>5, <1>10, <1>11, <1>12 DEF I

\* Until a sequence number wraps, XRange returns the first entries of those in
\* the range, whatever was added, deleted, trimmed and loaded before.
THEOREM RangesAreComplete == Spec => []XRangeComplete
<1>1. TypeOK /\ IdsIncrease => XRangeComplete
  BY XRangeStep DEF IdsIncrease, XRangeComplete
<1> QED
  BY <1>1, TypeCorrect, IdsInOrder, PTL

-----------------------------------------------------------------------------
(* The reader. *)

\* In order of ids is in order of positions.
LEMMA BehindIsLater ==
  ASSUME TypeOK, Increasing(entries),
         NEW l \in 1..Len(entries), NEW i \in 1..Len(entries)
  PROVE  compare_ids(entries[i], entries[l]) > 0 <=> l < i
<1>1. /\ Len(entries) \in Nat /\ DOMAIN entries = 1..Len(entries)
      /\ entries[i] \in Id /\ entries[l] \in Id
  BY LenProperties, ElementOfSeq DEF TypeOK, Id
<1>2. CASE i = l
  <2>1. compare_ids(entries[i], entries[l]) = 0
    BY <1>2 DEF compare_ids
  <2>. QED
    BY <2>1, <1>2, <1>1
<1>3. CASE i < l
  <2>1. compare_ids(entries[i], entries[l]) < 0
    BY <1>1, <1>3 DEF Increasing
  <2>2. compare_ids(entries[i], entries[l]) \in Int
    BY <1>1, CompareSymmetric
  <2>. QED
    BY <2>1, <2>2, <1>3, <1>1
<1>4. CASE l < i
  <2>1. compare_ids(entries[l], entries[i]) < 0
    BY <1>1, <1>4 DEF Increasing
  <2>. QED
    BY <2>1, <1>1, <1>4, CompareSymmetric
<1>. QED
  BY <1>1, <1>2, <1>3, <1>4

\* What XRead returns: the entries from the first one behind the id on, as many
\* as were asked for.
LEMMA XReadSlice ==
  ASSUME TypeOK, Increasing(entries), NEW id \in Id, NEW count \in Int
  PROVE  \E k \in 0..Len(entries) :
           /\ \A i \in 1..Len(entries) : compare_ids(entries[i], id) > 0 <=> k < i
           /\ XRead(id, count) = Slice(k, Upto(k, count, Len(entries)))
<1>. DEFINE N == Len(entries)
            After == {i \in DOMAIN entries : compare_ids(entries[i], id) > 0}
<1>1. N \in Nat /\ DOMAIN entries = 1..N /\ N \in 0..N
  BY LenProperties DEF TypeOK
<1>2. PICK k \in 0..N : After \cap (1..N) = (k + 1)..N
  BY <1>1, EntriesCut
<1>3. XRead(id, count) = Collected(After, count, N)
  BY DEF XRead
<1>4. \A i \in 1..N : compare_ids(entries[i], id) > 0 <=> i \in After \cap (1..N)
  BY <1>1
<1>5. \A i \in 1..N : i \in (k + 1)..N <=> k < i
  BY <1>1
<1>. HIDE DEF After, N
<1>6. Collected(After, count, N) = Slice(k, Upto(k, count, N))
  BY <1>1, <1>2, CollectedFacts DEF N
<1>. QED
  BY <1>2, <1>3, <1>4, <1>5, <1>6 DEF N

\* The entries of a batch.
LEMMA BatchEntries ==
  ASSUME TypeOK, NEW k \in Nat, NEW u \in Nat, k <= u, u <= Len(entries)
  PROVE  Ext!ToSet(Slice(k, u)) = {entries[i] : i \in (k + 1)..u}
<1>. DEFINE b == Slice(k, u)
<1>1. /\ b \in Seq(Id) /\ Len(b) = u - k
      /\ \A i \in 1..(u - k) : b[i] = entries[k + i]
  BY SliceFacts
<1>. HIDE DEF b
<1>2. DOMAIN b = 1..(u - k)
  BY <1>1, LenProperties
<1>3. Ext!ToSet(b) = {entries[k + i] : i \in 1..(u - k)}
  BY <1>1, <1>2 DEF Ext!ToSet
<1>4. ASSUME NEW i \in (k + 1)..u
      PROVE  \E j \in 1..(u - k) : entries[i] = entries[k + j]
  <2>1. i - k \in 1..(u - k) /\ k + (i - k) = i
    OBVIOUS
  <2>. QED
    BY <2>1
<1>5. ASSUME NEW j \in 1..(u - k)
      PROVE  k + j \in (k + 1)..u
  OBVIOUS
<1>. QED
  BY <1>3, <1>4, <1>5 DEF b

\* Without a count XRead returns all entries behind the id.
LEMMA XReadAll ==
  ASSUME TypeOK, Increasing(entries), NEW id \in Id, NEW i \in 1..Len(entries)
  PROVE  entries[i] \in Ext!ToSet(XRead(id, 0)) <=> compare_ids(entries[i], id) > 0
<1>. DEFINE N == Len(entries)
<1>1. N \in Nat
  BY LenProperties DEF TypeOK
<1>2. PICK k \in 0..N :
        /\ \A j \in 1..N : compare_ids(entries[j], id) > 0 <=> k < j
        /\ XRead(id, 0) = Slice(k, Upto(k, 0, N))
  BY XReadSlice
<1>3. Upto(k, 0, N) = N
  BY DEF Upto
<1>4. Ext!ToSet(XRead(id, 0)) = {entries[j] : j \in (k + 1)..N}
  BY <1>1, <1>2, <1>3, BatchEntries
<1>5. \A j \in (k + 1)..N : j \in 1..N /\ k < j
  BY <1>1
<1>6. k < i => i \in (k + 1)..N
  BY <1>1
<1>. QED
  BY <1>2, <1>4, <1>5, <1>6

\* The reader's invariant.  Entries that go are forgotten, so what was given is
\* among what is stored; the stream reaches to the reader's place; and of the
\* entries behind 0-0 the reader was given those that are not behind its place.
ReaderInv ==
  /\ rewound \in BOOLEAN
  /\ ~wrapped =>
       /\ cursor \in Id
       /\ got \subseteq Ext!ToSet(stored)
       /\ ~rewound =>
            /\ cursor # Origin => ~EndsBefore(stored, cursor)
            /\ \A id \in Ext!ToSet(stored) :
                 compare_ids(id, Origin) > 0 =>
                   (id \in got <=> ~ (compare_ids(id, cursor) > 0))

\* What is stored changes by one entry at the end, or by entries that go.
LEMMA StoredChanges ==
  ASSUME IInv, Next, ~wrapped
  PROVE  \/ Ext!ToSet(stored') \subseteq Ext!ToSet(stored)
         \/ \E x : stored' = Append(stored, x)
<1>1. TypeOK /\ entries \o pending = stored
  BY DEF IInv
<1>2. ASSUME Loaded PROVE entries = stored
  BY <1>1, <1>2, ConcatEmptySeq DEF TypeOK, Loaded
<1>3. entries \in Seq(Id) /\ Len(entries) \in Nat /\ DOMAIN entries = 1..Len(entries)
  BY <1>1, LenProperties DEF TypeOK, Id
<1>4. ASSUME NEW now \in Clock, XAddAuto(now)
      PROVE  \E x : stored' = Append(stored, x)
  BY <1>2, <1>4 DEF XAddAuto, persist_stream
<1>5. ASSUME NEW id \in Ids, XAdd(id)
      PROVE  \E x : stored' = Append(stored, x)
  BY <1>2, <1>5 DEF XAdd, Appended, persist_stream
<1>6. ASSUME NEW n \in DOMAIN entries, XDel(n)
      PROVE  Ext!ToSet(stored') \subseteq Ext!ToSet(stored)
  <2>. DEFINE t == Ext!RemoveAt(entries, n)
  <2>1. stored' = t /\ entries = stored
    BY <1>2, <1>6 DEF XDel, persist_stream
  <2>2. /\ t \in Seq(Id)
        /\ Len(t) = Len(entries) - 1
        /\ \A i \in 1..(Len(entries) - 1) : t[i] = entries[IF i < n THEN i ELSE i + 1]
    <3>1. n \in 1..Len(entries) /\ entries \in Seq(Id)
      BY <1>3
    <3>. QED
      BY <3>1, RemoveAtProperties
  <2>. HIDE DEF t
  <2>3. ASSUME NEW i \in DOMAIN t PROVE t[i] \in Ext!ToSet(entries)
    <3>1. i \in 1..(Len(entries) - 1)
      BY <2>2, LenProperties
    <3>2. (IF i < n THEN i ELSE i + 1) \in DOMAIN entries
      BY <3>1, <1>3
    <3>. QED
      BY <2>2, <3>1, <3>2 DEF Ext!ToSet
  <2>. QED
    BY <2>1, <2>3 DEF Ext!ToSet
<1>7. ASSUME NEW maxlen \in Counts, XTrim(maxlen)
      PROVE  Ext!ToSet(stored') \subseteq Ext!ToSet(stored)
  <2>. DEFINE n == TrimCount(maxlen)
  <2>1. n > 0 /\ stored' = SubSeq(entries, n + 1, Len(entries)) /\ entries = stored
    BY <1>2, <1>7 DEF XTrim, persist_stream
  <2>2. n \in Int /\ n <= Len(entries)
    BY <1>3, StreamAssumption DEF TrimCount
  <2>. HIDE DEF n
  <2>3. n \in Nat /\ Len(entries) <= Len(entries) /\ stored' = Slice(n, Len(entries))
    BY <1>3, <2>1, <2>2 DEF Slice
  <2>4. Ext!ToSet(stored') = {entries[i] : i \in (n + 1)..Len(entries)}
    BY <1>1, <1>3, <2>2, <2>3, BatchEntries
  <2>5. \A i \in (n + 1)..Len(entries) : i \in DOMAIN entries
    BY <1>3, <2>3
  <2>. QED
    BY <2>1, <2>4, <2>5 DEF Ext!ToSet
<1>8. CASE Load \/ LoadEntry
  BY <1>8 DEF Load, LoadEntry
<1>. QED
  BY <1>4, <1>5, <1>6, <1>7, <1>8 DEF Next

LEMMA StreamStepKeepsReader ==
  ASSUME IInv, IInv', ReaderInv, StreamStep
  PROVE  ReaderInv'
<1>1. /\ Next /\ cursor' = cursor /\ got' = got \cap Ext!ToSet(stored')
      /\ rewound' = (rewound \/ (cursor # Origin /\ EndsBefore(stored', cursor)))
  BY DEF StreamStep
<1>2. rewound \in BOOLEAN /\ (~wrapped => cursor \in Id)
  BY DEF ReaderInv
<1>3. wrapped => wrapped'
  <2>1. \A now \in Clock : XAddAuto(now) /\ wrapped => wrapped'
    BY DEF XAddAuto
  <2>2. (\E now \in Clock : XAddAuto(now)) \/ wrapped' = wrapped
    BY <1>1 DEF Next, XAdd, XDel, XTrim, Load, LoadEntry
  <2>. QED
    BY <2>1, <2>2
<1>4. ASSUME ~wrapped', ~rewound'
      PROVE  /\ cursor' # Origin => ~EndsBefore(stored', cursor')
             /\ \A id \in Ext!ToSet(stored') :
                  compare_ids(id, Origin) > 0 =>
                    (id \in got' <=> ~ (compare_ids(id, cursor') > 0))
  <2>1. ~wrapped /\ ~rewound /\ cursor \in Id
    BY <1>1, <1>2, <1>3, <1>4
  <2>2. cursor # Origin => ~EndsBefore(stored', cursor) /\ ~EndsBefore(stored, cursor)
    BY <1>1, <1>4, <2>1 DEF ReaderInv
  <2>3. /\ got \subseteq Ext!ToSet(stored)
        /\ \A id \in Ext!ToSet(stored) :
             compare_ids(id, Origin) > 0 =>
               (id \in got <=> ~ (compare_ids(id, cursor) > 0))
    BY <2>1 DEF ReaderInv
  <2>4. CASE Ext!ToSet(stored') \subseteq Ext!ToSet(stored)
    BY <1>1, <2>2, <2>3, <2>4
  <2>5. ASSUME NEW x, stored' = Append(stored, x)
        PROVE  \A id \in Ext!ToSet(stored') :
                 compare_ids(id, Origin) > 0 =>
                   (id \in got' <=> ~ (compare_ids(id, cursor) > 0))
    <3>. DEFINE n == Len(stored)
    <3>1. stored \in Seq(Id) /\ stored' \in Seq(Id) /\ Increasing(stored')
      BY <1>4 DEF IInv, TypeOK, Id, Increasing
    <3>2. /\ n \in Nat /\ DOMAIN stored = 1..n /\ DOMAIN stored' = 1..(n + 1)
          /\ \A i \in 1..n : stored'[i] = stored[i] /\ stored[i] \in Id
          /\ stored'[n + 1] = x
      BY <2>5, <3>1, LenProperties, ElementOfSeq
    <3>. HIDE DEF n
    <3>3. x \in Id
      <4>1. n + 1 \in DOMAIN stored'
        BY <3>2
      <4>. QED
        BY <3>1, <3>2, <4>1, ElementOfSeq
    <3>4. \A i \in 1..n : compare_ids(stored[i], x) < 0
      <4>1. ASSUME NEW i \in 1..n PROVE i \in DOMAIN stored' /\ n + 1 \in DOMAIN stored' /\ i < n + 1
        BY <3>2
      <4>. QED
        BY <3>1, <3>2, <4>1 DEF Increasing
    <3>5. x \notin Ext!ToSet(stored)
      <4>1. compare_ids(x, x) = 0
        BY DEF compare_ids
      <4>. QED
        BY <3>2, <3>4, <4>1 DEF Ext!ToSet
    <3>6. Ext!ToSet(stored') = Ext!ToSet(stored) \cup {x}
      <4>1. ASSUME NEW i \in 1..(n + 1) PROVE i \in 1..n \/ i = n + 1
        BY <3>2
      <4>2. \A i \in 1..n : i \in 1..(n + 1)
        BY <3>2
      <4>3. n + 1 \in 1..(n + 1)
        BY <3>2
      <4>. QED
        BY <3>2, <4>1, <4>2, <4>3 DEF Ext!ToSet
    <3>7. compare_ids(x, Origin) > 0 => compare_ids(x, cursor) > 0
      <4>1. CASE cursor = Origin
        BY <4>1
      <4>2. CASE cursor # Origin
        <5>1. stored # <<>> /\ ~ (compare_ids(stored[n], cursor) < 0)
          BY <2>2, <4>2 DEF EndsBefore, n
        <5>2. n \in 1..n
          BY <5>1, <3>1, <3>2, EmptySeq DEF n
        <5>. DEFINE b == stored[n]
        <5>3. b \in Id /\ compare_ids(b, x) < 0
          BY <5>2, <3>2, <3>4
        <5>. HIDE DEF b
        <5>4. compare_ids(cursor, b) <= 0
          <6>1. /\ compare_ids(b, cursor) \in {-1, 0, 1} /\ compare_ids(cursor, b) \in {-1, 0, 1}
                /\ compare_ids(b, cursor) < 0 <=> compare_ids(cursor, b) > 0
            BY <2>1, <5>3, CompareSymmetric
          <6>2. ~ (compare_ids(b, cursor) < 0)
            BY <5>1 DEF b
          <6>. QED
            BY <6>1, <6>2
        <5>5. compare_ids(cursor, x) < 0
          BY <2>1, <3>3, <5>3, <5>4, CompareTransitive
        <5>. QED
          BY <2>1, <3>3, <5>5, CompareSymmetric
      <4>. QED
        BY <4>1, <4>2
    <3>. QED
      BY <1>1, <2>3, <3>5, <3>6, <3>7
  <2>6. \A id \in Ext!ToSet(stored') :
          compare_ids(id, Origin) > 0 =>
            (id \in got' <=> ~ (compare_ids(id, cursor) > 0))
    <3>1. CASE Ext!ToSet(stored') \subseteq Ext!ToSet(stored)
      BY <3>1, <1>1, <2>3
    <3>. QED
      BY <3>1, <1>1, <2>1, <2>5, StoredChanges
  <2>. QED
    BY <1>1, <2>2, <2>6
<1>. QED
  BY <1>1, <1>2, <1>3, <1>4 DEF ReaderInv

LEMMA ReadOnKeepsReader ==
  ASSUME IInv, ReaderInv, NEW count \in Counts, ReadOn(count)
  PROVE  ReaderInv'
<1>. DEFINE N == Len(entries)
            batch == XRead(cursor, count)
<1>1. /\ Loaded /\ batch # <<>>
      /\ cursor' = batch[Len(batch)] /\ got' = got \cup Ext!ToSet(batch)
      /\ UNCHANGED vars /\ rewound' = rewound
  BY DEF ReadOn
<1>2. /\ TypeOK /\ rewound \in BOOLEAN /\ count \in Int
      /\ N \in Nat /\ DOMAIN entries = 1..N
      /\ \A i \in 1..N : entries[i] \in Id
  BY LenProperties, ElementOfSeq, StreamAssumption DEF IInv, ReaderInv, TypeOK, Id
<1>4. ASSUME ~wrapped
      PROVE  (/\ cursor \in Id
              /\ got \subseteq Ext!ToSet(stored)
              /\ ~rewound =>
                   /\ cursor # Origin => ~EndsBefore(stored, cursor)
                   /\ \A id \in Ext!ToSet(stored) :
                        compare_ids(id, Origin) > 0 =>
                          (id \in got <=> ~ (compare_ids(id, cursor) > 0)))'
  <2>0. cursor \in Id
    BY <1>4 DEF ReaderInv
  <2>1. Increasing(entries) /\ entries = stored /\ stored' = stored
    <3>1. entries = stored
      BY <1>1, <1>4, ConcatEmptySeq DEF IInv, TypeOK, Loaded
    <3>. QED
      BY <1>1, <1>4, <3>1 DEF IInv, vars, Increasing
  <2>2. PICK k \in 0..N :
          /\ \A i \in 1..N : compare_ids(entries[i], cursor) > 0 <=> k < i
          /\ batch = Slice(k, Upto(k, count, N))
    BY <1>2, <2>0, <2>1, XReadSlice
  <2>. DEFINE l == Upto(k, count, N)
  <2>3. l \in Nat /\ k \in Nat /\ k <= l /\ l <= N
    BY <1>2 DEF Upto
  <2>. HIDE DEF l, batch
  <2>4. Ext!ToSet(batch) = {entries[i] : i \in (k + 1)..l}
    BY <1>2, <2>2, <2>3, BatchEntries DEF l
  <2>5. /\ batch \in Seq(Id) /\ Len(batch) = l - k
        /\ \A i \in 1..(l - k) : batch[i] = entries[k + i]
    BY <1>2, <2>2, <2>3, SliceFacts DEF l
  <2>6. l # k
    <3>1. l - l = 0
      BY <2>3
    <3>. QED
      BY <3>1, <1>1, <2>5, EmptySeq
  <2>7. cursor' = entries[l] /\ l \in 1..N
    <3>1. l - k \in 1..(l - k) /\ k + (l - k) = l /\ l \in 1..N
      BY <1>2, <2>3, <2>6
    <3>. QED
      BY <3>1, <1>1, <2>5
  <2>8. \A i \in 1..N : compare_ids(entries[i], cursor') > 0 <=> l < i
    BY <1>2, <2>1, <2>7, BehindIsLater
  <2>9. Ext!ToSet(stored) = {entries[i] : i \in 1..N}
    BY <1>2, <2>1 DEF Ext!ToSet
  <2>10. got' \subseteq Ext!ToSet(stored)
    <3>1. \A i \in (k + 1)..l : i \in 1..N
      BY <1>2, <2>3
    <3>2. got \subseteq Ext!ToSet(stored)
      BY <1>4 DEF ReaderInv
    <3>. QED
      BY <1>1, <2>4, <2>9, <3>1, <3>2
  <2>11. ~EndsBefore(stored, cursor')
    <3>1. N \in 1..N /\ stored # <<>> /\ stored[Len(stored)] = entries[N]
      <4>1. N # 0
        BY <2>7, <1>2
      <4>. QED
        BY <4>1, <1>2, <2>1, EmptySeq
    <3>2. ~ (compare_ids(entries[N], entries[l]) < 0)
      <4>1. /\ compare_ids(entries[N], entries[l]) \in {-1, 0, 1}
            /\ compare_ids(entries[l], entries[N]) \in {-1, 0, 1}
            /\ compare_ids(entries[N], entries[l]) < 0 <=> compare_ids(entries[l], entries[N]) > 0
        BY <1>2, <2>7, <3>1, CompareSymmetric
      <4>2. ~ (compare_ids(entries[l], entries[N]) > 0)
        <5>1. ~ (N < l)
          BY <1>2, <2>3
        <5>. QED
          BY <1>2, <2>1, <2>7, <3>1, <5>1, BehindIsLater
      <4>. QED
        BY <4>1, <4>2
    <3>. QED
      BY <2>7, <3>1, <3>2 DEF EndsBefore
  <2>12. ASSUME ~rewound, NEW i \in 1..N, compare_ids(entries[i], Origin) > 0
         PROVE  entries[i] \in got' <=> ~ (compare_ids(entries[i], cursor') > 0)
    <3>1. entries[i] \in Ext!ToSet(stored)
      BY <2>9
    <3>2. entries[i] \in got <=> ~ (k < i)
      BY <1>4, <2>2, <2>12, <3>1 DEF ReaderInv
    <3>3. entries[i] \in Ext!ToSet(batch) <=> k < i /\ ~ (l < i)
      <4>1. ASSUME NEW j \in (k + 1)..l, entries[i] = entries[j] PROVE i = j
        <5>1. j \in 1..N
          BY <1>2, <2>3
        <5>2. compare_ids(entries[i], entries[j]) = 0 /\ compare_ids(entries[j], entries[i]) = 0
          BY <4>1 DEF compare_ids
        <5>3. ~ (j < i) /\ ~ (i < j)
          <6>1. ~ (compare_ids(entries[i], entries[j]) > 0) /\ ~ (compare_ids(entries[j], entries[i]) > 0)
            BY <5>2
          <6>. QED
            BY <1>2, <2>1, <5>1, <6>1, BehindIsLater
        <5>. QED
          BY <1>2, <5>1, <5>3
      <4>2. i \in (k + 1)..l <=> k < i /\ ~ (l < i)
        BY <1>2, <2>3
      <4>. QED
        BY <2>4, <4>1, <4>2
    <3>4. ~ (k < i) => ~ (l < i)
      BY <1>2, <2>3
    <3>. QED
      BY <1>1, <2>8, <3>2, <3>3, <3>4
  <2>. QED
    BY <1>1, <1>2, <2>1, <2>7, <2>9, <2>10, <2>11, <2>12
<1>5. wrapped' = wrapped
  BY <1>1 DEF vars
<1>. QED
  BY <1>1, <1>2, <1>4, <1>5 DEF ReaderInv

LEMMA ReaderSafe ==
  ASSUME IInv, ReaderInv
  PROVE  ReaderMissesNothing
<1>. SUFFICES ASSUME ~wrapped, ~rewound, NEW i \in DOMAIN entries,
                     compare_ids(entries[i], Origin) > 0
              PROVE  (entries[i] \in got) # (entries[i] \in Ext!ToSet(XRead(cursor, 0)))
  BY DEF ReaderMissesNothing
<1>1. /\ TypeOK /\ cursor \in Id /\ entries \o pending = stored /\ Increasing(stored)
  BY DEF IInv, ReaderInv
<1>2. /\ entries \in Seq(Id) /\ pending \in Seq(Id) /\ Len(entries) \in Nat /\ Len(pending) \in Nat
      /\ DOMAIN entries = 1..Len(entries)
  BY <1>1, LenProperties DEF TypeOK, Id
<1>3. /\ DOMAIN stored = 1..(Len(entries) + Len(pending))
      /\ \A j \in 1..Len(entries) : stored[j] = entries[j]
  BY <1>1, <1>2, ConcatProperties
<1>4. \A j \in DOMAIN entries : j \in DOMAIN stored
  BY <1>2, <1>3
<1>5. Increasing(entries)
  BY <1>1, <1>2, <1>3, <1>4 DEF Increasing
<1>6. entries[i] \in Ext!ToSet(stored)
  <2>1. i \in DOMAIN stored /\ stored[i] = entries[i]
    BY <1>2, <1>3, <1>4
  <2>. QED
    BY <2>1 DEF Ext!ToSet
<1>7. entries[i] \in got <=> ~ (compare_ids(entries[i], cursor) > 0)
  BY <1>6 DEF ReaderInv
<1>8. entries[i] \in Ext!ToSet(XRead(cursor, 0)) <=> compare_ids(entries[i], cursor) > 0
  BY <1>1, <1>2, <1>5, XReadAll
<1>. QED
  BY <1>7, <1>8

\* A reader that goes on from the last entry it was given gets every entry
\* behind 0-0 once, over any history of additions, deletions, trims, reads and
\* reloads in which no sequence number wraps and the stream does not end before
\* the reader's place.
THEOREM ReadersMissNothing == ReaderSpec => []ReaderMissesNothing
<1>1. ReaderInit => ReaderInv
  <2>1. ASSUME ReaderInit PROVE ReaderInv
    <3>1. cursor = <<0, 0>> /\ got = {} /\ rewound = FALSE /\ stored = <<>>
      BY <2>1 DEF ReaderInit, Origin, Init
    <3>2. <<0, 0>> \in Id
      BY StreamAssumption DEF Id, Dashed
    <3>3. Ext!ToSet(stored) = {}
      BY <3>1 DEF Ext!ToSet
    <3>. QED
      BY <3>1, <3>2, <3>3 DEF ReaderInv, Origin
  <2>. QED
    BY <2>1
<1>2. IInv /\ IInv' /\ ReaderInv /\ [ReaderNext]_readerVars => ReaderInv'
  <2>1. ASSUME ReaderInv, UNCHANGED readerVars PROVE ReaderInv'
    BY <2>1 DEF ReaderInv, readerVars, Origin, EndsBefore
  <2>. QED
    BY <2>1, StreamStepKeepsReader, ReadOnKeepsReader DEF ReaderNext
<1>3. ReaderInit => Init
  BY DEF ReaderInit
<1>4. [ReaderNext]_readerVars => [Next]_vars
  BY DEF ReaderNext, StreamStep, ReadOn, readerVars, vars
<1>5. IInv /\ ReaderInv => ReaderMissesNothing
  BY ReaderSafe
<1>. QED
  BY <1>1, <1>2, <1>3, <1>4, <1>5, Inductive, PTL DEF ReaderSpec, Spec

=============================================================================
