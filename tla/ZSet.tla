-------------------------------- MODULE ZSet --------------------------------
(***************************************************************************)
(* The sorted set of src/src/zset/bplustree_zset.cpp: ZSetBPlus, called by *)
(* several threads.                                                        *)
(*                                                                         *)
(* One mutex guards three structures that repeat each other: the score of  *)
(* each member, the tree of (score, hash of the member) pairs, and the     *)
(* map from hashes back to members.  A call changes the tree first and the *)
(* maps afterwards; each is a step of its own here, so that what the mutex *)
(* protects can be seen.  The tree is the ordered set that BPlusTree is    *)
(* shown to implement.                                                     *)
(***************************************************************************)
EXTENDS Integers, Sequences, FiniteSets

CONSTANTS
  Threads,
  Members,
  Scores,
  Hash,       \* absl::Hash of each member
  Word,       \* 2^64
  None,
  MaxCalls    \* a bound on the calls of a thread, for the checks

\* Members are told apart by their hashes.
ASSUME HashInjective ==
  /\ Hash \in [Members -> Nat]
  /\ \A m, n \in Members : Hash[m] = Hash[n] => m = n

ASSUME ZSetAssumption ==
  /\ Scores \subseteq Int
  /\ None \notin Scores \cup Members \cup Threads
  /\ MaxCalls \in Nat

\* A set has fewer members than its counters count.  (The ranks of the tree
\* are uint32_t: sets of 2^32 members and more are out of scope.)
ASSUME CountersSuffice ==
  /\ IsFiniteSet(Members)
  /\ Word \in Nat
  /\ Cardinality(Members) < Word

VARIABLES
  member_to_score,   \* None for a member that is not there
  ordered_set,       \* the elements <<score, hash>>
  hash_to_member,    \* None for a hash that is not there
  mutex,             \* mutex_: the thread that holds it, or None
  pc,                \* where each thread is
  op,                \* the call it makes
  arg,               \* its member and score, or its score range
  calls              \* the calls it has made

vars == <<member_to_score, ordered_set, hash_to_member, mutex, pc, op, arg, calls>>

Hashes == {Hash[m] : m \in Members}

MakeElement(member, score) == <<score, Hash[member]>>

\* By score, then by hash.
Less(a, b) == a[1] < b[1] \/ (a[1] = b[1] /\ a[2] < b[2])

FindMemberByHash(hash) ==
  IF hash \in Hashes THEN hash_to_member[hash] ELSE None

-----------------------------------------------------------------------------
(* The calls that only read.  They hold the mutex throughout. *)

Size == Cardinality(ordered_set)

RankOf(elem) == Cardinality({e \in ordered_set : Less(e, elem)})
AtRank(rank) == CHOOSE e \in ordered_set : RankOf(e) = rank

\* The members of the elements at the given ranks, collected by a loop; one
\* whose hash is not found is left out.
MembersAt(ranks) ==
  LET Member(i) == FindMemberByHash(AtRank(ranks[i])[2])
      loop[n \in 0..Len(ranks)] ==
        IF n = 0 THEN <<>>
        ELSE IF Member(n) = None THEN loop[n - 1]
        ELSE Append(loop[n - 1], Member(n))
  IN  loop[Len(ranks)]

GetScore(member) == member_to_score[member]

Contains(member) == member_to_score[member] # None

GetRank(member, reverse) ==
  LET elem == MakeElement(member, member_to_score[member]) IN
  CASE ~ Contains(member) \/ elem \notin ordered_set -> None
    [] Contains(member) /\ elem \in ordered_set /\ reverse -> Size - RankOf(elem) - 1
    [] OTHER -> RankOf(elem)

\* GetByRank and GetScoreByRank ignore reverse.
GetByRank(rank, reverse) ==
  IF rank >= Size THEN None ELSE FindMemberByHash(AtRank(rank)[2])

GetScoreByRank(rank, reverse) == IF rank >= Size THEN None ELSE AtRank(rank)[1]

\* The walk from the first element that is not below (min, 0) to the first
\* one with a score above max.
ScoreWalk(min, max) ==
  LET first == RankOf(<<min, 0>>)
      stops == {r \in first..(Size - 1) : AtRank(r)[1] > max} \cup {Size}
      stop  == CHOOSE r \in stops : \A q \in stops : r <= q
  IN [i \in 1..(stop - first) |-> first + i - 1]

GetRangeByScore(min, max) == MembersAt(ScoreWalk(min, max))

CountRange(min, max) == Len(ScoreWalk(min, max))

GetRangeByRank(start, stop, reverse) ==
  LET last == IF stop < Size - 1 THEN stop ELSE Size - 1 IN
  IF start >= Size THEN <<>>
  ELSE MembersAt([i \in 1..(last - start + 1) |->
                   IF reverse THEN Size - 1 - (start + i - 1) ELSE start + i - 1])

\* Engine::zrange casts its signed ranks.
zrange(start, stop, reverse) == GetRangeByRank(start % Word, stop % Word, reverse)

-----------------------------------------------------------------------------
Inside == {"add", "add_maps", "remove", "remove_maps", "clear", "clear_maps",
           "read", "remove_range", "self_wait"}

Ops == {"add", "remove", "clear", "read", "remove_range"}

Goto(t, label) == pc' = [pc EXCEPT ![t] = label]

\* The end of the call and of the MutexLock's scope.
Return(t) ==
  /\ mutex' = None
  /\ Goto(t, "idle")
  /\ op' = [op EXCEPT ![t] = "none"]
  /\ arg' = [arg EXCEPT ![t] = None]

Structures == <<member_to_score, ordered_set, hash_to_member>>

\* A thread makes call o on a member and a score, or on a range of scores.
Call(t, o, a) ==
  /\ pc[t] = "idle" /\ calls[t] < MaxCalls
  /\ Goto(t, "enter")
  /\ op' = [op EXCEPT ![t] = o]
  /\ arg' = [arg EXCEPT ![t] = a]
  /\ calls' = [calls EXCEPT ![t] = @ + 1]
  /\ UNCHANGED <<Structures, mutex>>

\* A mutant: a call does not wait for the mutex.
EnterUnlocked(t) ==
  /\ pc[t] = "enter"
  /\ mutex' = t
  /\ Goto(t, op[t])
  /\ UNCHANGED <<Structures, op, arg, calls>>

Enter(t) ==
  /\ pc[t] = "enter"
  /\ mutex = None
  /\ mutex' = t
  /\ Goto(t, op[t])
  /\ UNCHANGED <<Structures, op, arg, calls>>

\* A mutant: the early return does not unlock.
AddSameKeepsMutex(t) ==
  /\ pc[t] = "add"
  /\ member_to_score[arg[t].member] = arg[t].score
  /\ Goto(t, "idle")
  /\ op' = [op EXCEPT ![t] = "none"]
  /\ arg' = [arg EXCEPT ![t] = None]
  /\ UNCHANGED <<Structures, mutex, calls>>

\* The member is there with this score.
AddSame(t) ==
  /\ pc[t] = "add"
  /\ member_to_score[arg[t].member] = arg[t].score
  /\ Return(t)
  /\ UNCHANGED <<Structures, calls>>

\* A mutant: the element of the old score stays.
AddTreeKeepsOld(t) ==
  LET m == arg[t].member IN
  /\ pc[t] = "add"
  /\ member_to_score[m] # arg[t].score
  /\ ordered_set' = ordered_set \cup {MakeElement(m, arg[t].score)}
  /\ Goto(t, "add_maps")
  /\ UNCHANGED <<member_to_score, hash_to_member, mutex, op, arg, calls>>

\* The element of the old score, if there is one, goes, and the new one comes.
AddTree(t) ==
  LET m == arg[t].member
      old == IF Contains(m) THEN {MakeElement(m, member_to_score[m])} ELSE {}
  IN /\ pc[t] = "add"
     /\ member_to_score[m] # arg[t].score
     /\ ordered_set' = (ordered_set \ old) \cup {MakeElement(m, arg[t].score)}
     /\ Goto(t, "add_maps")
     /\ UNCHANGED <<member_to_score, hash_to_member, mutex, op, arg, calls>>

AddMaps(t) ==
  LET m == arg[t].member IN
  /\ pc[t] = "add_maps"
  /\ member_to_score' = [member_to_score EXCEPT ![m] = arg[t].score]
  /\ hash_to_member' = [hash_to_member EXCEPT ![Hash[m]] = m]
  /\ Return(t)
  /\ UNCHANGED <<ordered_set, calls>>

RemoveMissing(t) ==
  /\ pc[t] = "remove"
  /\ ~ Contains(arg[t].member)
  /\ Return(t)
  /\ UNCHANGED <<Structures, calls>>

RemoveTree(t) ==
  LET m == arg[t].member IN
  /\ pc[t] = "remove"
  /\ Contains(m)
  /\ ordered_set' = ordered_set \ {MakeElement(m, member_to_score[m])}
  /\ Goto(t, "remove_maps")
  /\ UNCHANGED <<member_to_score, hash_to_member, mutex, op, arg, calls>>

RemoveMaps(t) ==
  LET m == arg[t].member IN
  /\ pc[t] = "remove_maps"
  /\ member_to_score' = [member_to_score EXCEPT ![m] = None]
  /\ hash_to_member' = [hash_to_member EXCEPT ![Hash[m]] = None]
  /\ Return(t)
  /\ UNCHANGED <<ordered_set, calls>>

ClearTree(t) ==
  /\ pc[t] = "clear"
  /\ ordered_set' = {}
  /\ Goto(t, "clear_maps")
  /\ UNCHANGED <<member_to_score, hash_to_member, mutex, op, arg, calls>>

ClearMaps(t) ==
  /\ pc[t] = "clear_maps"
  /\ member_to_score' = [m \in Members |-> None]
  /\ hash_to_member' = [h \in Hashes |-> None]
  /\ Return(t)
  /\ UNCHANGED <<ordered_set, calls>>

\* One of the calls above, or GetAll, which copies member_to_score_.
Read(t) ==
  /\ pc[t] = "read"
  /\ Return(t)
  /\ UNCHANGED <<Structures, calls>>

InRange(m, range) == Contains(m) /\ range.min <= member_to_score[m] /\ member_to_score[m] <= range.max

RemoveRangeNothing(t) ==
  /\ pc[t] = "remove_range"
  /\ \A m \in Members : ~ InRange(m, arg[t])
  /\ Return(t)
  /\ UNCHANGED <<Structures, calls>>

\* RemoveRangeByScore calls Remove, which waits for the mutex that its own
\* caller holds: there is no step from "self_wait".
RemoveRangeByScore(t) ==
  /\ pc[t] = "remove_range"
  /\ \E m \in Members : InRange(m, arg[t])
  /\ Goto(t, "self_wait")
  /\ UNCHANGED <<Structures, mutex, op, arg, calls>>

-----------------------------------------------------------------------------
Init ==
  /\ member_to_score = [m \in Members |-> None]
  /\ ordered_set = {}
  /\ hash_to_member = [h \in Hashes |-> None]
  /\ mutex = None
  /\ pc = [t \in Threads |-> "idle"]
  /\ op = [t \in Threads |-> "none"]
  /\ arg = [t \in Threads |-> None]
  /\ calls = [t \in Threads |-> 0]

\* A removal has no score.
Pairs == [member : Members, score : Scores \cup {None}]
Ranges == [min : Scores, max : Scores]

Calls(t) ==
  \/ \E m \in Members :
       \/ \E s \in Scores : Call(t, "add", [member |-> m, score |-> s])
       \/ Call(t, "remove", [member |-> m, score |-> None])
  \/ Call(t, "clear", None)
  \/ Call(t, "read", None)
  \/ \E r \in Ranges : Call(t, "remove_range", r)

Step(t) ==
  \/ Enter(t)
  \/ AddSame(t) \/ AddTree(t) \/ AddMaps(t)
  \/ RemoveMissing(t) \/ RemoveTree(t) \/ RemoveMaps(t)
  \/ ClearTree(t) \/ ClearMaps(t)
  \/ Read(t)
  \/ RemoveRangeNothing(t) \/ RemoveRangeByScore(t)

Next == \E t \in Threads : Calls(t) \/ Step(t)

Spec == Init /\ [][Next]_vars

\* A thread that is in a call goes on: it is not stopped, and a free mutex is
\* given to some thread that waits for it.
FairSpec == Spec /\ \A t \in Threads : WF_vars(Step(t))

-----------------------------------------------------------------------------
(* Properties. *)

\* The types of what ZSetBPlus keeps.
TypeOK ==
  /\ member_to_score \in [Members -> Scores \cup {None}]
  /\ ordered_set \in SUBSET (Scores \X Hashes)
  /\ hash_to_member \in [Hashes -> Members \cup {None}]
  /\ mutex \in Threads \cup {None}
  /\ pc \in [Threads -> {"idle", "enter"} \cup Inside]
  /\ op \in [Threads -> Ops \cup {"none"}]
  /\ calls \in [Threads -> 0..MaxCalls]
  /\ arg \in [Threads -> Pairs \cup Ranges \cup {None}]

Agree ==
  /\ ordered_set = {MakeElement(m, member_to_score[m]) : m \in {n \in Members : Contains(n)}}
  /\ \A m \in Members :
       hash_to_member[Hash[m]] = IF Contains(m) THEN m ELSE None

\* The three structures say the same whenever no call is inside, in whatever
\* order threads add members, change scores, remove and clear: the tree has
\* one element for each member, with its present score, and its hash leads
\* back to it.
MapsAgree == mutex = None => Agree

Precedes(m, n) == Less(MakeElement(m, member_to_score[m]), MakeElement(n, member_to_score[n]))

Listing(s, S) ==
  /\ Len(s) = Cardinality(S) /\ {s[i] : i \in DOMAIN s} = S
  /\ \A i, j \in DOMAIN s : i < j => Precedes(s[i], s[j])

Mirrored(s, r) == Len(s) = Len(r) /\ \A i \in DOMAIN s : s[i] = r[Len(s) - i + 1]

Slice(s, start, stop) ==
  SubSeq(s, start + 1, IF stop < Len(s) THEN stop + 1 ELSE Len(s))

\* What a reading thread is told by the tree agrees with the scores: zrange
\* from 0 to -1 lists all members by score, or backwards; its ranks cut that
\* list, a negative start giving nothing and a stop behind the end, as -1 is
\* after its cast, the rest; GetRank is the place in the list from the end it
\* is asked to count from; GetByRank and GetScoreByRank count from the lowest
\* score even when they are asked for the reverse order, which is not what
\* bplustree_zset.hpp:99 promises; and the score ranges are exactly the members
\* with such scores, in order.
ReadsAgree ==
  \A t \in Threads : pc[t] = "read" =>
    LET present == {m \in Members : Contains(m)}
        all     == zrange(0, -1, FALSE)
        back    == zrange(0, -1, TRUE)
        n       == Cardinality(present)
    IN /\ Size = n
       /\ Listing(all, present) /\ Mirrored(all, back)
       /\ \A start \in 0..n : \A stop \in (start - 1)..n :
            /\ stop >= 0 => zrange(start, stop, FALSE) = Slice(all, start, stop)
            /\ stop >= 0 => zrange(start, stop, TRUE) = Slice(back, start, stop)
            /\ zrange(-1, stop, FALSE) = <<>>
       /\ \A i \in DOMAIN all :
            /\ GetRank(all[i], FALSE) = i - 1
            /\ GetRank(all[i], TRUE) = n - i
            /\ \A reverse \in BOOLEAN :
                 /\ GetByRank(i - 1, reverse) = all[i]
                 /\ GetScoreByRank(i - 1, reverse) = GetScore(all[i])
       /\ \A range \in Ranges :
            LET S == {m \in Members : InRange(m, range)} IN
            /\ Listing(GetRangeByScore(range.min, range.max), S)
            /\ CountRange(range.min, range.max) = Cardinality(S)

\* Every call returns, whatever the others do, unless a RemoveRangeByScore
\* that found something to remove waits for itself and holds the mutex for
\* ever.
CallsReturn ==
  \A t \in Threads :
    pc[t] # "idle" ~> (pc[t] = "idle" \/ \E u \in Threads : pc[u] = "self_wait")

=============================================================================
