----------------------------- MODULE LinkedList -----------------------------
(***************************************************************************)
(* The list of src/src/linked_list.hpp: a vector while it is short, a      *)
(* deque from the moment it has outgrown the vector, and never a vector    *)
(* again.  Both containers are sequences here; what the model keeps is     *)
(* which of them an operation touches, the conversion, and the code's      *)
(* arithmetic on indices.  Elements are small values; size() fits int64_t. *)
(***************************************************************************)
EXTENDS Integers, Sequences

CONSTANTS
  Values,
  Indices,     \* the indices and counts the callers pass
  MaxLen,      \* a bound on the length, for the checks
  Threshold,   \* kListVectorThreshold
  None         \* std::nullopt

ASSUME LinkedListAssumption ==
  /\ Indices \subseteq Int
  /\ Threshold \in Nat
  /\ MaxLen \in Nat
  /\ None \notin Values

Ext == INSTANCE SequencesExt

VARIABLES
  use_vector,  \* use_vector_
  vector,      \* vector_
  deque,       \* deque_
  res          \* the last call, its arguments and its result

vars == <<use_vector, vector, deque, res>>

-----------------------------------------------------------------------------
Active == IF use_vector THEN vector ELSE deque

Size == Len(Active)

\* The operation leaves s in the container it works on.
Store(s) ==
  /\ vector' = IF use_vector THEN s ELSE vector
  /\ deque' = IF use_vector THEN deque ELSE s
  /\ UNCHANGED use_vector

Keep == UNCHANGED <<use_vector, vector, deque>>

\* A mutant: the conversion leaves the elements in the vector too.
CheckConvertToDequeKeepsVector(s) ==
  /\ use_vector' = FALSE
  /\ deque' = deque \o s
  /\ vector' = s

\* CheckConvertToDeque once the vector, then s, has outgrown the threshold
CheckConvertToDeque(s) ==
  /\ use_vector' = FALSE
  /\ deque' = deque \o s
  /\ vector' = <<>>

\* An operation that adds an element leaves s, and then checks the threshold.
Grow(s) ==
  IF use_vector /\ Len(s) > Threshold THEN CheckConvertToDeque(s) ELSE Store(s)

\* Element i of a container, and ranges of iterators from begin() + i to
\* begin() + j
Elem(s, i) == s[i + 1]
Span(s, i, j) == SubSeq(s, i + 1, j)

\* erase(begin() + i, begin() + j)
Erase(s, i, j) == Span(s, 0, i) \o Span(s, j, Len(s))

\* insert(begin() + i, v)
InsertPos(s, i, v) == Span(s, 0, i) \o <<v>> \o Span(s, i, Len(s))

-----------------------------------------------------------------------------
PushLeft(v) ==
  /\ Size < MaxLen
  /\ Grow(InsertPos(Active, 0, v))
  /\ res' = <<"PushLeft", v>>

PushRight(v) ==
  /\ Size < MaxLen
  /\ Grow(Append(Active, v))
  /\ res' = <<"PushRight", v>>

PopLeft ==
  \/ /\ Active = <<>>
     /\ res' = <<"PopLeft", None>>
     /\ Keep
  \/ /\ Active # <<>>
     /\ res' = <<"PopLeft", Head(Active)>>
     /\ Store(Tail(Active))

PopRight ==
  \/ /\ Active = <<>>
     /\ res' = <<"PopRight", None>>
     /\ Keep
  \/ /\ Active # <<>>
     /\ res' = <<"PopRight", Ext!Last(Active)>>
     /\ Store(Ext!Front(Active))

\* "Handle negative indices": from the end, and then the operation's own
\* answer, below, to an index that is still negative
FromEnd(i, below) ==
  IF i >= 0 THEN i ELSE IF Size + i < 0 THEN below ELSE Size + i

Index(i) ==
  LET index == FromEnd(i, 0) IN
  /\ res' = <<"Index", i, IF index >= Size THEN None ELSE Elem(Active, index)>>
  /\ Keep

\* Set and Insert give up where FromEnd says -1.
Valid(index) == index >= 0 /\ index < Size

Set(i, v) ==
  LET index == FromEnd(i, -1) IN
  /\ res' = <<"Set", i, v, Valid(index)>>
  /\ IF Valid(index) THEN Store([Active EXCEPT ![index + 1] = v]) ELSE Keep

\* The ends of a range after normalisation and clamping
Start(i) == FromEnd(i, 0)
Stop(j) ==
  LET stop == FromEnd(j, -1) IN IF stop >= Size THEN Size - 1 ELSE stop

\* Range and Trim find nothing in the range.
EmptyRange(i, j) == Start(i) >= Size \/ Start(i) > Stop(j)

\* Range; the library of functions has that name.
ListRange(i, j) ==
  /\ res' = <<"Range", i, j,
              IF EmptyRange(i, j) THEN <<>> ELSE Span(Active, Start(i), Stop(j) + 1)>>
  /\ Keep

\* Clear(), also called by Trim
Cleared == Store(<<>>)

\* A mutant: the head is erased first, and stop is stale by then.
TrimHeadFirst(i, j) ==
  /\ IF Size = 0 THEN Keep
     ELSE IF EmptyRange(i, j) THEN Cleared
     ELSE LET short == Erase(Active, 0, Start(i)) IN
          Store(IF Stop(j) + 1 > Len(short) THEN short
                ELSE Erase(short, Stop(j) + 1, Len(short)))
  /\ res' = <<"Trim", i, j>>

\* The tail is erased first, then the head.
Trim(i, j) ==
  /\ IF Size = 0 THEN Keep
     ELSE IF EmptyRange(i, j) THEN Cleared
     ELSE Store(Erase(Erase(Active, Stop(j) + 1, Size), 0, Start(i)))
  /\ res' = <<"Trim", i, j>>

\* The loop of Remove over the container: after n elements, the ones kept and
\* the number removed.  Once count elements are gone the rest is left alone.
Removal(v, count) ==
  LET loop[n \in 0..Size] ==
        IF n = 0 THEN [kept |-> <<>>, removed |-> 0]
        ELSE IF /\ Active[n] = v
                /\ count <= 0 \/ loop[n - 1].removed < count
        THEN [kept    |-> loop[n - 1].kept,
              removed |-> loop[n - 1].removed + 1]
        ELSE [kept    |-> Append(loop[n - 1].kept, Active[n]),
              removed |-> loop[n - 1].removed]
  IN  loop[Size]

Remove(v, count) ==
  /\ Store(Removal(v, count).kept)
  /\ res' = <<"Remove", v, count, Removal(v, count).removed>>

Insert(i, v, before) ==
  LET pivot == FromEnd(i, -1) IN
  \/ /\ ~Valid(pivot)
     /\ res' = <<"Insert", i, v, before, FALSE>>
     /\ Keep
  \/ /\ Valid(pivot)
     /\ Size < MaxLen
     /\ Grow(InsertPos(Active, IF before THEN pivot ELSE pivot + 1, v))
     /\ res' = <<"Insert", i, v, before, TRUE>>

Clear ==
  /\ Cleared
  /\ res' = <<"Clear">>

-----------------------------------------------------------------------------
Init ==
  /\ use_vector = TRUE
  /\ vector = <<>>
  /\ deque = <<>>
  /\ res = <<"LinkedList">>

Next ==
  \/ \E v \in Values : PushLeft(v) \/ PushRight(v)
  \/ PopLeft
  \/ PopRight
  \/ \E i \in Indices : Index(i)
  \/ \E i \in Indices, v \in Values : Set(i, v) \/ Remove(v, i)
  \/ \E i, j \in Indices : ListRange(i, j) \/ Trim(i, j)
  \/ \E i \in Indices, v \in Values, before \in BOOLEAN : Insert(i, v, before)
  \/ Clear

Spec == Init /\ [][Next]_vars

-----------------------------------------------------------------------------
\* Properties

\* The container not in use is empty, so that no operation can lose elements
\* to it or find stale ones in it, and the vector never holds more than
\* kListVectorThreshold elements once an operation is over.
OneContainer ==
  /\ vector \in Seq(Values) /\ deque \in Seq(Values)
  /\ use_vector => deque = <<>> /\ Len(vector) <= Threshold
  /\ ~use_vector => vector = <<>>

List == INSTANCE ListSpec WITH list <- Active

\* Index clamps an index before the head and returns the head
\* (src/src/linked_list.hpp:131), where Set and Insert fail and a
\* "Redis-compatible list implementation" (src/src/linked_list.hpp:2) has
\* nothing to return.
HeadReadBeforeIt ==
  \E i \in Indices :
    /\ Size # 0 /\ i < -Size
    /\ res' = <<"Index", i, Head(Active)>>
    /\ UNCHANGED Active

\* Whatever the container, and across the conversion, every operation has the
\* effect and the result the sequence of ListSpec gives it: the index
\* arithmetic of Range and Trim selects the positions it should.  There is one
\* exception, the steps named above, and no other.
ListRefined == List!Init /\ [][List!Next \/ HeadReadBeforeIt]_<<Active, res>>

=============================================================================
