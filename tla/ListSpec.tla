------------------------------ MODULE ListSpec ------------------------------
(***************************************************************************)
(* What a list of src/src/linked_list.hpp promises its caller: one         *)
(* sequence, whatever container it is kept in.  Indices count from 0; a    *)
(* negative one counts from the end.  Ranges are defined by the positions  *)
(* they hold, with no clamping.  The results of the calls are part of the  *)
(* promise: res is the last call, its arguments and its result.            *)
(***************************************************************************)
EXTENDS Integers, Sequences, FiniteSets

CONSTANTS
  Values,
  Indices,     \* the indices and counts the callers pass
  MaxLen,      \* a bound on the length, for the checks
  None         \* std::nullopt

VARIABLES list, res

-----------------------------------------------------------------------------
Positions == 0..(Len(list) - 1)

\* The position index i names, inside the list or outside it.
Position(i) == IF i < 0 THEN Len(list) + i ELSE i

\* The elements at the positions in P, in order.
At(P) ==
  [n \in 1..Cardinality(P) |->
     list[1 + CHOOSE p \in P : Cardinality({q \in P : q < p}) = n - 1]]

Between(start, stop) ==
  {p \in Positions : Position(start) <= p /\ p <= Position(stop)}

\* Where the first count occurrences of v are; all of them if count <= 0.
Occurrences(v, count) ==
  LET all == {p \in Positions : list[p + 1] = v} IN
  {p \in all : count > 0 => Cardinality({q \in all : q < p}) < count}

-----------------------------------------------------------------------------
PushLeft(v) ==
  /\ Len(list) < MaxLen
  /\ list' = <<v>> \o list
  /\ res' = <<"PushLeft", v>>

PushRight(v) ==
  /\ Len(list) < MaxLen
  /\ list' = Append(list, v)
  /\ res' = <<"PushRight", v>>

PopLeft ==
  \/ /\ list = <<>>
     /\ res' = <<"PopLeft", None>>
     /\ UNCHANGED list
  \/ /\ list # <<>>
     /\ res' = <<"PopLeft", list[1]>>
     /\ list' = Tail(list)

PopRight ==
  \/ /\ list = <<>>
     /\ res' = <<"PopRight", None>>
     /\ UNCHANGED list
  \/ /\ list # <<>>
     /\ res' = <<"PopRight", list[Len(list)]>>
     /\ list' = At(Positions \ {Len(list) - 1})

\* As in Redis, there is nothing at a position outside the list.
Index(i) ==
  /\ res' = <<"Index", i,
              IF Position(i) \in Positions THEN list[Position(i) + 1] ELSE None>>
  /\ UNCHANGED list

Set(i, v) ==
  /\ res' = <<"Set", i, v, Position(i) \in Positions>>
  /\ list' = [p \in DOMAIN list |-> IF p = Position(i) + 1 THEN v ELSE list[p]]

Range(start, stop) ==
  /\ res' = <<"Range", start, stop, At(Between(start, stop))>>
  /\ UNCHANGED list

Trim(start, stop) ==
  /\ list' = At(Between(start, stop))
  /\ res' = <<"Trim", start, stop>>

Remove(v, count) ==
  /\ list' = At(Positions \ Occurrences(v, count))
  /\ res' = <<"Remove", v, count, Cardinality(Occurrences(v, count))>>

\* The new element is at the pivot's position or right behind it, and the
\* others keep their order.
Insert(i, v, before) ==
  \/ /\ Position(i) \notin Positions
     /\ res' = <<"Insert", i, v, before, FALSE>>
     /\ UNCHANGED list
  \/ /\ Position(i) \in Positions
     /\ Len(list) < MaxLen
     /\ LET at == IF before THEN Position(i) ELSE Position(i) + 1 IN
          list' = At({p \in Positions : p < at}) \o <<v>> \o At({p \in Positions : p >= at})
     /\ res' = <<"Insert", i, v, before, TRUE>>

Clear ==
  /\ list' = <<>>
  /\ res' = <<"Clear">>

-----------------------------------------------------------------------------
Init ==
  /\ list = <<>>
  /\ res = <<"LinkedList">>

Next ==
  \/ \E v \in Values : PushLeft(v) \/ PushRight(v)
  \/ PopLeft
  \/ PopRight
  \/ \E i \in Indices : Index(i)
  \/ \E i \in Indices, v \in Values : Set(i, v) \/ Remove(v, i)
  \/ \E i, j \in Indices : Range(i, j) \/ Trim(i, j)
  \/ \E i \in Indices, v \in Values, before \in BOOLEAN : Insert(i, v, before)
  \/ Clear

Spec == Init /\ [][Next]_<<list, res>>

=============================================================================
