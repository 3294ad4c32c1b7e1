----------------------------- MODULE OrderedSet -----------------------------
(***************************************************************************)
(* What the tree of src/src/zset/bplustree.hpp promises its owner: a       *)
(* finite set of items in order.                                           *)
(*                                                                         *)
(* The tree only compares its items, so an item is given by its place      *)
(* among the others.  Before a call the items are renumbered 2, 4, 6, ...: *)
(* the odd numbers are then the places a new item can have.                *)
(***************************************************************************)
EXTENDS Integers, FiniteSets

VARIABLES
  items,
  call     \* the last call: <<name, item>>

\* The number item i of S gets.
Renumbered(S, i) == 2 * Cardinality(S \cap (1..i))

Spread(S) == {2 * n : n \in 1..Cardinality(S)}

\* Below, at, between and above the items of a renumbered set of n items.
Places(n) == 1..(2 * n + 1)

-----------------------------------------------------------------------------
Init == items = {} /\ call = <<>>

Insert(S, i) ==
  /\ call' = <<"Insert", i>>
  /\ i \notin S
  /\ items' = S \cup {i}

Delete(S, i) ==
  /\ call' = <<"Delete", i>>
  /\ i \in S
  /\ items' = S \ {i}

Clear == items' = {} /\ call' = <<"Clear">>

Next ==
  \/ LET S == Spread(items) IN
     \E i \in Places(Cardinality(S)) : Insert(S, i) \/ Delete(S, i)
  \/ Clear

Spec == Init /\ [][Next]_<<items, call>>

=============================================================================
