---------------------------- MODULE MCLinkedList ----------------------------
(***************************************************************************)
(* The list for TLC: indices on both sides of a list of at most MaxLen.    *)
(***************************************************************************)
EXTENDS LinkedList

MCIndices == -(MaxLen + 1)..(MaxLen + 1)

\* No action reads res, so states that differ in it alone have the same steps.
\* TLC checks every step it generates, also into a state it has seen.
Containers == <<use_vector, vector, deque>>

=============================================================================
