----------------------------- MODULE MCDashMap ------------------------------
(***************************************************************************)
(* DashMap for TLC: two shards, one of them with two keys.                 *)
(***************************************************************************)
EXTENDS DashMap, TLC

CONSTANTS k1, k2, k3

\* k1 and k2 collide, k3 is alone in the shard that is visited last.
TwoShards == [k \in Keys |-> IF k = k3 THEN 2 ELSE 1]

\* The threads that do not clear may all do the same.
ThreadSymmetry == Permutations(Threads \ Clearers)

=============================================================================
