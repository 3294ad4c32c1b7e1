------------------------------- MODULE MCZSet -------------------------------
(***************************************************************************)
(* The sorted set with two threads and three members, for TLC.  The hashes *)
(* order two members against their names.                                  *)
(***************************************************************************)
EXTENDS ZSet, TLC

CONSTANTS a, b, c

MCHash == (a :> 5) @@ (b :> 0) @@ (c :> 9)

=============================================================================
