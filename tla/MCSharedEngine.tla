--------------------------- MODULE MCSharedEngine ---------------------------
(***************************************************************************)
(* Two threads share an engine, for TLC.                                   *)
(***************************************************************************)
EXTENDS SharedEngine

=============================================================================
