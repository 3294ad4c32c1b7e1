---------------------------- MODULE MCEviction2Q ----------------------------
(***************************************************************************)
(* Instance of Eviction2Q for TLC.  Five keys let the protected queue hold *)
(* several keys while others are on probation; with the share 1/2 one      *)
(* promotion demotes several keys at once, which the default 933/1000      *)
(* does only from 15 keys on.                                              *)
(***************************************************************************)
EXTENDS Eviction2Q

=============================================================================
