---------------------------- MODULE MCStreamData ----------------------------
(***************************************************************************)
(* A stream and its reader for TLC: ids around a clock of three readings,  *)
(* an id without a dash, and sequence numbers that wrap after SeqMod of    *)
(* them.                                                                   *)
(***************************************************************************)
EXTENDS StreamReader

CONSTANT five  \* the id "5"

MCUndashed == {five}
MCIds == MCUndashed \cup {<<0, 0>>, <<1, 1>>, <<2, 0>>, <<2, 1>>, <<3, 2>>}
MCCounts == {-1, 0, 1, 2}

\* Once a sequence number has wrapped or the stream has ended before the
\* reader's place nothing is claimed of the reader any more, and no step of the
\* stream looks at it.
Claimed ==
  <<vars, IF wrapped \/ rewound THEN <<>> ELSE <<cursor, got>>>>

=============================================================================
