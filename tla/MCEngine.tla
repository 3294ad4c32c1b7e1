------------------------------ MODULE MCEngine ------------------------------
(***************************************************************************)
(* Instances of Engine for TLC.                                            *)
(***************************************************************************)
EXTENDS Engine

CONSTANTS k1, k2, k3

\* Every type in turn, one type for each key.
OneTypePerKey ==
  { {<<k1, "bytes">>, <<k2, "zset">>},
    {<<k1, "list">>, <<k2, "hash">>},
    {<<k1, "set">>, <<k2, "stream">>},
    {<<k1, "json">>, <<k2, "vector">>} }

\* Byte strings and containers under one limit.
BytesAndHash == { {<<k1, "bytes">>, <<k2, "bytes">>, <<k3, "hash">>} }

\* Keys used with two types at once: types that share a stored form, types
\* that do not, and a byte string that JSON operations also use.
TwoTypesPerKey ==
  { {<<k1, "bytes">>, <<k1, "json">>, <<k2, "hash">>},
    {<<k1, "list">>, <<k1, "set">>, <<k2, "bytes">>},
    {<<k1, "bytes">>, <<k1, "zset">>, <<k2, "stream">>} }

AllDisciplines == OneTypePerKey \cup TwoTypesPerKey

\* The disciplines of the tests the repository has: one type for all keys.
AllBytes == { {<<k, "bytes">> : k \in Keys} }
AllZSets == { {<<k, "zset">> : k \in Keys} }

\* Arguments of expire: no deadline, and two absolute times.
ExpireTimes == {-1, 2, 3}

=============================================================================
