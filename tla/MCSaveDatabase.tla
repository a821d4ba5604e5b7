--------------------------- MODULE MCSaveDatabase ---------------------------
(* Small instances of SaveDatabase for TLC. *)
EXTENDS SaveDatabase

CONSTANTS k1, k2, v1, v2

SmallAndLarge == [v \in {v1, v2, NoValue} |-> CASE v = v1 -> 1 [] v = v2 -> 2 [] OTHER -> 0]

Unconditional == [kind |-> "Unconditional", revision |-> 0]
MustBeAbsent  == [kind |-> "MustBeAbsent", revision |-> 0]
MustExist     == [kind |-> "MustExist", revision |-> 0]
ExactRevision(n) == [kind |-> "ExactRevision", revision |-> n]

Put(k, v, c) == [kind |-> "Put", key |-> k, schema_version |-> 1, value |-> v, condition |-> c]
Erase(k, c)  == [kind |-> "Erase", key |-> k, schema_version |-> 0, value |-> NoValue, condition |-> c]

\* A batch that creates, one that replaces what it observed, one that moves a
\* record, and one that repeats a key and is always refused.
FewBatches ==
    {<<Put(k1, v1, MustBeAbsent), Put(k2, v1, Unconditional)>>,
     <<Put(k1, v2, ExactRevision(1))>>,
     <<Erase(k1, MustExist), Put(k2, v1, MustExist)>>,
     <<Put(k1, v1, Unconditional), Erase(k1, MustExist)>>}

Limits(records, bytes) ==
    [max_records |-> records, max_mutations_per_commit |-> 2,
     max_value_bytes |-> 2, max_logical_value_bytes |-> bytes]

DefaultLimits == {Limits(2, 3)}

=============================================================================
