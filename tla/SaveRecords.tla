----------------------------- MODULE SaveRecords -----------------------------
(***************************************************************************)
(* The data of omega::persistence::SaveDatabase and the meaning of one     *)
(* mutation batch: records, snapshots, the preconditions of a conditional  *)
(* write, what Commit accepts, and what EncodeSnapshot and DecodeSnapshot  *)
(* refuse.  Byte layout and checksums are abstracted to the verdict they   *)
(* lead to; keys and values are members of small sets.                     *)
(***************************************************************************)
EXTENDS Naturals, Sequences, FiniteSets, FiniteSetsExt

CONSTANTS
    Keys,            \* the keys of the canonical grammar that the runs use
    Values,          \* the opaque values a Put may carry
    ValueBytes,      \* the size of each value, a function on Values \cup {NoValue}
    NoValue,         \* the empty byte vector of an Erase
    MaxGeneration    \* std::numeric_limits<std::uint64_t>::max()

ASSUME MaxGenerationAssumption == MaxGeneration \in Nat

ASSUME ValueBytesAssumption == ValueBytes[NoValue] = 0

(***************************************************************************)
(* A RecordMap.  Neither EncodeSnapshot nor DecodeSnapshot lets a stored   *)
(* revision be zero, so a total function with revision 0 for an absent key *)
(* stands for the std::map.                                                *)
(***************************************************************************)
StoredRecord == [schema_version : Nat, revision : Nat, value : Values \cup {NoValue}]

NoRecord == [schema_version |-> 0, revision |-> 0, value |-> NoValue]

RecordMap == [Keys -> StoredRecord]

EmptyRecords == [k \in Keys |-> NoRecord]

Exists(record) == record.revision # 0

RecordCount(records) == Cardinality({k \in Keys : Exists(records[k])})

LogicalValueBytes(records) ==
    MapThenSumSet(LAMBDA k : ValueBytes[records[k].value], Keys)

(***************************************************************************)
(* Conditional writes.                                                     *)
(***************************************************************************)
IsValidCondition(condition) ==
    IF condition.kind = "ExactRevision"
    THEN condition.revision # 0
    ELSE condition.revision = 0

SatisfiesCondition(condition, record) ==
    \/ condition.kind = "Unconditional"
    \/ condition.kind = "MustBeAbsent" /\ ~Exists(record)
    \/ condition.kind = "MustExist" /\ Exists(record)
    \/ /\ condition.kind = "ExactRevision"
       /\ Exists(record)
       /\ condition.revision # 0
       /\ record.revision = condition.revision

(***************************************************************************)
(* The verdict on mutation i of a batch.  The keys of the mutations before *)
(* i differ from its own (touched), so the candidate map the code tests    *)
(* the precondition on agrees with the committed records at that key.      *)
(***************************************************************************)
MutationVerdict(batch, i, records, limits) ==
    LET m == batch[i] IN
    IF m.key \notin Keys THEN "InvalidKey"
    ELSE IF \E j \in 1 .. i - 1 : batch[j].key = m.key THEN "InvalidMutation"
    ELSE IF ~IsValidCondition(m.condition) THEN "InvalidMutation"
    ELSE IF ~SatisfiesCondition(m.condition, records[m.key]) THEN "PreconditionFailed"
    ELSE IF \/ m.kind = "Put" /\ m.schema_version = 0
            \/ m.kind = "Put" /\ ValueBytes[m.value] > limits.max_value_bytes
            \/ m.kind = "Erase" /\ (m.schema_version # 0 \/ ValueBytes[m.value] # 0)
         THEN "InvalidMutation"
    ELSE "Ok"

(***************************************************************************)
(* The records a batch of accepted mutations leads to: a Put stamps the    *)
(* next generation on its record as the revision, an Erase of an absent    *)
(* key does nothing.                                                       *)
(***************************************************************************)
Candidate(batch, records, next_generation) ==
    [k \in Keys |->
        IF \E i \in DOMAIN batch : batch[i].key = k
        THEN LET m == batch[CHOOSE i \in DOMAIN batch : batch[i].key = k]
             IN IF m.kind = "Put"
                THEN [schema_version |-> m.schema_version,
                      revision       |-> next_generation,
                      value          |-> m.value]
                ELSE NoRecord
        ELSE records[k]]

(***************************************************************************)
(* EncodeSnapshot: the limits it refuses to exceed.  Its test of the       *)
(* in-memory format contract is implied by the map's type.                 *)
(***************************************************************************)
EncodeVerdict(records, limits) ==
    IF \/ RecordCount(records) > limits.max_records
       \/ LogicalValueBytes(records) > limits.max_logical_value_bytes
    THEN "LimitExceeded" ELSE "Ok"

(***************************************************************************)
(* What Commit decides before it touches the disk: whether it accepts the  *)
(* batch, and otherwise the error of the first mutation it refuses.        *)
(***************************************************************************)
RefusedMutations(batch, records, limits) ==
    {i \in DOMAIN batch : MutationVerdict(batch, i, records, limits) # "Ok"}

Accepts(batch, generation, records, limits) ==
    /\ batch # <<>>
    /\ Len(batch) <= limits.max_mutations_per_commit
    /\ generation # MaxGeneration
    /\ RefusedMutations(batch, records, limits) = {}
    /\ EncodeVerdict(Candidate(batch, records, generation + 1), limits) = "Ok"

(***************************************************************************)
(* A snapshot file as the directory entry of a slot shows it.  "intact"    *)
(* bytes pass the magic, extent and checksum tests of DecodeSnapshot,      *)
(* "torn" bytes do not, "foreign" bytes carry a valid header checksum and  *)
(* another format version.  flushed is the fsync of the file's own data.   *)
(***************************************************************************)
SnapshotFile == [kind       : {"missing", "intact", "torn", "foreign"},
                 generation : Nat,
                 records    : RecordMap,
                 flushed    : BOOLEAN]

NotAFile(kind) == [kind |-> kind, generation |-> 0, records |-> EmptyRecords,
                   flushed |-> TRUE]

MissingFile == NotAFile("missing")
TornFile    == NotAFile("torn")
ForeignFile == NotAFile("foreign")

EncodeSnapshot(records, generation) ==
    [kind |-> "intact", generation |-> generation, records |-> records,
     flushed |-> FALSE]

\* Mutant: another format version is reported like a checksum failure.
ForeignIsCorrupt(file, limits) ==
    IF file.kind = "intact" THEN "Ok" ELSE "CorruptSnapshot"

(***************************************************************************)
(* DecodeSnapshot under the limits of the opener.  A record count above    *)
(* its limit is LimitExceeded, which Open treats as fatal; a value above   *)
(* the value or the logical limit is reported as CorruptSnapshot.          *)
(***************************************************************************)
DecodeVerdict(file, limits) ==
    IF file.kind = "torn" THEN "CorruptSnapshot"
    ELSE IF file.kind = "foreign" THEN "UnsupportedFormat"
    ELSE IF RecordCount(file.records) > limits.max_records THEN "LimitExceeded"
    ELSE IF \/ file.generation = 0 /\ RecordCount(file.records) # 0
            \/ \E k \in Keys : file.records[k].revision > file.generation
            \/ \E k \in Keys : ValueBytes[file.records[k].value] > limits.max_value_bytes
            \/ LogicalValueBytes(file.records) > limits.max_logical_value_bytes
         THEN "CorruptSnapshot"
    ELSE "Ok"

=============================================================================
