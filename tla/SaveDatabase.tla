---------------------------- MODULE SaveDatabase ----------------------------
(***************************************************************************)
(* omega::persistence::SaveDatabase: a key/value store kept as two         *)
(* complete snapshots in one directory, owned by one process at a time.    *)
(*                                                                         *)
(* Every system call that other processes, a crash or a power loss can     *)
(* separate from the next one is an action.  The disk is seen twice: the   *)
(* directory entry that the running system shows, and the one that would   *)
(* survive a power loss now.                                               *)
(***************************************************************************)
EXTENDS SaveRecords

CONSTANTS
    Procs,            \* processes that may open the database
    NoProc,           \* nobody holds the lock file
    Batches,          \* the mutation batches the clients submit
    Configs,          \* the SaveDatabaseLimits an opener may use
    InitialDirectories, \* \subseteq {"absent", "durable"}
    DamageKinds       \* what may happen to one slot: \subseteq {"torn", "missing", "foreign"}

ASSUME NoProcAssumption == NoProc \notin Procs

ASSUME EnvironmentAssumption ==
    /\ InitialDirectories \subseteq {"absent", "durable"}
    /\ DamageKinds \subseteq {"torn", "missing", "foreign"}

ASSUME BatchesAssumption ==
    \A batch \in Batches : \A i \in DOMAIN batch :
        /\ batch[i].kind \in {"Put", "Erase"}
        /\ batch[i].schema_version \in Nat
        /\ batch[i].value \in Values \cup {NoValue}

ASSUME ConfigsAssumption ==
    /\ Configs # {}
    /\ \A limits \in Configs :
        /\ limits.max_records \in Nat
        /\ limits.max_value_bytes \in Nat
        /\ limits.max_logical_value_bytes \in Nat

VARIABLES
    directory,        \* the database directory: "absent", "volatile" or "durable"
    visible,          \* slot -> the file its directory entry shows
    durable,          \* slot -> the file a power loss would leave
    lock,             \* the process whose flock holds the lock file
    pc,               \* process -> where it is in Open or Commit
    config,           \* process -> the limits it opened with
    impl,             \* process -> SaveDatabase::Impl
    publish,          \* process -> the snapshot PublishSnapshot is working on
    acked,            \* history: the newest snapshot whose Commit returned success
    damage            \* history: the damage done to a slot from outside

vars == <<directory, visible, durable, lock, pc, config, impl, publish, acked, damage>>

Slots == {"A", "B"}

OtherSlot(slot) == IF slot = "A" THEN "B" ELSE "A"

Genesis == EncodeSnapshot(EmptyRecords, 0)

NewImpl == [active_slot |-> "A", generation |-> 0, records |-> EmptyRecords,
            usable |-> TRUE]

NoPublish == [slot |-> "A", file |-> MissingFile, caller |-> "none"]

-----------------------------------------------------------------------------
(***************************************************************************)
(* Reading a slot and choosing between the two.                            *)
(***************************************************************************)

\* ReadSlot on a file the system can read; "Missing" is ENOENT.
SlotStatus(file, limits) ==
    IF file.kind = "missing" THEN "Missing"
    ELSE IF DecodeVerdict(file, limits) = "Ok" THEN "Valid"
    ELSE IF DecodeVerdict(file, limits) = "CorruptSnapshot" THEN "Corrupt"
    ELSE "Fatal"

\* An unreadable slot (open, stat or read error, second hard link) is Invalid
\* with IoFailure, so the statuses of both slots are read with that chance.
ReadSlots(p, statuses) ==
    \A s \in Slots : statuses[s] \in {SlotStatus(visible[s], config[p]), "Fatal"}

BothMissing(statuses) == \A s \in Slots : statuses[s] = "Missing"

LoneSurvivor(statuses, s) == statuses[s] = "Valid" /\ statuses[OtherSlot(s)] = "Missing"

SnapshotsDisagree(files, statuses) ==
    /\ \A s \in Slots : statuses[s] = "Valid"
    /\ files["A"].generation = files["B"].generation
    /\ files["A"].records # files["B"].records

\* The slot Open adopts when at least one of the two is valid.
SelectSlot(files, statuses) ==
    IF \/ statuses["A"] # "Valid"
       \/ /\ statuses["B"] = "Valid"
          /\ files["B"].generation > files["A"].generation
    THEN "B" ELSE "A"

\* Open refuses these readings whatever it may still write.
Refused(files, statuses) ==
    \/ \E s \in Slots : statuses[s] = "Fatal"
    \/ \E s \in Slots : LoneSurvivor(statuses, s) /\ files[s].generation # 0
    \/ ~BothMissing(statuses) /\ \A s \in Slots : statuses[s] # "Valid"
    \/ SnapshotsDisagree(files, statuses)

-----------------------------------------------------------------------------
(***************************************************************************)
(* The state a process falls back to when Open fails, when the instance is *)
(* destroyed and when the process dies: the kernel drops its flock, and an *)
(* orphaned temporary keeps a name nobody opens again.                     *)
(***************************************************************************)
Forget(p) ==
    /\ pc' = [pc EXCEPT ![p] = "closed"]
    /\ impl' = [impl EXCEPT ![p] = NewImpl]
    /\ publish' = [publish EXCEPT ![p] = NoPublish]
    /\ lock' = IF lock = p THEN NoProc ELSE lock

DiskUnchanged == UNCHANGED <<directory, visible, durable, acked, damage>>

Goto(p, label) ==
    /\ pc' = [pc EXCEPT ![p] = label]
    /\ UNCHANGED <<impl, lock>>

-----------------------------------------------------------------------------
(***************************************************************************)
(* SaveDatabase::Open                                                      *)
(***************************************************************************)

\* EnsureDirectory creates an absent directory, and only then synchronizes
\* the chain of ancestors; an existing directory is taken as it is.
EnsureDirectory(p) ==
    /\ pc[p] = "closed"
    /\ \E c \in Configs : config' = [config EXCEPT ![p] = c]
    /\ directory' = IF directory = "absent" THEN "volatile" ELSE directory
    /\ pc' = [pc EXCEPT ![p] = IF directory = "absent" THEN "created" ELSE "acquire"]
    /\ UNCHANGED <<visible, durable, lock, impl, publish, acked, damage>>

\* SynchronizeCreatedDirectoryChain; a failed fsync fails Open.
SynchronizeCreatedDirectoryChain(p) ==
    /\ pc[p] = "created"
    /\ directory' = "durable"
    /\ Goto(p, "acquire")
    /\ UNCHANGED <<visible, durable, config, publish, acked, damage>>

\* DatabaseLock::Acquire: the exclusive non-blocking flock.
AcquireLock(p) ==
    /\ pc[p] = "acquire"
    /\ lock = NoProc
    /\ lock' = p
    /\ pc' = [pc EXCEPT ![p] = "read"]
    /\ UNCHANGED <<directory, visible, durable, config, impl, publish, acked, damage>>

\* Open returns an error before it publishes anything: a failed directory
\* sync, Busy, an I/O error on the lock.
OpenFails(p) ==
    /\ pc[p] \in {"created", "acquire"}
    /\ Forget(p)
    /\ UNCHANGED config
    /\ DiskUnchanged

StartPublish(p, slot, file, caller) ==
    /\ publish' = [publish EXCEPT ![p] = [slot |-> slot, file |-> file, caller |-> caller]]
    /\ Goto(p, "prepare")

Adopt(p, slot) ==
    /\ impl' = [impl EXCEPT ![p] = [active_slot |-> slot,
                                    generation  |-> visible[slot].generation,
                                    records     |-> visible[slot].records,
                                    usable      |-> TRUE]]
    /\ pc' = [pc EXCEPT ![p] = "open"]
    /\ UNCHANGED <<lock, publish>>

\* Both slots are read and judged; the second reading follows a genesis,
\* where two missing slots are refused like two corrupt ones.
OpenReadSlots(p) ==
    /\ pc[p] \in {"read", "reread"}
    /\ \E statuses \in [Slots -> {"Missing", "Valid", "Corrupt", "Fatal"}] :
        /\ ReadSlots(p, statuses)
        /\ \/ /\ \/ Refused(visible, statuses)
                 \/ BothMissing(statuses) /\ pc[p] = "reread"
              /\ Forget(p)
           \/ /\ ~Refused(visible, statuses)
              /\ BothMissing(statuses) /\ pc[p] = "read"
              /\ EncodeVerdict(EmptyRecords, config[p]) = "Ok"
              /\ StartPublish(p, "A", Genesis, "genesisA")
           \/ /\ ~Refused(visible, statuses)
              /\ \E s \in Slots :
                    /\ LoneSurvivor(statuses, s)
                    /\ EncodeVerdict(EmptyRecords, config[p]) = "Ok"
                    /\ StartPublish(p, OtherSlot(s), Genesis, "restore")
           \/ /\ ~Refused(visible, statuses)
              /\ \A s \in Slots : statuses[s] # "Missing"
              /\ Adopt(p, SelectSlot(visible, statuses))
    /\ UNCHANGED config
    /\ DiskUnchanged

\* Only the restored slot is read again; both slots are then empty genesis
\* snapshots and slot A wins the tie.
OpenReadRestored(p) ==
    /\ pc[p] = "restored"
    /\ \/ Forget(p)
       \/ /\ SlotStatus(visible[publish[p].slot], config[p]) = "Valid"
          /\ Adopt(p, "A")
    /\ UNCHANGED config
    /\ DiskUnchanged

-----------------------------------------------------------------------------
(***************************************************************************)
(* SaveDatabase::Commit, up to the publication.  A refused batch returns   *)
(* its verdict and changes nothing.                                        *)
(***************************************************************************)
Commit(p, batch) ==
    LET next_generation == impl[p].generation + 1 IN
    /\ pc[p] = "open"
    /\ impl[p].usable
    /\ Accepts(batch, impl[p].generation, impl[p].records, config[p])
    /\ StartPublish(p, OtherSlot(impl[p].active_slot),
                    EncodeSnapshot(Candidate(batch, impl[p].records, next_generation),
                                   next_generation),
                    "commit")
    /\ UNCHANGED config
    /\ DiskUnchanged

-----------------------------------------------------------------------------
(***************************************************************************)
(* PublishSnapshot                                                         *)
(***************************************************************************)

\* What the data blocks of a file may hold once its entry is on the disk.
Persisted(file) == IF file.flushed THEN {file} ELSE {file, TornFile}

\* fsync of the directory: every entry the system shows becomes durable.
SynchronizeDirectory == durable' \in {d \in [Slots -> {visible[s] : s \in Slots} \cup {TornFile}] :
                                          \A s \in Slots : d[s] \in Persisted(visible[s])}

\* Mutant: a failed Commit takes back a generation it never advanced.
PublishFailsRollingBack(p) ==
    /\ pc[p] \in {"prepare", "write"}
    /\ publish[p].caller = "commit"
    /\ publish' = [publish EXCEPT ![p] = NoPublish]
    /\ impl' = [impl EXCEPT ![p].generation = @ - 1]
    /\ pc' = [pc EXCEPT ![p] = "open"]
    /\ UNCHANGED <<lock, config>>
    /\ DiskUnchanged

\* A definite failure: nothing was replaced.  Open fails, a Commit returns
\* the error and its instance stays usable.
PublishFails(p) ==
    /\ pc[p] \in {"prepare", "write"}
    /\ IF publish[p].caller = "commit"
       THEN /\ publish' = [publish EXCEPT ![p] = NoPublish]
            /\ Goto(p, "open")
       ELSE Forget(p)
    /\ UNCHANGED config
    /\ DiskUnchanged

\* Mutant: the instance is not poisoned.
IndeterminateLikeDefinite(p) ==
    IF publish[p].caller = "commit"
    THEN publish' = [publish EXCEPT ![p] = NoPublish] /\ Goto(p, "open")
    ELSE Forget(p)

\* An indeterminate failure: the replacement may be on the disk.
PublishIsIndeterminate(p) ==
    IF publish[p].caller = "commit"
    THEN /\ impl' = [impl EXCEPT ![p].usable = FALSE]
         /\ publish' = [publish EXCEPT ![p] = NoPublish]
         /\ pc' = [pc EXCEPT ![p] = "open"]
         /\ UNCHANGED lock
    ELSE Forget(p)

\* Mutant: the directory is not synchronized first.
PrepareWithoutSync(p) ==
    /\ pc[p] = "prepare"
    /\ Goto(p, "write")
    /\ UNCHANGED <<config, publish>>
    /\ DiskUnchanged

\* The directory is synchronized before the temporary is created.
PrepareDirectory(p) ==
    /\ pc[p] = "prepare"
    /\ SynchronizeDirectory
    /\ Goto(p, "write")
    /\ UNCHANGED <<directory, visible, config, publish, acked, damage>>

\* Mutant: the temporary is renamed without an fsync of its data.
WriteWithoutFsync(p) ==
    /\ pc[p] = "write"
    /\ Goto(p, "rename")
    /\ UNCHANGED <<config, publish>>
    /\ DiskUnchanged

\* openat(O_EXCL), write, fsync and close of the private temporary.
WriteTemporary(p) ==
    /\ pc[p] = "write"
    /\ publish' = [publish EXCEPT ![p].file.flushed = TRUE]
    /\ Goto(p, "rename")
    /\ UNCHANGED config
    /\ DiskUnchanged

Replace(p) == visible' = [visible EXCEPT ![publish[p].slot] = publish[p].file]

\* renameat over the slot; a reported failure may have replaced it or not.
RenameOverSlot(p) ==
    /\ pc[p] = "rename"
    /\ \/ Replace(p) /\ Goto(p, "sync") /\ UNCHANGED publish
       \/ Replace(p) /\ PublishIsIndeterminate(p)
       \/ UNCHANGED visible /\ PublishIsIndeterminate(p)
    /\ UNCHANGED <<directory, durable, config, acked, damage>>

\* The fsync of the directory fails after the rename.
SyncReplacementFails(p) ==
    /\ pc[p] = "sync"
    /\ PublishIsIndeterminate(p)
    /\ UNCHANGED config
    /\ DiskUnchanged

\* The fsync succeeds: a genesis or a restored slot is read back, a Commit
\* publishes the new generation in memory and acknowledges it.
SyncReplacement(p) ==
    LET pub == publish[p] IN
    /\ pc[p] = "sync"
    /\ SynchronizeDirectory
    /\ \/ /\ pub.caller = "genesisA"
          /\ StartPublish(p, "B", Genesis, "genesisB")
          /\ UNCHANGED acked
       \/ /\ pub.caller = "genesisB"
          /\ publish' = [publish EXCEPT ![p] = NoPublish]
          /\ Goto(p, "reread")
          /\ UNCHANGED acked
       \/ /\ pub.caller = "restore"
          /\ Goto(p, "restored")
          /\ UNCHANGED <<publish, acked>>
       \/ /\ pub.caller = "commit"
          /\ impl' = [impl EXCEPT ![p] = [active_slot |-> pub.slot,
                                          generation  |-> pub.file.generation,
                                          records     |-> pub.file.records,
                                          usable      |-> TRUE]]
          /\ publish' = [publish EXCEPT ![p] = NoPublish]
          /\ pc' = [pc EXCEPT ![p] = "open"]
          /\ UNCHANGED lock
          /\ acked' = pub.file
    /\ UNCHANGED <<directory, visible, config, damage>>

-----------------------------------------------------------------------------
(***************************************************************************)
(* The world around the program.                                           *)
(***************************************************************************)

\* ~SaveDatabase on an open instance, or the death of the process anywhere.
CloseOrDie(p) ==
    /\ pc[p] # "closed"
    /\ Forget(p)
    /\ UNCHANGED config
    /\ DiskUnchanged

\* The kernel writes a directory entry back on its own.
Writeback(s) ==
    /\ visible[s] # durable[s]
    /\ \E f \in Persisted(visible[s]) : durable' = [durable EXCEPT ![s] = f]
    /\ UNCHANGED <<directory, visible, lock, pc, config, impl, publish, acked, damage>>

\* Every process dies and the cache is gone.  A directory whose own entry was
\* never synchronized may be gone with all it held.
PowerLoss ==
    /\ pc' = [p \in Procs |-> "closed"]
    /\ impl' = [p \in Procs |-> NewImpl]
    /\ publish' = [p \in Procs |-> NoPublish]
    /\ lock' = NoProc
    /\ \/ /\ directory # "absent"
          /\ visible' = durable
          /\ directory' = "durable"
          /\ UNCHANGED <<durable, damage>>
       \/ /\ directory = "volatile"
          /\ visible' = [s \in Slots |-> MissingFile]
          /\ durable' = [s \in Slots |-> MissingFile]
          /\ directory' = "absent"
          /\ damage' = IF acked.generation = 0 THEN damage ELSE "directory"
    /\ UNCHANGED <<config, acked>>

\* One slot is damaged from outside, once: a bad sector, a deleted file, or a
\* snapshot of a newer executable.  The last two need a stopped owner.
Damage(s, kind) ==
    /\ damage = "none"
    /\ visible[s].kind = "intact"
    /\ kind # "torn" => lock = NoProc
    /\ LET file == CASE kind = "torn"    -> TornFile
                     [] kind = "missing" -> MissingFile
                     [] OTHER            -> ForeignFile
       IN  /\ visible' = [visible EXCEPT ![s] = file]
           /\ durable' = [durable EXCEPT ![s] = file]
    /\ damage' = kind
    /\ UNCHANGED <<directory, lock, pc, config, impl, publish, acked>>

-----------------------------------------------------------------------------

Init ==
    /\ directory \in InitialDirectories
    /\ visible = [s \in Slots |-> MissingFile]
    /\ durable = [s \in Slots |-> MissingFile]
    /\ lock = NoProc
    /\ pc = [p \in Procs |-> "closed"]
    /\ config \in [Procs -> Configs]
    /\ impl = [p \in Procs |-> NewImpl]
    /\ publish = [p \in Procs |-> NoPublish]
    /\ acked = [Genesis EXCEPT !.flushed = TRUE]
    /\ damage = "none"

OpenStep(p) ==
    \/ EnsureDirectory(p)
    \/ SynchronizeCreatedDirectoryChain(p)
    \/ AcquireLock(p)
    \/ OpenFails(p)
    \/ OpenReadSlots(p)
    \/ OpenReadRestored(p)

PublishStep(p) ==
    \/ PrepareDirectory(p)
    \/ WriteTemporary(p)
    \/ RenameOverSlot(p)
    \/ SyncReplacement(p)
    \/ PublishFails(p)
    \/ SyncReplacementFails(p)

Next ==
    \/ \E p \in Procs : OpenStep(p) \/ PublishStep(p) \/ CloseOrDie(p)
    \/ \E p \in Procs, batch \in Batches : Commit(p, batch)
    \/ \E s \in Slots : Writeback(s)
    \/ PowerLoss
    \/ \E s \in Slots, kind \in DamageKinds : Damage(s, kind)

Spec == Init /\ [][Next]_vars

-----------------------------------------------------------------------------
(***************************************************************************)
(* Properties                                                              *)
(***************************************************************************)

Labels == {"closed", "created", "acquire", "read", "reread", "restored",
           "prepare", "write", "rename", "sync", "open"}

TypeOK ==
    /\ directory \in {"absent", "volatile", "durable"}
    /\ visible \in [Slots -> SnapshotFile]
    /\ durable \in [Slots -> SnapshotFile]
    /\ lock \in Procs \cup {NoProc}
    /\ pc \in [Procs -> Labels]
    /\ config \in [Procs -> Configs]
    /\ impl \in [Procs -> [active_slot : Slots, generation : Nat,
                           records : RecordMap, usable : BOOLEAN]]
    /\ publish \in [Procs -> [slot : Slots, file : SnapshotFile,
                              caller : {"none", "genesisA", "genesisB", "restore", "commit"}]]
    /\ acked \in SnapshotFile
    /\ damage \in {"none", "torn", "missing", "foreign", "directory"}

Statuses(files, limits) == [s \in Slots |-> SlotStatus(files[s], limits)]

\* An Open that meets no I/O error ends with an instance.
Recoverable(files, limits) == ~Refused(files, Statuses(files, limits))

\* The snapshot that instance starts from.
Recovered(files, limits) ==
    IF \E s \in Slots : files[s].kind = "missing"
    THEN Genesis
    ELSE files[SelectSlot(files, Statuses(files, limits))]

\* What a power loss at this moment could leave in the two slots.
CrashImages ==
    {image \in [Slots -> {visible[s] : s \in Slots} \cup {durable[s] : s \in Slots}
                          \cup {TornFile}] :
        \A s \in Slots : image[s] \in {durable[s]} \cup Persisted(visible[s])}

Snapshot(file) == [generation |-> file.generation, records |-> file.records]

(***************************************************************************)
(* Whatever instant the power fails at, and whichever of the pending       *)
(* directory entries reach the disk, the next Open recovers, and recovers  *)
(* the last snapshot Commit acknowledged or a newer one.  (A directory     *)
(* that loses its own entry is the separate damage "directory".)           *)
(***************************************************************************)
AcknowledgedCommitSurvives ==
    damage = "none" =>
        \A limits \in Configs, image \in CrashImages :
            /\ Recoverable(image, limits)
            /\ LET file == Recovered(image, limits)
               IN  \/ file.generation > acked.generation
                   \/ Snapshot(file) = Snapshot(acked)

(***************************************************************************)
(* An instance that still answers serves exactly the newest snapshot in    *)
(* the directory: neither a failed nor an indeterminate Commit leaves the  *)
(* in-memory view behind the disk or ahead of it.                          *)
(***************************************************************************)
UsableViewIsNewest ==
    damage = "none" =>
        \A p \in Procs :
            pc[p] = "open" /\ impl[p].usable =>
                /\ Snapshot(Recovered(visible, config[p])) = Snapshot(impl[p])
                /\ Snapshot(visible[impl[p].active_slot]) = Snapshot(impl[p])

(***************************************************************************)
(* One torn slot of an established database costs at most the newest       *)
(* commit: every crash image still opens, at most one generation back.     *)
(***************************************************************************)
TornSlotLosesAtMostOneCommit ==
    damage = "torn" /\ acked.generation > 0 =>
        \A limits \in Configs, image \in CrashImages :
            /\ Recoverable(image, limits)
            /\ Recovered(image, limits).generation + 1 >= acked.generation

(***************************************************************************)
(* No step of the program replaces a snapshot of another format version:   *)
(* an older executable does not roll a newer database back.                *)
(***************************************************************************)
ForeignSnapshotIsKept ==
    [][\A s \in Slots : visible[s].kind = "foreign" /\ directory' # "absent"
                            => visible'[s] = visible[s]]_vars

(***************************************************************************)
(* Damage is contained: a torn slot costs one commit at most, and what     *)
(* this version cannot read is not lost.                                   *)
(***************************************************************************)
DamageIsContained == []TornSlotLosesAtMostOneCommit /\ ForeignSnapshotIsKept

(***************************************************************************)
(* In an undamaged directory whose own entry is durable, the two slots     *)
(* implement one atomic durable store: the durable snapshot changes only   *)
(* to the result of one whole valid batch on it.                           *)
(***************************************************************************)
AnyLimits == CHOOSE limits \in Configs : TRUE

FollowsByOneBatch(s, t) ==
    \E batch \in Batches, limits \in Configs :
        /\ Accepts(batch, s.generation, s.records, limits)
        /\ t = [generation |-> s.generation + 1,
                records |-> Candidate(batch, s.records, s.generation + 1)]

Store == INSTANCE SaveStore WITH
            Genesis <- Snapshot(Genesis),
            Follows <- FollowsByOneBatch,
            store   <- Snapshot(Recovered(durable, AnyLimits)),
            latest  <- Snapshot(Recovered(visible, AnyLimits))

ImplementsSaveStore ==
    /\ Store!Init
    /\ [][directory = "durable" /\ damage' = "none"
              => [Store!Next]_(Store!storeVars)]_vars

(***************************************************************************)
(* docs/04-Native-Persistence.md: a missing slot in any established        *)
(* database fails closed instead of risking rollback.                      *)
(***************************************************************************)
MissingSlotFailsClosed ==
    damage = "missing" =>
        \A p \in Procs : pc[p] = "open" => impl[p].generation >= acked.generation

=============================================================================
