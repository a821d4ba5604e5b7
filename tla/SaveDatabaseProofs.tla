------------------------- MODULE SaveDatabaseProofs -------------------------
(***************************************************************************)
(* For every set of processes, keys, values and batches: the type          *)
(* invariant, exclusive ownership and the refusal of other format          *)
(* versions; and when all openers use the same limits, the durability of   *)
(* acknowledged commits, the refinement of SaveStore, and what a torn slot *)
(* can cost.                                                               *)
(***************************************************************************)
EXTENDS SaveDatabase, FiniteSetTheorems, TLAPS

(***************************************************************************)
(* The inductive invariant.                                                *)
(***************************************************************************)

\* Only the owner of the lock is past DatabaseLock::Acquire.
LockOwner ==
    \A p \in Procs : pc[p] \notin {"closed", "created", "acquire"} => lock = p

\* A file the program wrote and flushed, which every opener can decode.
Sound(file) ==
    /\ file.flushed
    /\ file.kind \in {"missing", "intact"}
    /\ file.kind = "intact" => \A limits \in Configs : DecodeVerdict(file, limits) = "Ok"
    /\ file.generation = 0 => file.records = EmptyRecords
    /\ file.kind = "missing" => file.generation = 0

\* Generation n is the successor of m, or both are the empty genesis.
Succeeds(n, m) == n = m + 1 \/ (n = 0 /\ m = 0)

\* Two files that Open can choose between and that keep the acknowledged
\* snapshot: their generations are neighbours unless both are the genesis.
KeepsAcked(f, g) ==
    /\ Succeeds(f.generation, g.generation) \/ Succeeds(g.generation, f.generation)
    /\ f.kind = "missing" \/ g.kind = "missing" => f.generation = 0 /\ g.generation = 0
    /\ \/ f.generation > acked.generation
       \/ g.generation > acked.generation
       \/ f.generation >= g.generation /\ Snapshot(f) = Snapshot(acked)
       \/ g.generation >= f.generation /\ Snapshot(g) = Snapshot(acked)

DiskSound ==
    /\ \A s \in Slots : /\ Sound(visible[s]) /\ Sound(durable[s])
                         /\ durable[s].generation <= visible[s].generation
    /\ KeepsAcked(visible["A"], visible["B"])
    /\ KeepsAcked(visible["A"], durable["B"])
    /\ KeepsAcked(durable["A"], visible["B"])
    /\ KeepsAcked(durable["A"], durable["B"])
    /\ acked.generation = 0 => acked.records = EmptyRecords

\* A usable instance holds the newest snapshot; its sibling is older.
ViewIsNewest(p) ==
    LET a == impl[p].active_slot IN
    /\ visible[a].kind = "intact"
    /\ Snapshot(visible[a]) = Snapshot(impl[p])
    /\ visible[OtherSlot(a)].kind = "intact"
    /\ Succeeds(impl[p].generation, visible[OtherSlot(a)].generation)

PendingFile(p) ==
    /\ publish[p].file.kind = "intact"
    /\ pc[p] \in {"rename", "sync", "restored"} => publish[p].file.flushed
    /\ \A limits \in Configs : DecodeVerdict(publish[p].file, limits) = "Ok"

\* What the owner's step in PublishSnapshot relies on.
PublishSound(p) ==
    LET pub == publish[p] IN
    /\ PendingFile(p)
    /\ pc[p] \in {"write", "rename"} => visible = durable
    /\ pc[p] \in {"sync", "restored"} => visible[pub.slot] = pub.file
    /\ \/ /\ pub.caller = "commit"
          /\ pc[p] # "restored"
          /\ impl[p].usable
          /\ pub.slot = OtherSlot(impl[p].active_slot)
          /\ pub.file.generation = impl[p].generation + 1
          /\ pc[p] # "sync" => ViewIsNewest(p)
          /\ visible[impl[p].active_slot].kind = "intact"
          /\ visible[impl[p].active_slot].generation = impl[p].generation
       \/ /\ pub.caller \in {"genesisA", "genesisB", "restore"}
          /\ pub.file.generation = 0
          /\ pub.file.records = EmptyRecords
          /\ \A s \in Slots : visible[s].generation = 0 /\ durable[s].generation = 0
          /\ pub.caller = "restore" => visible[OtherSlot(pub.slot)].kind = "intact"
          /\ pc[p] = "restored" => pub.caller = "restore"

OwnerSoundAt(p) ==
    /\ pc[p] = "open" /\ impl[p].usable => ViewIsNewest(p)
    /\ pc[p] \in {"prepare", "write", "rename", "sync", "restored"} => PublishSound(p)

OwnerSound == \A p \in Procs : OwnerSoundAt(p)

DatabaseInvariant ==
    /\ TypeOK
    /\ LockOwner
    /\ damage = "none" => DiskSound /\ OwnerSound

-----------------------------------------------------------------------------

(***************************************************************************)
(* Encoding, flushing and the candidate map stay within their types.       *)
(***************************************************************************)
LEMMA FileTypes ==
    /\ EmptyRecords \in RecordMap
    /\ Genesis \in SnapshotFile
    /\ MissingFile \in SnapshotFile
    /\ TornFile \in SnapshotFile
    /\ ForeignFile \in SnapshotFile
BY DEF EmptyRecords, RecordMap, NoRecord, StoredRecord, Genesis, EncodeSnapshot,
       SnapshotFile, MissingFile, TornFile, ForeignFile, NotAFile

LEMMA CandidateType ==
    ASSUME NEW batch \in Batches, NEW records \in RecordMap, NEW n \in Nat
    PROVE  Candidate(batch, records, n) \in RecordMap
<1> SUFFICES ASSUME NEW k \in Keys
             PROVE  Candidate(batch, records, n)[k] \in StoredRecord
  BY DEF Candidate, RecordMap
<1>1. CASE \E i \in DOMAIN batch : batch[i].key = k
  <2> DEFINE j == CHOOSE i \in DOMAIN batch : batch[i].key = k
  <2>1. j \in DOMAIN batch
    BY <1>1
  <2>2. /\ batch[j].schema_version \in Nat
        /\ batch[j].value \in Values \cup {NoValue}
    BY <2>1, BatchesAssumption
  <2> HIDE DEF j
  <2>3. Candidate(batch, records, n)[k] =
            IF batch[j].kind = "Put"
            THEN [schema_version |-> batch[j].schema_version, revision |-> n,
                  value |-> batch[j].value]
            ELSE NoRecord
    BY <1>1 DEF Candidate, j
  <2> QED
    BY <2>2, <2>3 DEF StoredRecord, NoRecord
<1>2. CASE ~ \E i \in DOMAIN batch : batch[i].key = k
  BY <1>2 DEF Candidate, RecordMap
<1> QED
  BY <1>1, <1>2

-----------------------------------------------------------------------------

LEMMA TypeInit == Init => TypeOK
<1> SUFFICES ASSUME Init PROVE TypeOK
  OBVIOUS
<1> USE FileTypes
<1>1. impl \in [Procs -> [active_slot : Slots, generation : Nat,
                          records : RecordMap, usable : BOOLEAN]]
  BY DEF Init, NewImpl, Slots
<1>2. publish \in [Procs -> [slot : Slots, file : SnapshotFile,
                             caller : {"none", "genesisA", "genesisB", "restore", "commit"}]]
  BY DEF Init, NoPublish, Slots
<1>3. acked \in SnapshotFile
  BY DEF Init, SnapshotFile
<1>4. directory \in {"absent", "volatile", "durable"}
  BY EnvironmentAssumption DEF Init
<1> QED
  BY <1>1, <1>2, <1>3, <1>4 DEF Init, TypeOK, Slots, Labels

\* Forget, Goto and SynchronizeDirectory keep the types of what they change.
LEMMA ForgetType ==
    ASSUME TypeOK, NEW p \in Procs, Forget(p)
    PROVE  /\ pc' \in [Procs -> Labels]
           /\ impl' \in [Procs -> [active_slot : Slots, generation : Nat,
                                   records : RecordMap, usable : BOOLEAN]]
           /\ publish' \in [Procs -> [slot : Slots, file : SnapshotFile,
                   caller : {"none", "genesisA", "genesisB", "restore", "commit"}]]
           /\ lock' \in Procs \cup {NoProc}
<1> USE FileTypes
<1>1. NewImpl \in [active_slot : Slots, generation : Nat,
                   records : RecordMap, usable : BOOLEAN]
  BY DEF NewImpl, Slots
<1>2. NoPublish \in [slot : Slots, file : SnapshotFile,
                     caller : {"none", "genesisA", "genesisB", "restore", "commit"}]
  BY DEF NoPublish, Slots
<1> QED
  BY <1>1, <1>2 DEF TypeOK, Forget, Labels

LEMMA SynchronizeType ==
    ASSUME TypeOK, SynchronizeDirectory
    PROVE  durable' \in [Slots -> SnapshotFile]
BY FileTypes DEF TypeOK, SynchronizeDirectory

LEMMA StartPublishType ==
    ASSUME TypeOK, NEW p \in Procs, NEW slot \in Slots, NEW file \in SnapshotFile,
           NEW caller \in {"genesisA", "genesisB", "restore", "commit"},
           StartPublish(p, slot, file, caller)
    PROVE  /\ publish' \in [Procs -> [slot : Slots, file : SnapshotFile,
                   caller : {"none", "genesisA", "genesisB", "restore", "commit"}]]
           /\ pc' \in [Procs -> Labels]
           /\ UNCHANGED <<impl, lock>>
BY DEF TypeOK, StartPublish, Goto, Labels

LEMMA IndeterminateType ==
    ASSUME TypeOK, NEW p \in Procs, PublishIsIndeterminate(p)
    PROVE  /\ pc' \in [Procs -> Labels]
           /\ impl' \in [Procs -> [active_slot : Slots, generation : Nat,
                                   records : RecordMap, usable : BOOLEAN]]
           /\ publish' \in [Procs -> [slot : Slots, file : SnapshotFile,
                   caller : {"none", "genesisA", "genesisB", "restore", "commit"}]]
           /\ lock' \in Procs \cup {NoProc}
<1>1. CASE publish[p].caller = "commit"
  <2>1. NoPublish \in [slot : Slots, file : SnapshotFile,
                       caller : {"none", "genesisA", "genesisB", "restore", "commit"}]
    BY FileTypes DEF NoPublish, Slots
  <2>2. /\ impl' = [impl EXCEPT ![p].usable = FALSE]
        /\ publish' = [publish EXCEPT ![p] = NoPublish]
        /\ pc' = [pc EXCEPT ![p] = "open"]
        /\ lock' = lock
    BY <1>1 DEF PublishIsIndeterminate
  <2>3. impl' \in [Procs -> [active_slot : Slots, generation : Nat,
                            records : RecordMap, usable : BOOLEAN]]
    BY <2>2 DEF TypeOK
  <2> QED
    BY <2>1, <2>2, <2>3 DEF TypeOK, Labels
<1>2. CASE publish[p].caller # "commit"
  BY <1>2, ForgetType DEF PublishIsIndeterminate
<1> QED
  BY <1>1, <1>2

LEMMA TypeStep == TypeOK /\ [Next]_vars => TypeOK'
<1> SUFFICES ASSUME TypeOK, [Next]_vars PROVE TypeOK'
  OBVIOUS
<1> USE FileTypes
<1>1. ASSUME NEW p \in Procs, EnsureDirectory(p) PROVE TypeOK'
  BY <1>1 DEF EnsureDirectory, TypeOK, Labels
<1>2. ASSUME NEW p \in Procs, SynchronizeCreatedDirectoryChain(p) PROVE TypeOK'
  BY <1>2 DEF SynchronizeCreatedDirectoryChain, Goto, TypeOK, Labels
<1>3. ASSUME NEW p \in Procs, AcquireLock(p) PROVE TypeOK'
  BY <1>3 DEF AcquireLock, TypeOK, Labels
<1>4. ASSUME NEW p \in Procs, OpenFails(p) PROVE TypeOK'
  BY <1>4, ForgetType DEF OpenFails, DiskUnchanged, TypeOK
<1>5. ASSUME NEW p \in Procs, OpenReadSlots(p) PROVE TypeOK'
  <2>0. UNCHANGED config /\ DiskUnchanged
    BY <1>5 DEF OpenReadSlots
  <2>1. CASE Forget(p)
    BY <2>0, <2>1, ForgetType DEF DiskUnchanged, TypeOK
  <2>2. CASE StartPublish(p, "A", Genesis, "genesisA")
    BY <2>0, <2>2, StartPublishType DEF DiskUnchanged, TypeOK, Slots
  <2>3. ASSUME NEW s \in Slots, StartPublish(p, OtherSlot(s), Genesis, "restore")
        PROVE  TypeOK'
    <3>1. OtherSlot(s) \in Slots
      BY DEF OtherSlot, Slots
    <3> QED
      BY <2>0, <2>3, <3>1, StartPublishType DEF DiskUnchanged, TypeOK
  <2>4. ASSUME NEW s \in Slots, Adopt(p, s) PROVE TypeOK'
    BY <2>0, <2>4 DEF Adopt, DiskUnchanged, TypeOK, Labels, SnapshotFile
  <2>5. \A st : SelectSlot(visible, st) \in Slots
    BY DEF SelectSlot, Slots
  <2> QED
    BY <1>5, <2>1, <2>2, <2>3, <2>4, <2>5 DEF OpenReadSlots
<1>6. ASSUME NEW p \in Procs, OpenReadRestored(p) PROVE TypeOK'
  <2>1. CASE Forget(p)
    BY <1>6, <2>1, ForgetType DEF OpenReadRestored, DiskUnchanged, TypeOK
  <2>2. CASE Adopt(p, "A")
    BY <1>6, <2>2 DEF OpenReadRestored, Adopt, DiskUnchanged, TypeOK, Labels, SnapshotFile, Slots
  <2> QED
    BY <1>6, <2>1, <2>2 DEF OpenReadRestored
<1>7. ASSUME NEW p \in Procs, NEW batch \in Batches, Commit(p, batch) PROVE TypeOK'
  <2> DEFINE n == impl[p].generation + 1
             file == EncodeSnapshot(Candidate(batch, impl[p].records, n), n)
  <2>1. /\ impl[p].generation \in Nat /\ impl[p].records \in RecordMap
        /\ OtherSlot(impl[p].active_slot) \in Slots
    BY DEF TypeOK, OtherSlot, Slots
  <2>2. Candidate(batch, impl[p].records, n) \in RecordMap
    BY <2>1, CandidateType
  <2>3. file \in SnapshotFile
    BY <2>1, <2>2 DEF EncodeSnapshot, SnapshotFile
  <2>4. StartPublish(p, OtherSlot(impl[p].active_slot), file, "commit")
    BY <1>7 DEF Commit
  <2> HIDE DEF file
  <2> QED
    BY <1>7, <2>1, <2>3, <2>4, StartPublishType DEF Commit, DiskUnchanged, TypeOK
<1>8. ASSUME NEW p \in Procs, PublishFails(p) PROVE TypeOK'
  <2>1. NoPublish \in [slot : Slots, file : SnapshotFile,
                       caller : {"none", "genesisA", "genesisB", "restore", "commit"}]
    BY DEF NoPublish, Slots
  <2>2. CASE publish[p].caller = "commit"
    <3>1. /\ publish' = [publish EXCEPT ![p] = NoPublish]
          /\ Goto(p, "open") /\ UNCHANGED config /\ DiskUnchanged
      BY <1>8, <2>2 DEF PublishFails
    <3> QED
      BY <2>1, <3>1 DEF Goto, DiskUnchanged, TypeOK, Labels
  <2>3. CASE publish[p].caller # "commit"
    BY <1>8, <2>3, ForgetType DEF PublishFails, DiskUnchanged, TypeOK
  <2> QED
    BY <2>2, <2>3
<1>9. ASSUME NEW p \in Procs, PrepareDirectory(p) PROVE TypeOK'
  BY <1>9, SynchronizeType DEF PrepareDirectory, Goto, TypeOK, Labels
<1>10. ASSUME NEW p \in Procs, WriteTemporary(p) PROVE TypeOK'
  <2>1. publish' \in [Procs -> [slot : Slots, file : SnapshotFile,
                               caller : {"none", "genesisA", "genesisB", "restore", "commit"}]]
    <3>1. [publish[p].file EXCEPT !.flushed = TRUE] \in SnapshotFile
      BY DEF TypeOK, SnapshotFile
    <3>2. publish' = [publish EXCEPT ![p] =
                        [publish[p] EXCEPT !.file = [publish[p].file EXCEPT !.flushed = TRUE]]]
      BY <1>10 DEF WriteTemporary, TypeOK, SnapshotFile
    <3> QED
      BY <3>1, <3>2 DEF TypeOK
  <2> QED
    BY <1>10, <2>1 DEF WriteTemporary, Goto, DiskUnchanged, TypeOK, Labels
<1>11. ASSUME NEW p \in Procs, RenameOverSlot(p) PROVE TypeOK'
  <2>1. visible' \in [Slots -> SnapshotFile]
    BY <1>11 DEF RenameOverSlot, Replace, TypeOK
  <2>2. CASE Goto(p, "sync") /\ UNCHANGED publish
    BY <1>11, <2>1, <2>2 DEF RenameOverSlot, Goto, TypeOK, Labels
  <2>3. CASE PublishIsIndeterminate(p)
    BY <1>11, <2>1, <2>3, IndeterminateType DEF RenameOverSlot, TypeOK
  <2> QED
    BY <1>11, <2>2, <2>3 DEF RenameOverSlot
<1>12. ASSUME NEW p \in Procs, SyncReplacementFails(p) PROVE TypeOK'
  BY <1>12, IndeterminateType DEF SyncReplacementFails, DiskUnchanged, TypeOK
<1>13. ASSUME NEW p \in Procs, SyncReplacement(p) PROVE TypeOK'
  <2>1. durable' \in [Slots -> SnapshotFile] /\ UNCHANGED <<directory, visible, config, damage>>
    BY <1>13, SynchronizeType DEF SyncReplacement
  <2>2. CASE StartPublish(p, "B", Genesis, "genesisB") /\ UNCHANGED acked
    BY <2>1, <2>2, StartPublishType DEF TypeOK, Slots
  <2>3. NoPublish \in [slot : Slots, file : SnapshotFile,
                       caller : {"none", "genesisA", "genesisB", "restore", "commit"}]
    BY DEF NoPublish, Slots
  <2>4. CASE publish' = [publish EXCEPT ![p] = NoPublish] /\ Goto(p, "reread") /\ UNCHANGED acked
    BY <2>1, <2>3, <2>4 DEF Goto, TypeOK, Labels
  <2>5. CASE Goto(p, "restored") /\ UNCHANGED <<publish, acked>>
    BY <2>1, <2>5 DEF Goto, TypeOK, Labels
  <2>6. CASE publish[p].caller = "commit"
    <3>1. /\ impl' = [impl EXCEPT ![p] = [active_slot |-> publish[p].slot,
                                         generation  |-> publish[p].file.generation,
                                         records     |-> publish[p].file.records,
                                         usable      |-> TRUE]]
          /\ publish' = [publish EXCEPT ![p] = NoPublish]
          /\ pc' = [pc EXCEPT ![p] = "open"]
          /\ UNCHANGED lock
          /\ acked' = publish[p].file
      BY <1>13, <2>6 DEF SyncReplacement
    <3>2. /\ publish[p].file \in SnapshotFile /\ publish[p].slot \in Slots
          /\ publish[p].file.generation \in Nat /\ publish[p].file.records \in RecordMap
      BY DEF TypeOK, SnapshotFile
    <3> QED
      BY <2>1, <2>3, <3>1, <3>2 DEF TypeOK, Labels
  <2> QED
    BY <1>13, <2>2, <2>4, <2>5, <2>6 DEF SyncReplacement
<1>14. ASSUME NEW p \in Procs, CloseOrDie(p) PROVE TypeOK'
  BY <1>14, ForgetType DEF CloseOrDie, DiskUnchanged, TypeOK
<1>15. ASSUME NEW s \in Slots, Writeback(s) PROVE TypeOK'
  BY <1>15 DEF Writeback, Persisted, TypeOK
<1>16. CASE PowerLoss
  <2>1. NoPublish \in [slot : Slots, file : SnapshotFile,
                       caller : {"none", "genesisA", "genesisB", "restore", "commit"}]
    BY DEF NoPublish, Slots
  <2>2. NewImpl \in [active_slot : Slots, generation : Nat,
                     records : RecordMap, usable : BOOLEAN]
    BY DEF NewImpl, Slots
  <2> QED
    BY <1>16, <2>1, <2>2 DEF PowerLoss, TypeOK, Labels
<1>17. ASSUME NEW s \in Slots, NEW kind \in DamageKinds, Damage(s, kind) PROVE TypeOK'
  BY <1>17, EnvironmentAssumption DEF Damage, TypeOK
<1>18. CASE UNCHANGED vars
  BY <1>18 DEF vars, TypeOK
<1> QED
  BY <1>1, <1>2, <1>3, <1>4, <1>5, <1>6, <1>7, <1>8, <1>9, <1>10, <1>11, <1>12,
     <1>13, <1>14, <1>15, <1>16, <1>17, <1>18
     DEF Next, OpenStep, PublishStep

(***************************************************************************)
(* Every variable of the save database keeps its type, for any number of   *)
(* processes, keys, values, batches and limits.                            *)
(***************************************************************************)
THEOREM TypeCorrect == Spec => []TypeOK
BY TypeInit, TypeStep, PTL DEF Spec

-----------------------------------------------------------------------------
(***************************************************************************)
(* Durability.  All openers use one set of limits.                         *)
(***************************************************************************)
OneConfig == \E limits : Configs = {limits}

LEMMA SoundStatus ==
    ASSUME NEW file, Sound(file), NEW limits \in Configs
    PROVE  SlotStatus(file, limits) = IF file.kind = "missing" THEN "Missing" ELSE "Valid"
BY DEF Sound, SlotStatus

\* A sound pair of files that keeps the acknowledged snapshot opens, on a
\* snapshot at least as new.
LEMMA PairSurvives ==
    ASSUME NEW files \in [Slots -> SnapshotFile], NEW limits \in Configs,
           acked \in SnapshotFile, acked.generation = 0 => acked.records = EmptyRecords,
           Sound(files["A"]), Sound(files["B"]), KeepsAcked(files["A"], files["B"])
    PROVE  /\ Recoverable(files, limits)
           /\ LET file == Recovered(files, limits)
              IN  file.generation > acked.generation \/ Snapshot(file) = Snapshot(acked)
<1> DEFINE st == Statuses(files, limits)
<1>1. /\ st["A"] = IF files["A"].kind = "missing" THEN "Missing" ELSE "Valid"
      /\ st["B"] = IF files["B"].kind = "missing" THEN "Missing" ELSE "Valid"
  BY SoundStatus DEF Statuses, Slots
<1>2. /\ files["A"].generation \in Nat /\ files["B"].generation \in Nat
      /\ acked.generation \in Nat
  BY DEF SnapshotFile, Slots
<1> HIDE DEF st
<1>3. ~ Refused(files, st)
  BY <1>1, <1>2 DEF Succeeds, Refused, LoneSurvivor, BothMissing, SnapshotsDisagree, Slots, OtherSlot,
        Sound, KeepsAcked
<1>4. CASE \E s \in Slots : files[s].kind = "missing"
  <2>1. Recovered(files, limits) = Genesis
    BY <1>4 DEF Recovered
  <2>2. acked.generation = 0 \/ acked.generation < 0
    BY <1>4, <1>2 DEF Succeeds, KeepsAcked, Slots, Snapshot
  <2>3. Snapshot(Genesis) = Snapshot(acked)
    BY <1>2, <2>2 DEF Snapshot, Genesis, EncodeSnapshot
  <2> QED
    BY <1>3, <2>1, <2>3 DEF Recoverable, st
<1>5. CASE ~ \E s \in Slots : files[s].kind = "missing"
  <2>1. Recovered(files, limits) = files[SelectSlot(files, st)]
    BY <1>5 DEF Recovered, st
  <2>2. st["A"] = "Valid" /\ st["B"] = "Valid"
    BY <1>1, <1>5 DEF Slots
  <2>3. SelectSlot(files, st) = IF files["B"].generation > files["A"].generation THEN "B" ELSE "A"
    BY <2>2 DEF SelectSlot
  <2>4. CASE files["B"].generation > files["A"].generation
    BY <1>2, <1>3, <2>1, <2>3, <2>4 DEF Succeeds, KeepsAcked, Recoverable, st
  <2>5. CASE ~ (files["B"].generation > files["A"].generation)
    <3>1. files["A"].generation = files["B"].generation => Snapshot(files["A"]) = Snapshot(files["B"])
      BY <1>2 DEF Succeeds, KeepsAcked, Sound, Snapshot
    <3>2. Recovered(files, limits) = files["A"]
      BY <2>1, <2>3, <2>5
    <3>3. files["A"].generation > acked.generation \/ Snapshot(files["A"]) = Snapshot(acked)
      BY <1>2, <2>5, <3>1 DEF Succeeds, KeepsAcked
    <3> QED
      BY <1>3, <3>2, <3>3 DEF Recoverable, st
  <2> QED
    BY <2>4, <2>5
<1> QED
  BY <1>4, <1>5

LEMMA DiskSoundSurvives ==
    ASSUME TypeOK, DiskSound
    PROVE  \A limits \in Configs, image \in CrashImages :
              /\ Recoverable(image, limits)
              /\ LET file == Recovered(image, limits)
                 IN  file.generation > acked.generation \/ Snapshot(file) = Snapshot(acked)
<1> SUFFICES ASSUME NEW limits \in Configs, NEW image \in CrashImages
             PROVE  /\ Recoverable(image, limits)
                    /\ LET file == Recovered(image, limits)
                       IN  file.generation > acked.generation \/ Snapshot(file) = Snapshot(acked)
  OBVIOUS
<1>1. \A s \in Slots : image[s] \in {durable[s], visible[s]}
  BY DEF CrashImages, Persisted, DiskSound, Sound
<1>2. image \in [Slots -> SnapshotFile]
  BY <1>1 DEF CrashImages, TypeOK
<1>3. Sound(image["A"]) /\ Sound(image["B"])
  BY <1>1 DEF DiskSound, Slots
<1>4. KeepsAcked(image["A"], image["B"])
  BY <1>1 DEF DiskSound, Slots
<1> QED
  BY <1>2, <1>3, <1>4, PairSurvives DEF TypeOK, DiskSound

LEMMA DiskSame ==
    ASSUME DiskSound, visible' = visible, durable' = durable, acked' = acked
    PROVE  DiskSound'
BY DEF Succeeds, DiskSound, Sound, KeepsAcked, Snapshot

LEMMA OwnerSame ==
    ASSUME NEW q \in Procs, OwnerSoundAt(q), visible' = visible, durable' = durable,
           impl'[q] = impl[q], publish'[q] = publish[q], pc'[q] = pc[q]
    PROVE  OwnerSoundAt(q)'
BY DEF Succeeds, OwnerSoundAt, ViewIsNewest, PublishSound, PendingFile, Snapshot

Idle == {"closed", "created", "acquire"}

LEMMA IdleIsSound ==
    ASSUME NEW q \in Procs, pc'[q] \in Idle
    PROVE  OwnerSoundAt(q)'
BY DEF OwnerSoundAt, Idle

\* A step of the lock owner that leaves its own part of the invariant true
\* keeps all of it: every other process is idle.
LEMMA OwnerStep ==
    ASSUME TypeOK, LockOwner, NEW p \in Procs, lock = p, NEW label,
           pc' = [pc EXCEPT ![p] = label], OwnerSoundAt(p)'
    PROVE  OwnerSound'
<1> SUFFICES ASSUME NEW q \in Procs, q # p PROVE OwnerSoundAt(q)'
  BY DEF OwnerSound
<1>1. pc[q] \in Idle
  BY NoProcAssumption DEF LockOwner, Idle
<1>2. pc'[q] \in Idle
  BY <1>1 DEF TypeOK
<1> QED
  BY <1>2, IdleIsSound

LEMMA LockStep == TypeOK /\ LockOwner /\ [Next]_vars => LockOwner'
<1> SUFFICES ASSUME TypeOK, LockOwner, [Next]_vars PROVE LockOwner'
  OBVIOUS
<1> USE NoProcAssumption DEF LockOwner, TypeOK
<1>1. ASSUME NEW p \in Procs, Forget(p) PROVE LockOwner'
  BY <1>1 DEF Forget
<1>2. ASSUME NEW p \in Procs, NEW label, Goto(p, label), pc[p] \notin Idle PROVE LockOwner'
  BY <1>2 DEF Goto, Idle
<1>3. ASSUME NEW p \in Procs, PublishIsIndeterminate(p), pc[p] \notin Idle PROVE LockOwner'
  BY <1>1, <1>3 DEF PublishIsIndeterminate, Idle
<1>4. ASSUME NEW p \in Procs, OpenStep(p) PROVE LockOwner'
  <2>1. CASE EnsureDirectory(p)
    BY <2>1 DEF EnsureDirectory
  <2>2. CASE SynchronizeCreatedDirectoryChain(p)
    BY <2>2 DEF SynchronizeCreatedDirectoryChain, Goto
  <2>3. CASE AcquireLock(p)
    BY <2>3 DEF AcquireLock
  <2>4. CASE OpenFails(p)
    BY <2>4, <1>1 DEF OpenFails
  <2>5. ASSUME NEW s, Adopt(p, s), pc[p] \notin Idle PROVE LockOwner'
    BY <2>5 DEF Adopt, Idle
  <2>6. CASE OpenReadSlots(p)
    <3>1. pc[p] \notin Idle
      BY <2>6 DEF OpenReadSlots, Idle
    <3> QED
      BY <1>1, <1>2, <2>5, <2>6, <3>1 DEF OpenReadSlots, StartPublish
  <2>7. CASE OpenReadRestored(p)
    <3>1. pc[p] \notin Idle
      BY <2>7 DEF OpenReadRestored, Idle
    <3> QED
      BY <1>1, <2>5, <2>7, <3>1 DEF OpenReadRestored
  <2> QED
    BY <1>4, <2>1, <2>2, <2>3, <2>4, <2>6, <2>7 DEF OpenStep
<1>5. ASSUME NEW p \in Procs, PublishStep(p) PROVE LockOwner'
  <2>0. pc[p] \notin Idle
    BY <1>5 DEF PublishStep, PrepareDirectory, WriteTemporary, RenameOverSlot, SyncReplacement,
          PublishFails, SyncReplacementFails, Idle
  <2>1. CASE PrepareDirectory(p)
    BY <1>2, <2>0, <2>1 DEF PrepareDirectory
  <2>2. CASE WriteTemporary(p)
    BY <1>2, <2>0, <2>2 DEF WriteTemporary
  <2>3. CASE RenameOverSlot(p)
    BY <1>2, <1>3, <2>0, <2>3 DEF RenameOverSlot
  <2>4. CASE SyncReplacement(p)
    <3>1. CASE publish[p].caller = "commit"
      <4>1. pc' = [pc EXCEPT ![p] = "open"] /\ lock' = lock
        BY <2>4, <3>1 DEF SyncReplacement
      <4> QED
        BY <2>0, <4>1 DEF Idle
    <3>2. CASE publish[p].caller # "commit"
      BY <1>2, <2>0, <2>4, <3>2 DEF SyncReplacement, StartPublish
    <3> QED
      BY <3>1, <3>2
  <2>5. CASE PublishFails(p)
    BY <1>1, <1>2, <2>0, <2>5 DEF PublishFails
  <2>6. CASE SyncReplacementFails(p)
    BY <1>3, <2>0, <2>6 DEF SyncReplacementFails
  <2> QED
    BY <1>5, <2>1, <2>2, <2>3, <2>4, <2>5, <2>6 DEF PublishStep
<1>6. ASSUME NEW p \in Procs, CloseOrDie(p) PROVE LockOwner'
  BY <1>1, <1>6 DEF CloseOrDie
<1>7. ASSUME NEW p \in Procs, NEW batch \in Batches, Commit(p, batch) PROVE LockOwner'
  <2>1. pc[p] \notin Idle
    BY <1>7 DEF Commit, Idle
  <2> QED
    BY <1>2, <1>7, <2>1 DEF Commit, StartPublish
<1>8. ASSUME NEW s \in Slots, Writeback(s) PROVE LockOwner'
  BY <1>8 DEF Writeback
<1>9. CASE PowerLoss
  BY <1>9 DEF PowerLoss
<1>10. ASSUME NEW s \in Slots, NEW kind \in DamageKinds, Damage(s, kind) PROVE LockOwner'
  BY <1>10 DEF Damage
<1>11. CASE UNCHANGED vars
  BY <1>11 DEF vars
<1> QED
  BY <1>4, <1>5, <1>6, <1>7, <1>8, <1>9, <1>10, <1>11 DEF Next

\* The snapshot of an accepted batch decodes under the limits it was encoded with.
LEMMA CommitDecodes ==
    ASSUME NEW batch \in Batches, NEW n \in Nat, NEW records \in RecordMap,
           NEW limits \in Configs,
           Accepts(batch, n, records, limits),
           \A k \in Keys : /\ records[k].revision =< n
                           /\ ~ (ValueBytes[records[k].value] > limits.max_value_bytes)
    PROVE  DecodeVerdict(EncodeSnapshot(Candidate(batch, records, n + 1), n + 1), limits) = "Ok"
<1> DEFINE c == Candidate(batch, records, n + 1)
<1>1. /\ \A i \in DOMAIN batch : MutationVerdict(batch, i, records, limits) = "Ok"
      /\ EncodeVerdict(c, limits) = "Ok"
  BY DEF Accepts, RefusedMutations
<1>2. ASSUME NEW k \in Keys
      PROVE  /\ ~ (c[k].revision > n + 1)
             /\ ~ (ValueBytes[c[k].value] > limits.max_value_bytes)
  <2>1. CASE \E i \in DOMAIN batch : batch[i].key = k
    <3> DEFINE j == CHOOSE i \in DOMAIN batch : batch[i].key = k
    <3>1. j \in DOMAIN batch
      BY <2>1
    <3> HIDE DEF j
    <3>2. c[k] = IF batch[j].kind = "Put"
                 THEN [schema_version |-> batch[j].schema_version, revision |-> n + 1,
                       value |-> batch[j].value]
                 ELSE NoRecord
      BY <2>1 DEF Candidate, j
    <3>3. batch[j].kind = "Put" => ~ (ValueBytes[batch[j].value] > limits.max_value_bytes)
      BY <1>1, <3>1 DEF MutationVerdict
    <3>4. CASE batch[j].kind = "Put"
      BY <3>2, <3>3, <3>4
    <3>5. CASE batch[j].kind # "Put"
      <4>1. c[k].revision = 0 /\ ValueBytes[c[k].value] = 0
        BY <3>2, <3>5, ValueBytesAssumption DEF NoRecord
      <4>2. limits.max_value_bytes \in Nat
        BY ConfigsAssumption
      <4> QED
        BY <4>1, <4>2
    <3> QED
      BY <3>4, <3>5
  <2>2. CASE ~ \E i \in DOMAIN batch : batch[i].key = k
    <3>1. c[k] = records[k]
      BY <2>2 DEF Candidate
    <3>2. records[k].revision \in Nat
      BY DEF RecordMap, StoredRecord
    <3> QED
      BY <3>1, <3>2
  <2> QED
    BY <2>1, <2>2
<1> HIDE DEF c
<1>3. ~ (RecordCount(c) > limits.max_records)
      /\ ~ (LogicalValueBytes(c) > limits.max_logical_value_bytes)
  BY <1>1 DEF EncodeVerdict
<1>4. DecodeVerdict(EncodeSnapshot(c, n + 1), limits) = "Ok"
  BY <1>2, <1>3 DEF DecodeVerdict, EncodeSnapshot
<1> QED
  BY <1>4 DEF c

\* The slot Open selects among two sound ones is the newest.
LEMMA SelectedIsNewest ==
    ASSUME TypeOK, DiskSound, NEW p \in Procs,
           NEW statuses \in [Slots -> {"Missing", "Valid", "Corrupt", "Fatal"}],
           ReadSlots(p, statuses), ~ Refused(visible, statuses),
           \A s \in Slots : statuses[s] # "Missing"
    PROVE  LET a == SelectSlot(visible, statuses) IN
           /\ a \in Slots
           /\ visible[a].kind = "intact"
           /\ visible[OtherSlot(a)].kind = "intact"
           /\ Succeeds(visible[a].generation, visible[OtherSlot(a)].generation)
<1>1. config[p] \in Configs
  BY DEF TypeOK
<1>2. \A s \in Slots : statuses[s] = SlotStatus(visible[s], config[p])
  BY DEF ReadSlots, Refused
<1>3. \A s \in Slots : statuses[s] = "Valid" /\ visible[s].kind = "intact"
  BY <1>1, <1>2, SoundStatus DEF DiskSound, Sound
<1>4. visible["A"].generation \in Nat /\ visible["B"].generation \in Nat
  BY DEF TypeOK, SnapshotFile, Slots
<1>5. \/ Succeeds(visible["A"].generation, visible["B"].generation)
      \/ Succeeds(visible["B"].generation, visible["A"].generation)
  BY DEF DiskSound, KeepsAcked
<1>6. SelectSlot(visible, statuses) =
        IF visible["B"].generation > visible["A"].generation THEN "B" ELSE "A"
  BY <1>3 DEF SelectSlot, Slots
<1> QED
  BY <1>3, <1>4, <1>5, <1>6 DEF Succeeds, OtherSlot, Slots

LEMMA GenesisDecodes ==
    ASSUME NEW limits \in Configs, EncodeVerdict(EmptyRecords, limits) = "Ok"
    PROVE  DecodeVerdict(Genesis, limits) = "Ok"
<1>1. RecordCount(EmptyRecords) = 0
  <2>1. {k \in Keys : Exists(EmptyRecords[k])} = {}
    BY DEF EmptyRecords, NoRecord, Exists
  <2> QED
    BY <2>1, FS_EmptySet DEF RecordCount
<1>2. \A k \in Keys : EmptyRecords[k].revision = 0 /\ ValueBytes[EmptyRecords[k].value] = 0
  BY ValueBytesAssumption DEF EmptyRecords, NoRecord
<1>3. limits.max_value_bytes \in Nat
  BY ConfigsAssumption
<1>4. /\ Genesis.kind = "intact" /\ Genesis.generation = 0 /\ Genesis.records = EmptyRecords
  BY DEF Genesis, EncodeSnapshot
<1> QED
  BY <1>1, <1>2, <1>3, <1>4 DEF DecodeVerdict, EncodeVerdict

\* An instance that serves the newest snapshot from a sound disk.
LEMMA AdoptIsSound ==
    ASSUME TypeOK, LockOwner, NEW p \in Procs, lock = p, NEW a \in Slots, Adopt(p, a),
           visible' = visible,
           visible[a].kind = "intact", visible[OtherSlot(a)].kind = "intact",
           Succeeds(visible[a].generation, visible[OtherSlot(a)].generation)
    PROVE  OwnerSound'
<1>1. impl'[p] = [active_slot |-> a, generation |-> visible[a].generation,
                  records |-> visible[a].records, usable |-> TRUE]
  BY DEF Adopt, TypeOK
<1>2. pc' = [pc EXCEPT ![p] = "open"]
  BY DEF Adopt
<1>3. pc'[p] = "open"
  BY <1>2 DEF TypeOK
<1>4. ViewIsNewest(p)'
  BY <1>1 DEF Succeeds, ViewIsNewest, Snapshot
<1>5. OwnerSoundAt(p)'
  BY <1>3, <1>4 DEF OwnerSoundAt
<1> QED
  BY <1>2, <1>5, OwnerStep

LEMMA ForgetIsSound ==
    ASSUME TypeOK, OwnerSound, NEW p \in Procs, Forget(p),
           visible' = visible, durable' = durable
    PROVE  OwnerSound'
<1> SUFFICES ASSUME NEW q \in Procs PROVE OwnerSoundAt(q)'
  BY DEF OwnerSound
<1>1. CASE q = p
  BY <1>1, IdleIsSound DEF Forget, TypeOK, Idle
<1>2. CASE q # p
  BY <1>2, OwnerSame DEF Forget, TypeOK, OwnerSound
<1> QED
  BY <1>1, <1>2

\* A publication that starts: the commit of a usable instance, or a genesis
\* into a directory whose slots are all empty.
LEMMA GenesisStarts ==
    ASSUME TypeOK, LockOwner, OneConfig, NEW p \in Procs, lock = p, NEW slot \in Slots,
           NEW caller \in {"genesisA", "genesisB", "restore"},
           StartPublish(p, slot, Genesis, caller),
           EncodeVerdict(EmptyRecords, config[p]) = "Ok",
           \A s \in Slots : visible'[s].generation = 0 /\ durable'[s].generation = 0,
           caller = "restore" => visible'[OtherSlot(slot)].kind = "intact"
    PROVE  OwnerSound'
<1>1. /\ pc' = [pc EXCEPT ![p] = "prepare"]
      /\ pc'[p] = "prepare"
      /\ publish'[p] = [slot |-> slot, file |-> Genesis, caller |-> caller]
  BY DEF StartPublish, Goto, TypeOK
<1>2. \A limits \in Configs : DecodeVerdict(Genesis, limits) = "Ok"
  BY GenesisDecodes DEF TypeOK, OneConfig
<1>3. /\ Genesis.kind = "intact" /\ Genesis.generation = 0
      /\ Genesis.records = EmptyRecords /\ Genesis.flushed = FALSE
  BY DEF Genesis, EncodeSnapshot
<1>4. PendingFile(p)'
  BY <1>1, <1>2, <1>3 DEF PendingFile
<1>5. PublishSound(p)'
  BY <1>1, <1>3, <1>4 DEF PublishSound
<1>6. OwnerSoundAt(p)'
  BY <1>1, <1>5 DEF OwnerSoundAt
<1> QED
  BY <1>1, <1>6, OwnerStep

\* Replacing the slot that a sound publication names.
LEMMA ReplaceIsSound ==
    ASSUME TypeOK, TypeOK', LockOwner, DiskSound, OwnerSound, NEW p \in Procs,
           pc[p] = "rename", Replace(p), durable' = durable, acked' = acked
    PROVE  /\ DiskSound'
           /\ visible'[publish[p].slot] = publish[p].file
           /\ visible'[OtherSlot(publish[p].slot)] = visible[OtherSlot(publish[p].slot)]
<1> DEFINE o == publish[p].slot
           a == OtherSlot(o)
           file == publish[p].file
<1>1. PublishSound(p)
  BY DEF OwnerSound, OwnerSoundAt
<1>2. visible = durable
  BY <1>1 DEF PublishSound
<1>3. /\ o \in Slots /\ a \in Slots /\ o # a
      /\ visible[o].generation \in Nat /\ visible[a].generation \in Nat
      /\ file.generation \in Nat /\ acked.generation \in Nat
  BY DEF TypeOK, SnapshotFile, OtherSlot, Slots
<1>4. visible'[o] = file /\ visible'[a] = visible[a]
  BY <1>3 DEF Replace, TypeOK
<1>5. file.kind = "intact" /\ Sound(file)
  <2>1. /\ file.kind = "intact" /\ file.flushed
        /\ \A limits \in Configs : DecodeVerdict(file, limits) = "Ok"
    BY <1>1 DEF PublishSound, PendingFile
  <2>2. file.generation = 0 => file.records = EmptyRecords
    <3>1. CASE publish[p].caller = "commit"
      <4>1. impl[p].generation \in Nat
        BY DEF TypeOK
      <4> QED
        BY <1>1, <3>1, <4>1 DEF PublishSound
    <3>2. CASE publish[p].caller # "commit"
      BY <1>1, <3>2 DEF PublishSound
    <3> QED
      BY <3>1, <3>2
  <2> QED
    BY <2>1, <2>2 DEF Sound
<1>6. /\ visible[o].generation =< file.generation
      /\ Succeeds(file.generation, visible[a].generation)
      /\ visible[a].kind = "missing" => file.generation = 0
      /\ \/ file.generation > acked.generation
         \/ file.generation >= visible[a].generation /\ Snapshot(file) = Snapshot(acked)
  <2>1. CASE publish[p].caller = "commit"
    <3>1. /\ ViewIsNewest(p) /\ a = impl[p].active_slot
          /\ file.generation = impl[p].generation + 1
      BY <1>1, <2>1 DEF PublishSound, OtherSlot, Slots, TypeOK
    <3>2. /\ visible[a].generation = impl[p].generation /\ visible[a].kind = "intact"
          /\ impl[p].generation \in Nat
      BY <3>1 DEF Succeeds, ViewIsNewest, Snapshot, TypeOK
    <3>3. Succeeds(visible[a].generation, visible[o].generation)
      BY <3>1, <3>2 DEF ViewIsNewest, OtherSlot, Slots, TypeOK
    <3>4. KeepsAcked(visible[a], visible[o]) \/ KeepsAcked(visible[o], visible[a])
      BY <1>3 DEF DiskSound, Slots
    <3>5. acked.generation =< visible[a].generation
      <4>1. visible[o].generation =< visible[a].generation
        BY <1>3, <3>3 DEF Succeeds
      <4>2. \/ visible[a].generation > acked.generation
            \/ visible[o].generation > acked.generation
            \/ visible[a].generation = acked.generation
            \/ visible[o].generation = acked.generation
        BY <3>4 DEF KeepsAcked, Snapshot
      <4> HIDE DEF a, o, file
      <4> QED
        BY <1>3, <4>1, <4>2
    <3> QED
      BY <1>3, <3>1, <3>2, <3>3, <3>5 DEF Succeeds
  <2>2. CASE publish[p].caller # "commit"
    <3>1. /\ file.generation = 0 /\ file.records = EmptyRecords
          /\ visible[o].generation = 0 /\ visible[a].generation = 0
      BY <1>1, <1>3, <2>2 DEF PublishSound
    <3>2. acked.generation = 0
      BY <1>3, <3>1 DEF Succeeds, DiskSound, KeepsAcked, Snapshot, Slots
    <3> QED
      BY <1>3, <3>1, <3>2 DEF DiskSound, Snapshot, Succeeds
  <2> QED
    BY <2>1, <2>2
<1>7. durable[o] = visible[o] /\ durable[a] = visible[a]
  BY <1>2
<1>8. CASE o = "A"
  <2>1. a = "B"
    BY <1>8 DEF OtherSlot
  <2> QED
    BY <1>3, <1>4, <1>5, <1>6, <1>7, <1>8, <2>1 DEF Succeeds, DiskSound, Sound, KeepsAcked, Snapshot, Slots
<1>9. CASE o = "B"
  <2>1. a = "A"
    BY <1>9 DEF OtherSlot
  <2> QED
    BY <1>3, <1>4, <1>5, <1>6, <1>7, <1>9, <2>1 DEF Succeeds, DiskSound, Sound, KeepsAcked, Snapshot, Slots
<1> QED
  BY <1>3, <1>4, <1>8, <1>9 DEF Slots

\* After the fsync the durable entries are the visible ones.
LEMMA SyncIsSound ==
    ASSUME TypeOK, DiskSound, SynchronizeDirectory, visible' = visible
    PROVE  durable' = visible
<1>1. \A s \in Slots : Persisted(visible[s]) = {visible[s]}
  BY DEF DiskSound, Sound, Persisted
<1>2. \A s \in Slots : durable'[s] = visible[s]
  BY <1>1 DEF SynchronizeDirectory
<1>3. durable' \in [Slots -> SnapshotFile]
  BY SynchronizeType
<1> QED
  BY <1>2, <1>3 DEF TypeOK

LEMMA HardenedIsSound ==
    ASSUME DiskSound, visible' = visible, acked' = acked,
           \A s \in Slots : durable'[s] \in {durable[s], visible[s]},
           TypeOK, TypeOK'
    PROVE  DiskSound'
<1>1. \A s \in Slots : visible[s].generation \in Nat
  BY DEF TypeOK, SnapshotFile
<1> QED
  BY <1>1 DEF Succeeds, DiskSound, Sound, KeepsAcked, Snapshot, Slots

\* An indeterminate failure poisons a commit and fails an Open.
LEMMA IndeterminateIsSound ==
    ASSUME TypeOK, LockOwner, NEW p \in Procs, lock = p, PublishIsIndeterminate(p)
    PROVE  OwnerSound'
<1>1. CASE publish[p].caller = "commit"
  <2>1. /\ impl' = [impl EXCEPT ![p].usable = FALSE]
        /\ pc' = [pc EXCEPT ![p] = "open"]
    BY <1>1 DEF PublishIsIndeterminate
  <2>2. ~ impl'[p].usable /\ pc'[p] = "open"
    BY <2>1 DEF TypeOK
  <2>3. OwnerSoundAt(p)'
    BY <2>2 DEF OwnerSoundAt
  <2> QED
    BY <2>1, <2>3, OwnerStep
<1>2. CASE publish[p].caller # "commit"
  <2>1. pc' = [pc EXCEPT ![p] = "closed"]
    BY <1>2 DEF PublishIsIndeterminate, Forget
  <2>2. OwnerSoundAt(p)'
    BY <2>1, IdleIsSound DEF TypeOK, Idle
  <2> QED
    BY <2>1, <2>2, OwnerStep
<1> QED
  BY <1>1, <1>2

(***************************************************************************)
(* One step of an undamaged database keeps the disk and the owner sound.   *)
(***************************************************************************)
LEMMA SoundStep ==
    ASSUME OneConfig, TypeOK, TypeOK', LockOwner, DiskSound, OwnerSound, [Next]_vars,
           damage' = "none"
    PROVE  DiskSound' /\ OwnerSound'
<1>1. ASSUME NEW p \in Procs, EnsureDirectory(p) \/ SynchronizeCreatedDirectoryChain(p)
      PROVE  DiskSound' /\ OwnerSound'
  <2>1. /\ visible' = visible /\ durable' = durable /\ acked' = acked
        /\ impl' = impl /\ publish' = publish
        /\ pc'[p] \in Idle /\ \A q \in Procs \ {p} : pc'[q] = pc[q]
    BY <1>1 DEF EnsureDirectory, SynchronizeCreatedDirectoryChain, Goto, Idle, TypeOK
  <2> QED
    BY <2>1, DiskSame, OwnerSame, IdleIsSound DEF OwnerSound
<1>2. ASSUME NEW p \in Procs, AcquireLock(p) PROVE DiskSound' /\ OwnerSound'
  <2>1. /\ visible' = visible /\ durable' = durable /\ acked' = acked
        /\ impl' = impl /\ publish' = publish
        /\ pc'[p] = "read" /\ \A q \in Procs \ {p} : pc'[q] = pc[q]
    BY <1>2 DEF AcquireLock, TypeOK
  <2>2. OwnerSoundAt(p)'
    BY <2>1 DEF OwnerSoundAt
  <2> QED
    BY <2>1, <2>2, DiskSame, OwnerSame DEF OwnerSound
<1>3. ASSUME NEW p \in Procs, OpenFails(p) \/ CloseOrDie(p) PROVE DiskSound' /\ OwnerSound'
  BY <1>3, DiskSame, ForgetIsSound DEF OpenFails, CloseOrDie, DiskUnchanged
<1>4. ASSUME NEW p \in Procs, OpenReadSlots(p) PROVE DiskSound' /\ OwnerSound'
  <2>1. /\ lock = p /\ visible' = visible /\ durable' = durable /\ acked' = acked
    BY <1>4 DEF OpenReadSlots, DiskUnchanged, LockOwner
  <2>2. DiskSound'
    BY <2>1, DiskSame
  <2>3. PICK st \in [Slots -> {"Missing", "Valid", "Corrupt", "Fatal"}] :
          /\ ReadSlots(p, st)
          /\ \/ Forget(p)
             \/ /\ BothMissing(st) /\ EncodeVerdict(EmptyRecords, config[p]) = "Ok"
                /\ StartPublish(p, "A", Genesis, "genesisA")
             \/ /\ ~Refused(visible, st)
                /\ \E s \in Slots : /\ LoneSurvivor(st, s)
                                    /\ EncodeVerdict(EmptyRecords, config[p]) = "Ok"
                                    /\ StartPublish(p, OtherSlot(s), Genesis, "restore")
             \/ /\ ~Refused(visible, st)
                /\ \A s \in Slots : st[s] # "Missing"
                /\ Adopt(p, SelectSlot(visible, st))
    BY <1>4 DEF OpenReadSlots
  <2>4. \A s \in Slots : /\ st[s] = "Missing" => visible[s].kind = "missing"
                         /\ st[s] = "Valid" => visible[s].kind = "intact"
    BY <2>3, SoundStatus DEF ReadSlots, DiskSound, Sound, TypeOK
  <2>5. CASE Forget(p)
    BY <2>1, <2>2, <2>5, ForgetIsSound
  <2>6. CASE BothMissing(st) /\ EncodeVerdict(EmptyRecords, config[p]) = "Ok"
             /\ StartPublish(p, "A", Genesis, "genesisA")
    <3>1. \A s \in Slots : visible[s].generation = 0 /\ durable[s].generation = 0
      BY <2>4, <2>6 DEF Succeeds, BothMissing, DiskSound, KeepsAcked, Slots
    <3> QED
      BY <2>1, <2>2, <2>6, <3>1, GenesisStarts DEF Slots
  <2>7. ASSUME ~Refused(visible, st), NEW s \in Slots, LoneSurvivor(st, s),
               EncodeVerdict(EmptyRecords, config[p]) = "Ok",
               StartPublish(p, OtherSlot(s), Genesis, "restore")
        PROVE  OwnerSound'
    <3>1. OtherSlot(s) \in Slots /\ OtherSlot(OtherSlot(s)) = s
      BY DEF OtherSlot, Slots
    <3>2. visible[OtherSlot(s)].kind = "missing" /\ visible[s].kind = "intact"
      BY <2>4, <2>7, <3>1 DEF LoneSurvivor
    <3>3. \A x \in Slots : visible[x].generation = 0 /\ durable[x].generation = 0
      BY <3>2 DEF Succeeds, DiskSound, KeepsAcked, Slots, TypeOK, SnapshotFile, OtherSlot
    <3> QED
      BY <2>1, <2>7, <3>1, <3>2, <3>3, GenesisStarts
  <2>8. CASE ~Refused(visible, st) /\ (\A s \in Slots : st[s] # "Missing")
             /\ Adopt(p, SelectSlot(visible, st))
    BY <2>1, <2>2, <2>3, <2>8, SelectedIsNewest, AdoptIsSound
  <2> QED
    BY <2>2, <2>3, <2>5, <2>6, <2>7, <2>8
<1>5. ASSUME NEW p \in Procs, OpenReadRestored(p) PROVE DiskSound' /\ OwnerSound'
  <2>1. /\ lock = p /\ visible' = visible /\ durable' = durable /\ acked' = acked
    BY <1>5 DEF OpenReadRestored, DiskUnchanged, LockOwner
  <2>2. DiskSound'
    BY <2>1, DiskSame
  <2>3. CASE Forget(p)
    BY <2>1, <2>2, <2>3, ForgetIsSound
  <2>4. CASE Adopt(p, "A")
    <3>1. PublishSound(p) /\ pc[p] = "restored"
      BY <1>5 DEF OpenReadRestored, OwnerSound, OwnerSoundAt
    <3>2. \A s \in Slots : visible[s].generation = 0 /\ visible[s].kind = "intact"
      BY <3>1 DEF PublishSound, PendingFile, TypeOK, OtherSlot, Slots
    <3> QED
      BY <2>1, <2>2, <2>4, <3>2, AdoptIsSound DEF Succeeds, OtherSlot, Slots
  <2> QED
    BY <1>5, <2>3, <2>4 DEF OpenReadRestored
<1>6. ASSUME NEW p \in Procs, NEW batch \in Batches, Commit(p, batch)
      PROVE  DiskSound' /\ OwnerSound'
  <2> DEFINE n == impl[p].generation
             file == EncodeSnapshot(Candidate(batch, impl[p].records, n + 1), n + 1)
             a == impl[p].active_slot
  <2>1. /\ lock = p /\ visible' = visible /\ durable' = durable /\ acked' = acked
        /\ impl' = impl /\ impl[p].usable
        /\ pc' = [pc EXCEPT ![p] = "prepare"] /\ pc'[p] = "prepare"
        /\ publish'[p] = [slot |-> OtherSlot(a), file |-> file, caller |-> "commit"]
    BY <1>6 DEF Commit, StartPublish, Goto, DiskUnchanged, LockOwner, TypeOK
  <2>2. DiskSound'
    BY <2>1, DiskSame
  <2>3. ViewIsNewest(p)
    BY <1>6 DEF Commit, OwnerSound, OwnerSoundAt
  <2>4. DecodeVerdict(file, config[p]) = "Ok"
    <3>1. n \in Nat /\ impl[p].records \in RecordMap /\ config[p] \in Configs /\ a \in Slots
      BY DEF TypeOK
    <3>2. DecodeVerdict(visible[a], config[p]) = "Ok" /\ visible[a].kind = "intact"
      BY <2>3, <3>1 DEF Succeeds, ViewIsNewest, DiskSound, Sound
    <3>3. visible[a].generation = n /\ visible[a].records = impl[p].records
      BY <2>3 DEF Succeeds, ViewIsNewest, Snapshot
    <3>4. \A k \in Keys : impl[p].records[k].revision \in Nat
      BY <3>1 DEF RecordMap, StoredRecord
    <3>5. \A k \in Keys : /\ impl[p].records[k].revision =< n
                          /\ ~ (ValueBytes[impl[p].records[k].value] > config[p].max_value_bytes)
      BY <3>1, <3>2, <3>3, <3>4 DEF DecodeVerdict
    <3>6. Accepts(batch, n, impl[p].records, config[p])
      BY <1>6 DEF Commit
    <3> QED
      BY <3>1, <3>5, <3>6, CommitDecodes
  <2>5. \A limits \in Configs : DecodeVerdict(file, limits) = "Ok"
    BY <2>4 DEF OneConfig, TypeOK
  <2>6. file.kind = "intact" /\ file.generation = n + 1
    BY DEF EncodeSnapshot
  <2> HIDE DEF file
  <2>7. ViewIsNewest(p)'
    BY <2>1, <2>3 DEF Succeeds, ViewIsNewest, Snapshot
  <2>8. PendingFile(p)'
    BY <2>1, <2>5, <2>6 DEF PendingFile
  <2>9. PublishSound(p)'
    <3>1. visible[a].kind = "intact" /\ visible[a].generation = impl[p].generation
      BY <2>3 DEF Succeeds, ViewIsNewest, Snapshot
    <3> QED
      BY <2>1, <2>6, <2>7, <2>8, <3>1 DEF PublishSound
  <2>10. OwnerSoundAt(p)'
    BY <2>1, <2>9 DEF OwnerSoundAt
  <2> QED
    BY <2>1, <2>2, <2>10, OwnerStep
<1>7. ASSUME NEW p \in Procs, PublishFails(p) PROVE DiskSound' /\ OwnerSound'
  <2>1. /\ lock = p /\ visible' = visible /\ durable' = durable /\ acked' = acked
    BY <1>7 DEF PublishFails, DiskUnchanged, LockOwner
  <2>2. DiskSound'
    BY <2>1, DiskSame
  <2>3. CASE publish[p].caller = "commit"
    <3>1. pc' = [pc EXCEPT ![p] = "open"] /\ impl' = impl
      BY <1>7, <2>3 DEF PublishFails, Goto
    <3>2. ViewIsNewest(p)
      BY <1>7, <2>3 DEF PublishFails, OwnerSound, OwnerSoundAt, PublishSound
    <3>3. ViewIsNewest(p)'
      BY <2>1, <3>1, <3>2 DEF Succeeds, ViewIsNewest, Snapshot
    <3>4. OwnerSoundAt(p)'
      BY <3>1, <3>3 DEF OwnerSoundAt, TypeOK
    <3> QED
      BY <2>1, <2>2, <3>1, <3>4, OwnerStep
  <2>4. CASE publish[p].caller # "commit"
    BY <1>7, <2>1, <2>2, <2>4, ForgetIsSound DEF PublishFails
  <2> QED
    BY <2>3, <2>4
<1>8. ASSUME NEW p \in Procs, PrepareDirectory(p) PROVE DiskSound' /\ OwnerSound'
  <2>1. /\ lock = p /\ visible' = visible /\ acked' = acked /\ impl' = impl
        /\ publish' = publish /\ durable' = visible
        /\ pc' = [pc EXCEPT ![p] = "write"] /\ pc'[p] = "write" /\ pc[p] = "prepare"
    BY <1>8, SyncIsSound DEF PrepareDirectory, Goto, LockOwner, TypeOK
  <2>2. DiskSound'
    BY <2>1, HardenedIsSound
  <2>3. PublishSound(p)
    BY <2>1 DEF OwnerSound, OwnerSoundAt
  <2>4. PublishSound(p)'
    BY <2>1, <2>3 DEF Succeeds, PublishSound, PendingFile, ViewIsNewest, Snapshot
  <2>5. OwnerSoundAt(p)'
    BY <2>1, <2>4 DEF OwnerSoundAt
  <2> QED
    BY <2>1, <2>2, <2>5, OwnerStep
<1>9. ASSUME NEW p \in Procs, WriteTemporary(p) PROVE DiskSound' /\ OwnerSound'
  <2>1. /\ lock = p /\ visible' = visible /\ durable' = durable /\ acked' = acked
        /\ impl' = impl
        /\ pc' = [pc EXCEPT ![p] = "rename"] /\ pc'[p] = "rename" /\ pc[p] = "write"
    BY <1>9 DEF WriteTemporary, Goto, DiskUnchanged, LockOwner, TypeOK
  <2>2. DiskSound'
    BY <2>1, DiskSame
  <2>3. /\ publish'[p].slot = publish[p].slot /\ publish'[p].caller = publish[p].caller
        /\ publish'[p].file = [publish[p].file EXCEPT !.flushed = TRUE]
    BY <1>9 DEF WriteTemporary, TypeOK
  <2>4. /\ publish'[p].file.kind = publish[p].file.kind /\ publish'[p].file.flushed
        /\ publish'[p].file.generation = publish[p].file.generation
        /\ publish'[p].file.records = publish[p].file.records
    BY <2>3 DEF TypeOK, SnapshotFile
  <2>5. PublishSound(p)
    BY <2>1 DEF OwnerSound, OwnerSoundAt
  <2>6. \A limits : DecodeVerdict(publish'[p].file, limits) = DecodeVerdict(publish[p].file, limits)
    BY <2>4 DEF DecodeVerdict
  <2>7. PendingFile(p)'
    BY <2>1, <2>4, <2>5, <2>6 DEF PublishSound, PendingFile
  <2>8. PublishSound(p)'
    BY <2>1, <2>3, <2>4, <2>5, <2>7 DEF Succeeds, PublishSound, ViewIsNewest, Snapshot
  <2>9. OwnerSoundAt(p)'
    BY <2>1, <2>8 DEF OwnerSoundAt
  <2> QED
    BY <2>1, <2>2, <2>9, OwnerStep
<1>10. ASSUME NEW p \in Procs, RenameOverSlot(p) PROVE DiskSound' /\ OwnerSound'
  <2>1. /\ lock = p /\ durable' = durable /\ acked' = acked /\ pc[p] = "rename"
    BY <1>10 DEF RenameOverSlot, LockOwner
  <2>2. PublishSound(p)
    BY <2>1 DEF OwnerSound, OwnerSoundAt
  <2>3. CASE Replace(p) /\ Goto(p, "sync") /\ publish' = publish
    <3>1. /\ DiskSound' /\ visible'[publish[p].slot] = publish[p].file
          /\ visible'[OtherSlot(publish[p].slot)] = visible[OtherSlot(publish[p].slot)]
      BY <2>1, <2>3, ReplaceIsSound
    <3>2. /\ pc' = [pc EXCEPT ![p] = "sync"] /\ pc'[p] = "sync" /\ impl' = impl
      BY <2>3 DEF Goto, TypeOK
    <3>3. publish[p].slot \in Slots
      BY DEF TypeOK
    <3>4. PendingFile(p)'
      BY <2>1, <2>2, <2>3, <3>2 DEF PublishSound, PendingFile
    <3>5. PublishSound(p)'
      <4>1. CASE publish[p].caller = "commit"
        <5>1. OtherSlot(publish[p].slot) = impl[p].active_slot
          BY <2>2, <4>1 DEF PublishSound, OtherSlot, Slots, TypeOK
        <5> QED
          BY <2>1, <2>2, <2>3, <3>1, <3>2, <3>4, <4>1, <5>1 DEF PublishSound
      <4>2. CASE publish[p].caller # "commit"
        <5>1. \A s \in Slots : visible'[s].generation = 0 /\ durable'[s].generation = 0
          BY <2>1, <2>2, <3>1, <3>3, <4>2 DEF PublishSound, Slots, OtherSlot
        <5> QED
          BY <2>1, <2>2, <2>3, <3>1, <3>2, <3>4, <4>2, <5>1 DEF PublishSound
      <4> QED
        BY <4>1, <4>2
    <3>6. OwnerSoundAt(p)'
      BY <3>2, <3>5 DEF OwnerSoundAt
    <3> QED
      BY <2>1, <3>1, <3>2, <3>6, OwnerStep
  <2>4. CASE Replace(p) /\ PublishIsIndeterminate(p)
    BY <2>1, <2>4, ReplaceIsSound, IndeterminateIsSound
  <2>5. CASE visible' = visible /\ PublishIsIndeterminate(p)
    BY <2>1, <2>5, DiskSame, IndeterminateIsSound
  <2> QED
    BY <1>10, <2>3, <2>4, <2>5 DEF RenameOverSlot
<1>11. ASSUME NEW p \in Procs, SyncReplacementFails(p) PROVE DiskSound' /\ OwnerSound'
  BY <1>11, DiskSame, IndeterminateIsSound DEF SyncReplacementFails, DiskUnchanged, LockOwner
<1>12. ASSUME NEW p \in Procs, SyncReplacement(p) PROVE DiskSound' /\ OwnerSound'
  <2>1. /\ lock = p /\ visible' = visible /\ durable' = visible /\ pc[p] = "sync"
    BY <1>12, SyncIsSound DEF SyncReplacement, LockOwner
  <2>2. PublishSound(p)
    BY <2>1 DEF OwnerSound, OwnerSoundAt
  <2>3. acked' = acked => DiskSound'
    BY <2>1, HardenedIsSound
  <2>4. CASE publish[p].caller = "commit"
    <3> DEFINE o == publish[p].slot
               a == OtherSlot(o)
               file == publish[p].file
    <3>1. /\ impl'[p] = [active_slot |-> o, generation |-> file.generation,
                         records |-> file.records, usable |-> TRUE]
          /\ pc' = [pc EXCEPT ![p] = "open"] /\ pc'[p] = "open"
          /\ acked' = file
      BY <1>12, <2>4 DEF SyncReplacement, TypeOK
    <3>2. /\ visible[o] = file /\ file.kind = "intact"
          /\ file.generation = impl[p].generation + 1 /\ a = impl[p].active_slot
      BY <2>1, <2>2, <2>4 DEF PublishSound, PendingFile, OtherSlot, Slots, TypeOK
    <3>3. /\ o \in Slots /\ a \in Slots /\ o # a
          /\ impl[p].generation \in Nat /\ visible[a].generation \in Nat
          /\ file.generation \in Nat /\ acked.generation \in Nat
      BY DEF TypeOK, SnapshotFile, OtherSlot, Slots
    <3>4. file.generation # 0
      BY <3>2, <3>3
    <3>5. visible[a].kind = "intact" /\ file.generation = visible[a].generation + 1
      BY <2>2, <2>4, <3>2, <3>3 DEF PublishSound
    <3>6. ViewIsNewest(p)'
      <4>1. /\ visible'[o] = file /\ visible'[a] = visible[a]
            /\ impl'[p].active_slot = o /\ impl'[p].generation = file.generation
            /\ impl'[p].records = file.records
        BY <2>1, <3>1, <3>2
      <4> HIDE DEF file, a, o
      <4> QED
        BY <3>2, <3>5, <4>1 DEF Succeeds, ViewIsNewest, Snapshot, a
    <3>7. OwnerSoundAt(p)'
      BY <3>1, <3>6 DEF OwnerSoundAt
    <3>8. DiskSound'
      <4>1. CASE o = "A"
        BY <2>1, <3>1, <3>2, <3>3, <3>4, <3>5, <4>1
           DEF Succeeds, DiskSound, Sound, KeepsAcked, Snapshot, Slots, OtherSlot
      <4>2. CASE o = "B"
        BY <2>1, <3>1, <3>2, <3>3, <3>4, <3>5, <4>2
           DEF Succeeds, DiskSound, Sound, KeepsAcked, Snapshot, Slots, OtherSlot
      <4> QED
        BY <3>3, <4>1, <4>2 DEF Slots
    <3> QED
      BY <2>1, <3>1, <3>7, <3>8, OwnerStep
  <2>5. CASE publish[p].caller # "commit"
    <3>1. \A s \in Slots : visible'[s].generation = 0 /\ durable'[s].generation = 0
      BY <2>1, <2>2, <2>5 DEF PublishSound
    <3>2. DiskSound' /\ config[p] \in Configs
      BY <1>12, <2>3, <2>5 DEF SyncReplacement, TypeOK
    <3>3. CASE publish[p].caller = "genesisA" /\ StartPublish(p, "B", Genesis, "genesisB")
      <4>1. publish[p].file.records = EmptyRecords
            /\ DecodeVerdict(publish[p].file, config[p]) = "Ok"
            /\ publish[p].file.kind = "intact"
        BY <2>2, <2>5, <3>2 DEF PublishSound, PendingFile
      <4>2. EncodeVerdict(EmptyRecords, config[p]) = "Ok"
        BY <4>1 DEF DecodeVerdict, EncodeVerdict
      <4> QED
        BY <2>1, <3>1, <3>2, <3>3, <4>2, GenesisStarts DEF Slots
    <3>4. CASE Goto(p, "reread")
      <4>1. pc' = [pc EXCEPT ![p] = "reread"] /\ pc'[p] = "reread"
        BY <3>4 DEF Goto, TypeOK
      <4>2. OwnerSoundAt(p)'
        BY <4>1 DEF OwnerSoundAt
      <4> QED
        BY <2>1, <3>2, <4>1, <4>2, OwnerStep
    <3>5. CASE publish[p].caller = "restore" /\ Goto(p, "restored") /\ publish' = publish
      <4>1. pc' = [pc EXCEPT ![p] = "restored"] /\ pc'[p] = "restored"
        BY <3>5 DEF Goto, TypeOK
      <4>2. PendingFile(p)'
        BY <2>1, <2>2, <3>5, <4>1 DEF PublishSound, PendingFile
      <4>3. PublishSound(p)'
        BY <2>1, <2>2, <3>1, <3>5, <4>1, <4>2 DEF PublishSound
      <4>4. OwnerSoundAt(p)'
        BY <4>1, <4>3 DEF OwnerSoundAt
      <4> QED
        BY <2>1, <3>2, <4>1, <4>4, OwnerStep
    <3> QED
      BY <1>12, <2>5, <3>3, <3>4, <3>5 DEF SyncReplacement
  <2> QED
    BY <2>4, <2>5
<1>13. ASSUME NEW s \in Slots, Writeback(s) PROVE DiskSound' /\ OwnerSound'
  <2>1. /\ visible' = visible /\ acked' = acked /\ impl' = impl /\ publish' = publish /\ pc' = pc
        /\ durable' = [durable EXCEPT ![s] = visible[s]]
    BY <1>13 DEF Writeback, Persisted, DiskSound, Sound
  <2>2. \A x \in Slots : durable'[x] \in {durable[x], visible[x]}
    BY <2>1 DEF TypeOK
  <2>3. DiskSound'
    BY <2>1, <2>2, HardenedIsSound
  <2>4. visible = durable => durable' = durable
    BY <2>1 DEF TypeOK
  <2>5. \A x \in Slots : visible[x].generation = 0 /\ durable[x].generation = 0
                            => durable'[x].generation = 0
    BY <2>2
  <2> SUFFICES ASSUME NEW q \in Procs PROVE OwnerSoundAt(q)'
    BY <2>3 DEF OwnerSound
  <2> QED
    BY <2>1, <2>4, <2>5 DEF Succeeds, OwnerSound, OwnerSoundAt, PublishSound, PendingFile, ViewIsNewest, Snapshot
<1>14. CASE PowerLoss
  <2>1. \A q \in Procs : OwnerSoundAt(q)'
    BY <1>14, IdleIsSound DEF PowerLoss, Idle
  <2>2. CASE visible' = durable /\ durable' = durable
    BY <1>14, <2>1, <2>2 DEF Succeeds, PowerLoss, OwnerSound, DiskSound, Sound, KeepsAcked, Snapshot, TypeOK,
          SnapshotFile, Slots
  <2>3. CASE visible' = [s \in Slots |-> MissingFile] /\ durable' = [s \in Slots |-> MissingFile]
             /\ damage' = IF acked.generation = 0 THEN damage ELSE "directory"
    <3>1. acked.generation = 0 /\ acked' = acked
      BY <1>14, <2>3 DEF PowerLoss
    <3>2. /\ MissingFile.kind = "missing" /\ MissingFile.generation = 0
          /\ MissingFile.records = EmptyRecords /\ MissingFile.flushed
      BY DEF MissingFile, NotAFile
    <3>3. \A s \in Slots : visible'[s] = MissingFile /\ durable'[s] = MissingFile
      BY <2>3
    <3>4. acked.records = EmptyRecords
      BY <3>1 DEF DiskSound
    <3>5. "A" \in Slots /\ "B" \in Slots
      BY DEF Slots
    <3> QED
      BY <2>1, <3>1, <3>2, <3>3, <3>4, <3>5 DEF Succeeds, OwnerSound, DiskSound, Sound, KeepsAcked, Snapshot
  <2> QED
    BY <1>14, <2>2, <2>3 DEF PowerLoss
<1>15. ASSUME NEW s \in Slots, NEW kind \in DamageKinds, Damage(s, kind) PROVE FALSE
  BY <1>15, EnvironmentAssumption DEF Damage
<1>16. CASE UNCHANGED vars
  BY <1>16, DiskSame, OwnerSame DEF vars, OwnerSound
<1> QED
  BY <1>1, <1>2, <1>3, <1>4, <1>5, <1>6, <1>7, <1>8, <1>9, <1>10, <1>11, <1>12, <1>13, <1>14,
     <1>15, <1>16 DEF Next, OpenStep, PublishStep

LEMMA UndamagedBefore ==
    ASSUME [Next]_vars, damage' = "none" PROVE damage = "none"
<1>1. ASSUME NEW p \in Procs, OpenStep(p) \/ PublishStep(p) \/ CloseOrDie(p) PROVE damage' = damage
  BY <1>1 DEF OpenStep, PublishStep, CloseOrDie, EnsureDirectory, SynchronizeCreatedDirectoryChain,
        AcquireLock, OpenFails, OpenReadSlots, OpenReadRestored, PrepareDirectory, WriteTemporary,
        RenameOverSlot, SyncReplacement, PublishFails, SyncReplacementFails, DiskUnchanged
<1>2. ASSUME NEW p \in Procs, NEW batch \in Batches, Commit(p, batch) PROVE damage' = damage
  BY <1>2 DEF Commit, DiskUnchanged
<1>3. ASSUME NEW s \in Slots, Writeback(s) PROVE damage' = damage
  BY <1>3 DEF Writeback
<1>4. CASE PowerLoss
  BY <1>4 DEF PowerLoss
<1>5. ASSUME NEW s \in Slots, NEW kind \in DamageKinds, Damage(s, kind) PROVE damage = "none"
  BY <1>5 DEF Damage
<1> QED
  BY <1>1, <1>2, <1>3, <1>4, <1>5 DEF Next, vars

LEMMA InvariantInit == Init => DatabaseInvariant
<1> SUFFICES ASSUME Init PROVE DatabaseInvariant
  OBVIOUS
<1>1. TypeOK
  BY TypeInit
<1>2. LockOwner
  BY DEF Init, LockOwner
<1>3. OwnerSound
  BY DEF Init, OwnerSound, OwnerSoundAt
<1>4. /\ MissingFile.kind = "missing" /\ MissingFile.generation = 0
      /\ MissingFile.records = EmptyRecords /\ MissingFile.flushed
  BY DEF MissingFile, NotAFile
<1>5. acked.generation = 0 /\ acked.records = EmptyRecords
  BY DEF Init, Genesis, EncodeSnapshot
<1>6. \A s \in Slots : visible[s] = MissingFile /\ durable[s] = MissingFile
  BY DEF Init
<1>7. "A" \in Slots /\ "B" \in Slots
  BY DEF Slots
<1>8. DiskSound
  BY <1>4, <1>5, <1>6, <1>7 DEF Succeeds, DiskSound, Sound, KeepsAcked, Snapshot
<1> QED
  BY <1>1, <1>2, <1>3, <1>8 DEF DatabaseInvariant

LEMMA InvariantStep == OneConfig /\ DatabaseInvariant /\ [Next]_vars => DatabaseInvariant'
<1> SUFFICES ASSUME OneConfig, DatabaseInvariant, [Next]_vars PROVE DatabaseInvariant'
  OBVIOUS
<1>1. TypeOK /\ LockOwner /\ TypeOK' /\ LockOwner'
  BY TypeStep, LockStep DEF DatabaseInvariant
<1>2. damage' = "none" => DiskSound /\ OwnerSound
  BY UndamagedBefore DEF DatabaseInvariant
<1>3. damage' = "none" => DiskSound' /\ OwnerSound'
  BY <1>1, <1>2, SoundStep
<1> QED
  BY <1>1, <1>3 DEF DatabaseInvariant

(***************************************************************************)
(* The inductive invariant of the undamaged database.                      *)
(***************************************************************************)
THEOREM DatabaseInvariantHolds == ASSUME OneConfig PROVE Spec => []DatabaseInvariant
BY InvariantInit, InvariantStep, PTL DEF Spec

(***************************************************************************)
(* A crash or power loss at any instant, with any of the pending directory *)
(* entries written back, leaves slots that Open recovers, on the last      *)
(* snapshot Commit acknowledged or a newer one.                            *)
(***************************************************************************)
THEOREM Durability == ASSUME OneConfig PROVE Spec => []AcknowledgedCommitSurvives
<1>1. DatabaseInvariant => AcknowledgedCommitSurvives
  BY DiskSoundSurvives DEF DatabaseInvariant, AcknowledgedCommitSurvives
<1> QED
  BY <1>1, DatabaseInvariantHolds, PTL

(***************************************************************************)
(* An instance that still answers serves the newest snapshot on the disk:  *)
(* no failed, retried or indeterminate publication separates the two.      *)
(***************************************************************************)
THEOREM ViewAgreement == ASSUME OneConfig PROVE Spec => []UsableViewIsNewest
<1>1. DatabaseInvariant => UsableViewIsNewest
  <2> SUFFICES ASSUME DatabaseInvariant, damage = "none", NEW p \in Procs,
                      pc[p] = "open", impl[p].usable
               PROVE  /\ Snapshot(Recovered(visible, config[p])) = Snapshot(impl[p])
                      /\ Snapshot(visible[impl[p].active_slot]) = Snapshot(impl[p])
    BY DEF UsableViewIsNewest
  <2> DEFINE a == impl[p].active_slot
             st == Statuses(visible, config[p])
  <2>1. TypeOK /\ DiskSound /\ ViewIsNewest(p)
    BY DEF DatabaseInvariant, OwnerSound, OwnerSoundAt
  <2>2. /\ a \in Slots /\ config[p] \in Configs
        /\ \A s \in Slots : visible[s].kind = "intact" /\ visible[s].generation \in Nat
    BY <2>1 DEF Succeeds, TypeOK, SnapshotFile, ViewIsNewest, OtherSlot, Slots
  <2>3. \A s \in Slots : st[s] = "Valid"
    BY <2>1, <2>2, SoundStatus DEF Statuses, DiskSound
  <2> HIDE DEF st
  <2>4. Recovered(visible, config[p]) = visible[SelectSlot(visible, st)]
    BY <2>2 DEF Recovered, st
  <2>5. SelectSlot(visible, st) =
          IF visible["B"].generation > visible["A"].generation THEN "B" ELSE "A"
    BY <2>3 DEF SelectSlot, Slots
  <2>6. visible[a].generation = impl[p].generation /\ visible[a].records = impl[p].records
    BY <2>1 DEF Succeeds, ViewIsNewest, Snapshot
  <2>7. Succeeds(visible[a].generation, visible[OtherSlot(a)].generation)
    BY <2>1, <2>6 DEF Succeeds, ViewIsNewest
  <2>8. \A s \in Slots : visible[s].generation = 0 => visible[s].records = EmptyRecords
    BY <2>1 DEF DiskSound, Sound
  <2>9. Snapshot(visible[SelectSlot(visible, st)]) = Snapshot(visible[a])
    BY <2>2, <2>5, <2>7, <2>8 DEF Succeeds, OtherSlot, Slots, Snapshot
  <2> QED
    BY <2>4, <2>6, <2>9 DEF Snapshot
<1> QED
  BY <1>1, DatabaseInvariantHolds, PTL

-----------------------------------------------------------------------------
(***************************************************************************)
(* The refinement of SaveStore.  Two more facts are needed: what a commit  *)
(* is about to rename is the result of one batch on what its instance      *)
(* holds, and at most one entry is on its way to the disk, so that no step *)
(* makes half of a newer snapshot durable.                                 *)
(***************************************************************************)
PendingFollowsAt(p) ==
    pc[p] \in {"prepare", "write", "rename"} /\ publish[p].caller = "commit"
        => FollowsByOneBatch(Snapshot(impl[p]), Snapshot(publish[p].file))

PendingFollows == \A p \in Procs : PendingFollowsAt(p)

OnePending == visible["A"] = durable["A"] \/ visible["B"] = durable["B"]

StoreInvariant ==
    /\ DatabaseInvariant
    /\ PendingFollows
    /\ damage = "none" => OnePending

\* Two slots that Open can choose between.
Readable(files) ==
    /\ files \in [Slots -> SnapshotFile]
    /\ Sound(files["A"]) /\ Sound(files["B"])
    /\ \/ Succeeds(files["A"].generation, files["B"].generation)
       \/ Succeeds(files["B"].generation, files["A"].generation)
    /\ (files["A"].kind = "missing" \/ files["B"].kind = "missing")
          => files["A"].generation = 0 /\ files["B"].generation = 0

Newest(files) ==
    IF files["B"].generation > files["A"].generation
    THEN Snapshot(files["B"]) ELSE Snapshot(files["A"])

LEMMA RecoveredIsNewest ==
    ASSUME NEW files, Readable(files), NEW limits \in Configs
    PROVE  Snapshot(Recovered(files, limits)) = Newest(files)
<1> DEFINE st == Statuses(files, limits)
<1>1. /\ files["A"].generation \in Nat /\ files["B"].generation \in Nat
      /\ files["A"].generation = 0 => files["A"].records = EmptyRecords
      /\ files["B"].generation = 0 => files["B"].records = EmptyRecords
  BY DEF Readable, SnapshotFile, Slots, Sound
<1>2. CASE \E s \in Slots : files[s].kind = "missing"
  <2>1. Recovered(files, limits) = Genesis
    BY <1>2 DEF Recovered
  <2>2. files["A"].generation = 0 /\ files["B"].generation = 0
    BY <1>2 DEF Readable, Slots
  <2> QED
    BY <1>1, <2>1, <2>2 DEF Newest, Snapshot, Genesis, EncodeSnapshot
<1>3. CASE ~ \E s \in Slots : files[s].kind = "missing"
  <2>1. Recovered(files, limits) = files[SelectSlot(files, st)]
    BY <1>3 DEF Recovered
  <2>2. st["A"] = "Valid" /\ st["B"] = "Valid"
    BY <1>3, SoundStatus DEF Statuses, Slots, Readable
  <2> HIDE DEF st
  <2>3. SelectSlot(files, st) = IF files["B"].generation > files["A"].generation THEN "B" ELSE "A"
    BY <2>2 DEF SelectSlot
  <2> QED
    BY <2>1, <2>3 DEF Newest
<1> QED
  BY <1>2, <1>3

LEMMA DiskIsReadable ==
    ASSUME TypeOK, DiskSound
    PROVE  Readable(visible) /\ Readable(durable)
BY DEF TypeOK, DiskSound, Readable, KeepsAcked, Slots

\* What a step can do to an undamaged disk.
LEMMA DiskMoves ==
    ASSUME TypeOK, LockOwner, DiskSound, OwnerSound, OnePending, [Next]_vars,
           damage = "none", damage' = "none"
    PROVE  \/ visible' = visible /\ durable' = durable
           \/ visible' = visible /\ durable' = visible
           \/ /\ visible' = durable'
              /\ directory = "durable" => durable' = durable
           \/ \E p \in Procs : pc[p] = "rename" /\ Replace(p) /\ durable' = durable
<1>1. ASSUME NEW p \in Procs, OpenStep(p) \/ CloseOrDie(p) \/ PublishFails(p)
                              \/ WriteTemporary(p) \/ SyncReplacementFails(p)
      PROVE  visible' = visible /\ durable' = durable
  BY <1>1 DEF OpenStep, CloseOrDie, PublishFails, WriteTemporary, SyncReplacementFails, DiskUnchanged,
        EnsureDirectory, SynchronizeCreatedDirectoryChain, AcquireLock, OpenFails, OpenReadSlots,
        OpenReadRestored
<1>2. ASSUME NEW p \in Procs, NEW batch \in Batches, Commit(p, batch)
      PROVE  visible' = visible /\ durable' = durable
  BY <1>2 DEF Commit, DiskUnchanged
<1>3. ASSUME NEW p \in Procs, PrepareDirectory(p) \/ SyncReplacement(p)
      PROVE  visible' = visible /\ durable' = visible
  BY <1>3, SyncIsSound DEF PrepareDirectory, SyncReplacement
<1>4. ASSUME NEW p \in Procs, RenameOverSlot(p)
      PROVE  \/ visible' = visible /\ durable' = durable
             \/ pc[p] = "rename" /\ Replace(p) /\ durable' = durable
  BY <1>4 DEF RenameOverSlot
<1>5. ASSUME NEW s \in Slots, Writeback(s) PROVE visible' = visible /\ durable' = visible
  <2>1. visible' = visible /\ durable' = [durable EXCEPT ![s] = visible[s]]
    BY <1>5 DEF Writeback, Persisted, DiskSound, Sound
  <2>2. visible[s] # durable[s]
    BY <1>5 DEF Writeback
  <2>3. \A x \in Slots : durable'[x] = visible[x]
    BY <2>1, <2>2 DEF OnePending, Slots, TypeOK
  <2> QED
    BY <2>1, <2>3 DEF TypeOK
<1>6. CASE PowerLoss
  BY <1>6 DEF PowerLoss
<1>7. ASSUME NEW s \in Slots, NEW kind \in DamageKinds, Damage(s, kind) PROVE FALSE
  BY <1>7, EnvironmentAssumption DEF Damage
<1>8. CASE UNCHANGED vars
  BY <1>8 DEF vars
<1> QED
  BY <1>1, <1>2, <1>3, <1>4, <1>5, <1>6, <1>7, <1>8 DEF Next, PublishStep

LEMMA OnePendingStep ==
    ASSUME TypeOK, LockOwner, DiskSound, OwnerSound, OnePending, [Next]_vars,
           damage = "none", damage' = "none"
    PROVE  OnePending'
<1>1. ASSUME NEW p \in Procs, pc[p] = "rename", Replace(p), durable' = durable PROVE OnePending'
  <2>1. visible = durable
    BY <1>1 DEF OwnerSound, OwnerSoundAt, PublishSound
  <2>2. publish[p].slot \in Slots
    BY DEF TypeOK
  <2> QED
    BY <1>1, <2>1, <2>2 DEF Replace, OnePending, TypeOK, Slots
<1> QED
  BY <1>1, DiskMoves DEF OnePending

LEMMA PendingFollowsStep ==
    ASSUME TypeOK, PendingFollows, [Next]_vars
    PROVE  PendingFollows'
<1> SUFFICES ASSUME NEW q \in Procs PROVE PendingFollowsAt(q)'
  BY DEF PendingFollows
<1> USE DEF PendingFollowsAt
<1>0. PendingFollowsAt(q)
  BY DEF PendingFollows
<1>1. ASSUME impl'[q] = impl[q], Snapshot(publish'[q].file) = Snapshot(publish[q].file),
             publish'[q].caller = publish[q].caller,
             pc[q] \in {"prepare", "write", "rename"} \/ pc'[q] = pc[q]
      PROVE  PendingFollowsAt(q)'
  <2>1. Snapshot(impl[q])' = Snapshot(impl[q]) /\ Snapshot(publish[q].file)' = Snapshot(publish[q].file)
    BY <1>1 DEF Snapshot
  <2> QED
    BY <1>0, <1>1, <2>1 DEF FollowsByOneBatch
<1>2. ASSUME impl'[q] = impl[q], publish'[q] = publish[q],
             pc[q] \in {"prepare", "write", "rename"} \/ pc'[q] = pc[q]
      PROVE  PendingFollowsAt(q)'
  BY <1>1, <1>2 DEF Snapshot
<1>3. ASSUME NEW p \in Procs, Forget(p) PROVE PendingFollowsAt(q)'
  BY <1>2, <1>3 DEF Forget, TypeOK
<1>4. ASSUME NEW p \in Procs, NEW slot, NEW file, NEW caller, caller # "commit",
             StartPublish(p, slot, file, caller)
      PROVE  PendingFollowsAt(q)'
  BY <1>2, <1>4 DEF StartPublish, Goto, TypeOK
<1>5. ASSUME NEW p \in Procs, PublishIsIndeterminate(p) PROVE PendingFollowsAt(q)'
  BY <1>2, <1>3, <1>5 DEF PublishIsIndeterminate, TypeOK
<1>6. ASSUME NEW p \in Procs, NEW slot, Adopt(p, slot) PROVE PendingFollowsAt(q)'
  BY <1>2, <1>6 DEF Adopt, TypeOK
<1>7. ASSUME NEW p \in Procs, OpenStep(p) \/ CloseOrDie(p) PROVE PendingFollowsAt(q)'
  <2>1. CASE EnsureDirectory(p) \/ AcquireLock(p)
    BY <1>2, <2>1 DEF EnsureDirectory, AcquireLock, TypeOK
  <2>2. CASE SynchronizeCreatedDirectoryChain(p)
    BY <1>2, <2>2 DEF SynchronizeCreatedDirectoryChain, Goto, TypeOK
  <2>3. CASE OpenReadSlots(p)
    <3>1. ASSUME NEW s, StartPublish(p, s, Genesis, "genesisA") \/ StartPublish(p, s, Genesis, "restore")
          PROVE  PendingFollowsAt(q)'
      BY <1>4, <3>1
    <3> QED
      BY <1>3, <1>6, <2>3, <3>1 DEF OpenReadSlots
  <2>4. CASE OpenReadRestored(p)
    BY <1>3, <1>6, <2>4 DEF OpenReadRestored
  <2> QED
    BY <1>3, <1>7, <2>1, <2>2, <2>3, <2>4 DEF OpenStep, OpenFails, CloseOrDie
<1>8. ASSUME NEW p \in Procs, NEW batch \in Batches, Commit(p, batch) PROVE PendingFollowsAt(q)'
  <2> DEFINE n == impl[p].generation + 1
             c == Candidate(batch, impl[p].records, n)
  <2>1. CASE q # p
    BY <1>2, <1>8, <2>1 DEF Commit, StartPublish, Goto, TypeOK
  <2>2. CASE q = p
    <3>1. /\ impl' = impl
          /\ publish'[p].file = EncodeSnapshot(c, n)
          /\ Accepts(batch, impl[p].generation, impl[p].records, config[p])
          /\ config[p] \in Configs
      BY <1>8 DEF Commit, StartPublish, Goto, TypeOK
    <3>2. Snapshot(publish[p].file)' = [generation |-> n, records |-> c]
      BY <3>1 DEF Snapshot, EncodeSnapshot
    <3>3. FollowsByOneBatch(Snapshot(impl[p]), Snapshot(publish[p].file)')
      BY <3>1, <3>2 DEF FollowsByOneBatch, Snapshot
    <3>4. Snapshot(impl[p])' = Snapshot(impl[p])
      BY <3>1 DEF Snapshot
    <3> QED
      BY <2>2, <3>3, <3>4 DEF FollowsByOneBatch
  <2> QED
    BY <2>1, <2>2
<1>9. ASSUME NEW p \in Procs, PublishStep(p) PROVE PendingFollowsAt(q)'
  <2>1. CASE PrepareDirectory(p)
    BY <1>2, <2>1 DEF PrepareDirectory, Goto, TypeOK
  <2>2. CASE WriteTemporary(p)
    <3>1. /\ impl' = impl /\ pc[p] = "write"
          /\ q # p => publish'[q] = publish[q] /\ pc'[q] = pc[q]
          /\ publish'[p].caller = publish[p].caller
          /\ publish'[p].file = [publish[p].file EXCEPT !.flushed = TRUE]
      BY <2>2 DEF WriteTemporary, Goto, TypeOK
    <3>2. Snapshot(publish'[p].file) = Snapshot(publish[p].file)
      BY <3>1 DEF Snapshot, TypeOK, SnapshotFile
    <3> QED
      BY <1>1, <1>2, <3>1, <3>2
  <2>3. CASE RenameOverSlot(p)
    BY <1>2, <1>5, <2>3 DEF RenameOverSlot, Goto, TypeOK
  <2>4. CASE SyncReplacement(p)
    <3>1. CASE publish[p].caller = "commit"
      BY <1>2, <2>4, <3>1 DEF SyncReplacement, TypeOK
    <3>2. CASE publish[p].caller # "commit"
      BY <1>2, <1>4, <2>4, <3>2 DEF SyncReplacement, Goto, TypeOK
    <3> QED
      BY <3>1, <3>2
  <2>5. CASE PublishFails(p)
    BY <1>2, <1>3, <2>5 DEF PublishFails, Goto, TypeOK
  <2>6. CASE SyncReplacementFails(p)
    BY <1>5, <2>6 DEF SyncReplacementFails
  <2> QED
    BY <1>9, <2>1, <2>2, <2>3, <2>4, <2>5, <2>6 DEF PublishStep
<1>10. CASE PowerLoss
  BY <1>10 DEF PowerLoss
<1>11. CASE \/ \E s \in Slots : Writeback(s)
            \/ \E s \in Slots, kind \in DamageKinds : Damage(s, kind)
            \/ UNCHANGED vars
  BY <1>2, <1>11 DEF Writeback, Damage, vars
<1> QED
  BY <1>7, <1>8, <1>9, <1>10, <1>11 DEF Next

LEMMA StoreInvariantInit == Init => StoreInvariant
<1>1. Init => PendingFollows
  BY DEF Init, PendingFollows, PendingFollowsAt
<1>2. Init => OnePending
  BY DEF Init, OnePending
<1> QED
  BY <1>1, <1>2, InvariantInit DEF StoreInvariant

LEMMA StoreInvariantStep == OneConfig /\ StoreInvariant /\ [Next]_vars => StoreInvariant'
<1> SUFFICES ASSUME OneConfig, StoreInvariant, [Next]_vars PROVE StoreInvariant'
  OBVIOUS
<1>1. DatabaseInvariant'
  BY InvariantStep DEF StoreInvariant
<1>2. PendingFollows'
  BY PendingFollowsStep DEF StoreInvariant, DatabaseInvariant
<1>3. damage' = "none" => OnePending'
  BY UndamagedBefore, OnePendingStep DEF StoreInvariant, DatabaseInvariant
<1> QED
  BY <1>1, <1>2, <1>3 DEF StoreInvariant

\* The snapshot SaveStore sees is the newest in each view of the directory.
SeenAsNewest ==
    /\ Snapshot(Recovered(durable, AnyLimits)) = Newest(durable)
    /\ Snapshot(Recovered(visible, AnyLimits)) = Newest(visible)

LEMMA StoreView == TypeOK /\ DiskSound => SeenAsNewest
<1>1. AnyLimits \in Configs
  BY ConfigsAssumption DEF AnyLimits
<1> QED
  BY <1>1, DiskIsReadable, RecoveredIsNewest DEF SeenAsNewest

LEMMA StoreViewNext == TypeOK' /\ DiskSound' => SeenAsNewest'
BY StoreView, PTL

\* The rename publishes the result of one batch, or another empty genesis.
LEMMA ReplaceFollows ==
    ASSUME TypeOK, LockOwner, DiskSound, OwnerSound, PendingFollows, NEW p \in Procs,
           pc[p] = "rename", Replace(p)
    PROVE  /\ visible = durable
           /\ \/ FollowsByOneBatch(Newest(visible), Newest(visible'))
              \/ Newest(visible') = Newest(visible)
<1> DEFINE o == publish[p].slot
           a == OtherSlot(o)
           file == publish[p].file
<1>1. PublishSound(p)
  BY DEF OwnerSound, OwnerSoundAt
<1>2. visible = durable
  BY <1>1 DEF PublishSound
<1>3. /\ o \in Slots /\ a \in Slots /\ o # a
      /\ visible[o].generation \in Nat /\ visible[a].generation \in Nat
      /\ file.generation \in Nat /\ impl[p].generation \in Nat
  BY DEF TypeOK, SnapshotFile, OtherSlot, Slots
<1>4. visible'[o] = file /\ visible'[a] = visible[a]
  BY <1>3 DEF Replace, TypeOK
<1>5. \A s \in Slots : visible[s].generation = 0 => visible[s].records = EmptyRecords
  BY DEF DiskSound, Sound
<1>6. CASE publish[p].caller = "commit"
  <2>1. /\ ViewIsNewest(p) /\ a = impl[p].active_slot
        /\ file.generation = impl[p].generation + 1
    BY <1>1, <1>6 DEF PublishSound, OtherSlot, Slots, TypeOK
  <2>2. /\ visible[a].generation = impl[p].generation
        /\ Snapshot(visible[a]) = Snapshot(impl[p])
        /\ Succeeds(visible[a].generation, visible[o].generation)
    BY <1>3, <2>1 DEF ViewIsNewest, Snapshot, OtherSlot, Slots, TypeOK
  <2>3. Newest(visible) = Snapshot(visible[a])
    BY <1>3, <1>5, <2>2 DEF Succeeds, Newest, Snapshot, Slots, OtherSlot
  <2>4. Newest(visible') = Snapshot(file)
    BY <1>3, <1>4, <2>1, <2>2 DEF Succeeds, Newest, Slots, OtherSlot
  <2>5. FollowsByOneBatch(Snapshot(impl[p]), Snapshot(file))
    BY <1>6 DEF PendingFollows, PendingFollowsAt
  <2> QED
    BY <1>2, <2>2, <2>3, <2>4, <2>5
<1>7. CASE publish[p].caller # "commit"
  <2>1. /\ file.generation = 0 /\ file.records = EmptyRecords
        /\ \A s \in Slots : visible[s].generation = 0
    BY <1>1, <1>7 DEF PublishSound
  <2> QED
    BY <1>2, <1>3, <1>4, <1>5, <2>1 DEF Newest, Snapshot, Slots, OtherSlot
<1> QED
  BY <1>6, <1>7

LEMMA StoreStep ==
    ASSUME StoreInvariant, StoreInvariant', [Next]_vars, directory = "durable", damage' = "none"
    PROVE  [Store!Next]_(Store!storeVars)
<1> DEFINE S == Snapshot(Recovered(durable, AnyLimits))
           L == Snapshot(Recovered(visible, AnyLimits))
<1>1. /\ TypeOK /\ LockOwner /\ DiskSound /\ OwnerSound /\ OnePending /\ PendingFollows
      /\ damage = "none"
  BY UndamagedBefore DEF StoreInvariant, DatabaseInvariant
<1>2. S = Newest(durable) /\ L = Newest(visible)
  BY <1>1, StoreView DEF SeenAsNewest
<1>3. S' = Newest(durable') /\ L' = Newest(visible')
  <2>1. TypeOK' /\ DiskSound'
    BY DEF StoreInvariant, DatabaseInvariant
  <2>2. S' = Newest(durable)' /\ L' = Newest(visible)'
    BY <2>1, StoreViewNext DEF SeenAsNewest
  <2> HIDE DEF S, L
  <2> QED
    BY <2>2 DEF Newest, Snapshot
<1> SUFFICES \/ UNCHANGED <<S, L>>
             \/ L = S /\ FollowsByOneBatch(S, L') /\ S' = S
             \/ L # S /\ S' = L /\ L' = L
             \/ L # S /\ L' = S /\ S' = S
  BY DEF Store!storeVars, Store!Next, Store!Publish, Store!Harden, Store!Revert
<1> HIDE DEF S, L
<1>4. CASE visible' = visible /\ durable' = durable
  BY <1>2, <1>3, <1>4
<1>5. CASE visible' = visible /\ durable' = visible
  BY <1>2, <1>3, <1>5
<1>6. CASE visible' = durable /\ durable' = durable
  BY <1>2, <1>3, <1>6
<1>7. ASSUME NEW p \in Procs, pc[p] = "rename", Replace(p), durable' = durable
      PROVE  \/ UNCHANGED <<S, L>>
             \/ L = S /\ FollowsByOneBatch(S, L') /\ S' = S
  <2>1. /\ visible = durable
        /\ \/ FollowsByOneBatch(Newest(visible), Newest(visible'))
           \/ Newest(visible') = Newest(visible)
    BY <1>1, <1>7, ReplaceFollows
  <2> QED
    BY <1>2, <1>3, <1>7, <2>1
<1>8. \/ visible' = visible /\ durable' = durable
      \/ visible' = visible /\ durable' = visible
      \/ visible' = durable /\ durable' = durable
      \/ \E p \in Procs : pc[p] = "rename" /\ Replace(p) /\ durable' = durable
  <2>1. \/ visible' = visible /\ durable' = durable
        \/ visible' = visible /\ durable' = visible
        \/ /\ visible' = durable'
           /\ directory = "durable" => durable' = durable
        \/ \E p \in Procs : pc[p] = "rename" /\ Replace(p) /\ durable' = durable
    BY <1>1, DiskMoves
  <2> QED
    BY <2>1
<1> QED
  BY <1>4, <1>5, <1>6, <1>7, <1>8

(***************************************************************************)
(* While the directory is durable and no slot was damaged, the two slots   *)
(* are one durable store: recovery only ever sees the result of whole      *)
(* batches, and a power loss takes back at most the open commit.           *)
(***************************************************************************)
THEOREM StoreImplemented == ASSUME OneConfig PROVE Spec => ImplementsSaveStore
<1>1. Init => Store!Init
  <2> SUFFICES ASSUME Init PROVE Store!Init
    OBVIOUS
  <2>1. Recovered(durable, AnyLimits) = Genesis /\ Recovered(visible, AnyLimits) = Genesis
    BY DEF Init, Recovered, MissingFile, NotAFile, Slots
  <2> QED
    BY <2>1 DEF Store!Init
<1>2. StoreInvariant /\ StoreInvariant' /\ [Next]_vars
        => [directory = "durable" /\ damage' = "none" => [Store!Next]_(Store!storeVars)]_vars
  BY StoreStep
<1>3. Spec => []StoreInvariant
  BY StoreInvariantInit, StoreInvariantStep, PTL DEF Spec
<1> QED
  BY <1>1, <1>2, <1>3, PTL DEF Spec, ImplementsSaveStore

-----------------------------------------------------------------------------
(***************************************************************************)
(* Damage.  A torn slot breaks DiskSound; what is left is weaker, and the  *)
(* same steps keep it: a file is readable or torn, one that is readable    *)
(* is at most one generation behind the acknowledged snapshot, and the     *)
(* instance that goes on working holds the successor of the other slot.    *)
(***************************************************************************)
TornOrSound(file) ==
    /\ file.flushed
    /\ file.kind \in {"missing", "intact", "torn"}
    /\ file.kind = "intact" => \A limits \in Configs : DecodeVerdict(file, limits) = "Ok"
    /\ file.generation = 0 => file.records = EmptyRecords
    /\ file.kind # "intact" => file.generation = 0

\* Two files of which the readable ones are one generation behind at most.
KeepsAllButOne(f, g) ==
    /\ f.kind = "intact" /\ g.kind = "intact"
          => Succeeds(f.generation, g.generation) \/ Succeeds(g.generation, f.generation)
    /\ f.kind = "missing" \/ g.kind = "missing"
          => f.generation = 0 /\ g.generation = 0 /\ acked.generation = 0
    /\ acked.generation > 0 =>
          \/ f.kind = "intact" /\ f.generation + 1 >= acked.generation
          \/ g.kind = "intact" /\ g.generation + 1 >= acked.generation

TornDisk ==
    /\ \A s \in Slots : /\ TornOrSound(visible[s]) /\ TornOrSound(durable[s])
                         /\ durable[s].generation <= visible[s].generation
    /\ KeepsAllButOne(visible["A"], visible["B"])
    /\ KeepsAllButOne(visible["A"], durable["B"])
    /\ KeepsAllButOne(durable["A"], visible["B"])
    /\ KeepsAllButOne(durable["A"], durable["B"])

\* What an instance holds decodes under the limits of every opener.
HoldsReadable(p) ==
    \A k \in Keys, limits \in Configs :
        /\ impl[p].records[k].revision <= impl[p].generation
        /\ ~ (ValueBytes[impl[p].records[k].value] > limits.max_value_bytes)

\* A usable instance: its own slot or the other one may be torn, not both.
TornView(p) ==
    LET a == impl[p].active_slot
        o == OtherSlot(a)
    IN
    /\ visible[a].kind \in {"intact", "torn"}
    /\ visible[o].kind \in {"intact", "torn"}
    /\ visible[a].kind = "intact" \/ visible[o].kind = "intact"
    /\ visible[a].kind = "intact" => visible[a].generation = impl[p].generation
    /\ visible[o].kind = "intact" => Succeeds(impl[p].generation, visible[o].generation)
    /\ HoldsReadable(p)

TornPublish(p) ==
    LET pub == publish[p]
        a   == OtherSlot(pub.slot)
    IN
    /\ PendingFile(p)
    /\ pc[p] \in {"write", "rename"} => visible = durable
    /\ pc[p] \in {"sync", "restored"} =>
          visible[pub.slot].kind = "torn" \/ visible[pub.slot] = pub.file
    /\ \/ /\ pub.caller = "commit"
          /\ pc[p] # "restored"
          /\ impl[p].usable
          /\ a = impl[p].active_slot
          /\ pub.file.generation = impl[p].generation + 1
          /\ pc[p] # "sync" => TornView(p)
          /\ visible[a].kind \in {"intact", "torn"}
          /\ visible[a].kind = "intact" => visible[a].generation = impl[p].generation
          /\ visible[a].kind = "torn" => visible[pub.slot].kind = "intact"
       \/ /\ pub.caller \in {"genesisA", "genesisB", "restore"}
          /\ pub.file.generation = 0
          /\ pub.file.records = EmptyRecords
          /\ acked.generation = 0
          /\ \A s \in Slots : visible[s].generation = 0 /\ durable[s].generation = 0
          /\ pub.caller = "restore" => visible[a].kind # "missing"
          /\ pc[p] = "restored" => pub.caller = "restore"

TornOwnerAt(p) ==
    /\ pc[p] = "open" /\ impl[p].usable => TornView(p)
    /\ pc[p] \in {"prepare", "write", "rename", "sync", "restored"} => TornPublish(p)

TornOwner == \A p \in Procs : TornOwnerAt(p)

TornInvariant ==
    /\ DatabaseInvariant
    /\ damage = "torn" => TornDisk /\ TornOwner

-----------------------------------------------------------------------------

\* How a step changes the damage.
LEMMA DamageMoves ==
    ASSUME [Next]_vars
    PROVE  \/ damage' = damage
           \/ damage' = "directory" /\ PowerLoss
           \/ \E s \in Slots, kind \in DamageKinds : Damage(s, kind)
<1>1. ASSUME NEW p \in Procs, OpenStep(p) \/ PublishStep(p) \/ CloseOrDie(p) PROVE damage' = damage
  BY <1>1 DEF OpenStep, PublishStep, CloseOrDie, EnsureDirectory, SynchronizeCreatedDirectoryChain,
        AcquireLock, OpenFails, OpenReadSlots, OpenReadRestored, PrepareDirectory, WriteTemporary,
        RenameOverSlot, SyncReplacement, PublishFails, SyncReplacementFails, DiskUnchanged
<1>2. ASSUME NEW p \in Procs, NEW batch \in Batches, Commit(p, batch) PROVE damage' = damage
  BY <1>2 DEF Commit, DiskUnchanged
<1>3. ASSUME NEW s \in Slots, Writeback(s) PROVE damage' = damage
  BY <1>3 DEF Writeback
<1>4. CASE PowerLoss
  BY <1>4 DEF PowerLoss
<1> QED
  BY <1>1, <1>2, <1>3, <1>4 DEF Next, vars

LEMMA TornFileIs ==
    /\ TornFile.kind = "torn" /\ TornFile.generation = 0
    /\ TornFile.records = EmptyRecords /\ TornFile.flushed
BY DEF TornFile, NotAFile

LEMMA TornDiskSame ==
    ASSUME TornDisk, visible' = visible, durable' = durable, acked' = acked
    PROVE  TornDisk'
BY DEF TornDisk, TornOrSound, KeepsAllButOne, Succeeds

LEMMA TornOwnerSame ==
    ASSUME NEW q \in Procs, TornOwnerAt(q), visible' = visible, durable' = durable,
           acked' = acked, impl'[q] = impl[q], publish'[q] = publish[q], pc'[q] = pc[q]
    PROVE  TornOwnerAt(q)'
BY DEF TornOwnerAt, TornView, TornPublish, PendingFile, HoldsReadable, Succeeds

LEMMA TornIdle ==
    ASSUME NEW q \in Procs, pc'[q] \in Idle
    PROVE  TornOwnerAt(q)'
BY DEF TornOwnerAt, Idle

LEMMA TornOwnerStep ==
    ASSUME TypeOK, LockOwner, NEW p \in Procs, lock = p, NEW label,
           pc' = [pc EXCEPT ![p] = label], TornOwnerAt(p)'
    PROVE  TornOwner'
<1> SUFFICES ASSUME NEW q \in Procs, q # p PROVE TornOwnerAt(q)'
  BY DEF TornOwner
<1>1. pc[q] \in Idle
  BY NoProcAssumption DEF LockOwner, Idle
<1>2. pc'[q] \in Idle
  BY <1>1 DEF TypeOK
<1> QED
  BY <1>2, TornIdle

LEMMA TornForget ==
    ASSUME TypeOK, TornOwner, NEW p \in Procs, Forget(p),
           visible' = visible, durable' = durable, acked' = acked
    PROVE  TornOwner'
<1> SUFFICES ASSUME NEW q \in Procs PROVE TornOwnerAt(q)'
  BY DEF TornOwner
<1>1. CASE q = p
  BY <1>1, TornIdle DEF Forget, TypeOK, Idle
<1>2. CASE q # p
  BY <1>2, TornOwnerSame DEF Forget, TypeOK, TornOwner
<1> QED
  BY <1>1, <1>2

LEMMA TornIndeterminate ==
    ASSUME TypeOK, LockOwner, NEW p \in Procs, lock = p, PublishIsIndeterminate(p)
    PROVE  TornOwner'
<1>1. CASE publish[p].caller = "commit"
  <2>1. /\ impl' = [impl EXCEPT ![p].usable = FALSE]
        /\ pc' = [pc EXCEPT ![p] = "open"]
    BY <1>1 DEF PublishIsIndeterminate
  <2>2. ~ impl'[p].usable /\ pc'[p] = "open"
    BY <2>1 DEF TypeOK
  <2>3. TornOwnerAt(p)'
    BY <2>2 DEF TornOwnerAt
  <2> QED
    BY <2>1, <2>3, TornOwnerStep
<1>2. CASE publish[p].caller # "commit"
  <2>1. pc' = [pc EXCEPT ![p] = "closed"]
    BY <1>2 DEF PublishIsIndeterminate, Forget
  <2>2. TornOwnerAt(p)'
    BY <2>1, TornIdle DEF TypeOK, Idle
  <2> QED
    BY <2>1, <2>2, TornOwnerStep
<1> QED
  BY <1>1, <1>2

LEMMA TornSync ==
    ASSUME TypeOK, TornDisk, SynchronizeDirectory, visible' = visible
    PROVE  durable' = visible
<1>1. \A s \in Slots : Persisted(visible[s]) = {visible[s]}
  BY DEF TornDisk, TornOrSound, Persisted
<1>2. \A s \in Slots : durable'[s] = visible[s]
  BY <1>1 DEF SynchronizeDirectory
<1>3. durable' \in [Slots -> SnapshotFile]
  BY SynchronizeType
<1> QED
  BY <1>2, <1>3 DEF TypeOK

LEMMA TornHardened ==
    ASSUME TornDisk, visible' = visible, acked' = acked,
           \A s \in Slots : durable'[s] \in {durable[s], visible[s]},
           TypeOK, TypeOK'
    PROVE  TornDisk'
<1>1. \A s \in Slots : visible[s].generation \in Nat
  BY DEF TypeOK, SnapshotFile
<1> QED
  BY <1>1 DEF TornDisk, TornOrSound, KeepsAllButOne, Slots, Succeeds

\* The tear itself: a sound disk with one slot torn.
LEMMA TornByDamage ==
    ASSUME TypeOK, DiskSound, OwnerSound, NEW s \in Slots, Damage(s, "torn")
    PROVE  TornDisk' /\ TornOwner'
<1> DEFINE o == OtherSlot(s)
<1>1. /\ visible' = [visible EXCEPT ![s] = TornFile]
      /\ durable' = [durable EXCEPT ![s] = TornFile]
      /\ pc' = pc /\ impl' = impl /\ publish' = publish /\ acked' = acked
      /\ visible[s].kind = "intact"
  BY DEF Damage
<1>2. /\ visible'[s] = TornFile /\ durable'[s] = TornFile
      /\ \A x \in Slots : x # s => visible'[x] = visible[x] /\ durable'[x] = durable[x]
  BY <1>1 DEF TypeOK
<1>3. \A x \in Slots : /\ visible[x].generation \in Nat /\ durable[x].generation \in Nat
                       /\ acked.generation \in Nat
  BY DEF TypeOK, SnapshotFile
<1>4. \A x \in Slots : TornOrSound(visible'[x]) /\ TornOrSound(durable'[x])
                        /\ durable'[x].generation =< visible'[x].generation
  BY <1>2, <1>3, TornFileIs DEF TornOrSound, DiskSound, Sound
<1>5. ASSUME NEW f, NEW g, KeepsAcked(f, g) \/ KeepsAcked(g, f), Sound(f), Sound(g),
             f.generation \in Nat, g.generation \in Nat
      PROVE  /\ f.kind = "missing" => acked.generation = 0
             /\ acked.generation > 0 => f.kind = "intact" /\ f.generation + 1 >= acked.generation
  <2>1. f.kind = "missing" => f.generation = 0 /\ g.generation = 0
    BY <1>5 DEF KeepsAcked
  <2>2. \/ f.generation > acked.generation \/ g.generation > acked.generation
        \/ f.generation = acked.generation \/ g.generation = acked.generation
    BY <1>5 DEF KeepsAcked, Snapshot
  <2>3. f.generation + 1 >= g.generation
    BY <1>5 DEF KeepsAcked, Succeeds
  <2>4. acked.generation \in Nat
    BY <1>3 DEF Slots
  <2>5. f.kind \in {"missing", "intact"}
    BY <1>5 DEF Sound
  <2> QED
    BY <1>5, <2>1, <2>2, <2>3, <2>4, <2>5
<1>6. TornDisk'
  <2>1. s = "A" \/ s = "B"
    BY DEF Slots
  <2>2. /\ acked.generation > 0 =>
              /\ visible[o].kind = "intact" /\ visible[o].generation + 1 >= acked.generation
              /\ durable[o].kind = "intact" /\ durable[o].generation + 1 >= acked.generation
        /\ visible[o].kind = "missing" => visible[o].generation = 0 /\ acked.generation = 0
        /\ durable[o].kind = "missing" => durable[o].generation = 0 /\ acked.generation = 0
    BY <1>3, <1>5, <2>1 DEF DiskSound, Sound, OtherSlot, Slots
  <2>3. o \in Slots /\ o # s
    BY <2>1 DEF OtherSlot, Slots
  <2>4. /\ visible'[s].kind = "torn" /\ durable'[s].kind = "torn"
        /\ visible'[s].generation = 0 /\ durable'[s].generation = 0
        /\ visible'[o] = visible[o] /\ durable'[o] = durable[o]
        /\ acked' = acked
    BY <1>1, <1>2, <2>3, TornFileIs
  <2>5. CASE s = "A" /\ o = "B"
    BY <1>4, <2>2, <2>4, <2>5 DEF TornDisk, KeepsAllButOne
  <2>6. CASE s = "B" /\ o = "A"
    BY <1>4, <2>2, <2>4, <2>6 DEF TornDisk, KeepsAllButOne
  <2> QED
    BY <2>1, <2>5, <2>6 DEF OtherSlot
<1>7. ASSUME NEW p \in Procs, ViewIsNewest(p) PROVE TornView(p)'
  <2> DEFINE a == impl[p].active_slot
  <2>1. a \in Slots /\ OtherSlot(a) \in Slots /\ OtherSlot(a) # a
    BY DEF TypeOK, OtherSlot, Slots
  <2>2. /\ visible[a].kind = "intact" /\ visible[OtherSlot(a)].kind = "intact"
        /\ visible[a].generation = impl[p].generation /\ visible[a].records = impl[p].records
        /\ Succeeds(impl[p].generation, visible[OtherSlot(a)].generation)
    BY <1>7 DEF ViewIsNewest, Snapshot
  <2>3. HoldsReadable(p)
    <3>1. \A limits \in Configs : DecodeVerdict(visible[a], limits) = "Ok"
      BY <2>1, <2>2 DEF DiskSound, Sound
    <3>2. /\ \A k \in Keys : impl[p].records[k].revision \in Nat
          /\ impl[p].generation \in Nat
      BY DEF TypeOK, RecordMap, StoredRecord
    <3> QED
      BY <2>2, <3>1, <3>2 DEF HoldsReadable, DecodeVerdict
  <2> HIDE DEF a
  <2>4. HoldsReadable(p)'
    BY <1>1, <2>3 DEF HoldsReadable
  <2> QED
    BY <1>1, <1>2, <2>1, <2>2, <2>4, TornFileIs DEF TornView, a, Succeeds
<1>8. ASSUME NEW p \in Procs, PublishSound(p) PROVE TornPublish(p)'
  <2>1. /\ PendingFile(p)'
        /\ pc[p] \in {"write", "rename"} => visible' = durable'
    BY <1>1, <1>8 DEF PublishSound, PendingFile
  <2>2. publish[p].slot \in Slots /\ OtherSlot(publish[p].slot) \in Slots
        /\ OtherSlot(publish[p].slot) # publish[p].slot /\ impl[p].active_slot \in Slots
        /\ OtherSlot(OtherSlot(publish[p].slot)) = publish[p].slot
    BY DEF TypeOK, OtherSlot, Slots
  <2>3. pc[p] \in {"sync", "restored"} =>
            visible'[publish[p].slot].kind = "torn" \/ visible'[publish[p].slot] = publish[p].file
    BY <1>2, <1>8, <2>2, TornFileIs DEF PublishSound
  <2>4. CASE publish[p].caller = "commit"
    <3> DEFINE a == OtherSlot(publish[p].slot)
    <3>1. /\ pc[p] # "restored" /\ impl[p].usable /\ a = impl[p].active_slot
          /\ publish[p].file.generation = impl[p].generation + 1
          /\ visible[a].kind = "intact" /\ visible[a].generation = impl[p].generation
      BY <1>8, <2>2, <2>4 DEF PublishSound, OtherSlot, Slots
    <3>2. pc[p] # "sync" => ViewIsNewest(p)
      BY <1>8, <2>4 DEF PublishSound
    <3>3. pc[p] # "sync" => TornView(p)'
      BY <1>7, <3>2
    <3>4. visible[publish[p].slot].kind = "intact"
      <4>1. CASE pc[p] = "sync"
        BY <1>8, <4>1 DEF PublishSound, PendingFile
      <4>2. CASE pc[p] # "sync"
        BY <2>2, <3>1, <3>2, <4>2 DEF ViewIsNewest
      <4> QED
        BY <4>1, <4>2
    <3>5. /\ visible'[a].kind \in {"intact", "torn"}
          /\ visible'[a].kind = "intact" => visible'[a].generation = impl[p].generation
          /\ visible'[a].kind = "torn" => visible'[publish[p].slot].kind = "intact"
      BY <1>2, <2>2, <3>1, <3>4, TornFileIs
    <3> QED
      BY <1>1, <2>1, <2>3, <2>4, <3>1, <3>3, <3>5 DEF TornPublish
  <2>5. CASE publish[p].caller # "commit"
    <3>1. /\ publish[p].caller \in {"genesisA", "genesisB", "restore"}
          /\ publish[p].file.generation = 0
          /\ publish[p].file.records = EmptyRecords
          /\ \A x \in Slots : visible[x].generation = 0 /\ durable[x].generation = 0
          /\ publish[p].caller = "restore" => visible[OtherSlot(publish[p].slot)].kind = "intact"
          /\ pc[p] = "restored" => publish[p].caller = "restore"
      BY <1>8, <2>5 DEF PublishSound
    <3>2. \A x \in Slots : visible'[x].generation = 0 /\ durable'[x].generation = 0
      BY <1>2, <3>1, TornFileIs
    <3>3. publish[p].caller = "restore" => visible'[OtherSlot(publish[p].slot)].kind # "missing"
      BY <1>2, <2>2, <3>1, TornFileIs
    <3>4. acked.generation = 0
      BY <1>3, <3>1 DEF DiskSound, KeepsAcked, Snapshot, Slots
    <3> QED
      BY <1>1, <2>1, <2>3, <3>1, <3>2, <3>3, <3>4 DEF TornPublish
  <2> QED
    BY <2>4, <2>5
<1>9. TornOwner'
  BY <1>1, <1>7, <1>8 DEF TornOwner, TornOwnerAt, OwnerSound, OwnerSoundAt
<1> QED
  BY <1>6, <1>9

LEMMA TornReplace ==
    ASSUME TypeOK, TypeOK', TornDisk, TornOwner, NEW p \in Procs,
           pc[p] = "rename", Replace(p), durable' = durable, acked' = acked
    PROVE  /\ TornDisk'
           /\ visible'[publish[p].slot] = publish[p].file
           /\ visible'[OtherSlot(publish[p].slot)] = visible[OtherSlot(publish[p].slot)]
<1> DEFINE o == publish[p].slot
           a == OtherSlot(o)
           file == publish[p].file
<1>1. TornPublish(p)
  BY DEF TornOwner, TornOwnerAt
<1>2. visible = durable
  BY <1>1 DEF TornPublish
<1>3. /\ o \in Slots /\ a \in Slots /\ o # a
      /\ visible[o].generation \in Nat /\ visible[a].generation \in Nat
      /\ file.generation \in Nat /\ acked.generation \in Nat /\ impl[p].generation \in Nat
  BY DEF TypeOK, SnapshotFile, OtherSlot, Slots
<1>4. visible'[o] = file /\ visible'[a] = visible[a]
  BY <1>3 DEF Replace, TypeOK
<1>5. /\ file.kind = "intact" /\ file.flushed
      /\ \A limits \in Configs : DecodeVerdict(file, limits) = "Ok"
  BY <1>1 DEF TornPublish, PendingFile
<1>6. /\ TornOrSound(visible[o]) /\ TornOrSound(visible[a])
      /\ KeepsAllButOne(visible[o], visible[a]) \/ KeepsAllButOne(visible[a], visible[o])
  BY <1>3 DEF TornDisk, Slots, OtherSlot
<1>7. /\ visible[o].generation =< file.generation
      /\ visible[a].kind = "intact" => Succeeds(file.generation, visible[a].generation)
      /\ visible[a].kind = "missing" \/ visible[o].kind = "missing"
            => file.generation = 0 /\ acked.generation = 0
      /\ file.generation + 1 >= acked.generation
      /\ file.generation = 0 => file.records = EmptyRecords
      /\ visible[a].kind = "missing" => visible[a].generation = 0
  <2>1. CASE publish[p].caller = "commit"
    <3>1. /\ TornView(p) /\ a = impl[p].active_slot
          /\ file.generation = impl[p].generation + 1
      BY <1>1, <2>1 DEF TornPublish
    <3>2. /\ visible[a].kind \in {"intact", "torn"} /\ visible[o].kind \in {"intact", "torn"}
          /\ visible[a].kind = "intact" => visible[a].generation = impl[p].generation
          /\ visible[o].kind = "intact" => Succeeds(impl[p].generation, visible[o].generation)
      BY <1>3, <3>1 DEF TornView, OtherSlot, Slots
    <3>3. visible[o].generation =< impl[p].generation
      BY <1>3, <1>6, <3>2 DEF Succeeds, TornOrSound
    <3>4. acked.generation > 0 =>
             \/ visible[a].kind = "intact" /\ visible[a].generation + 1 >= acked.generation
             \/ visible[o].kind = "intact" /\ visible[o].generation + 1 >= acked.generation
      BY <1>6 DEF KeepsAllButOne
    <3>5. file.generation + 1 >= acked.generation
      <4> HIDE DEF file, a, o
      <4> QED
        BY <1>3, <3>1, <3>2, <3>3, <3>4
    <3> HIDE DEF file, a, o
    <3> QED
      BY <1>3, <3>1, <3>2, <3>3, <3>5 DEF Succeeds
  <2>2. CASE publish[p].caller # "commit"
    <3>1. /\ file.generation = 0 /\ file.records = EmptyRecords /\ acked.generation = 0
          /\ visible[o].generation = 0 /\ visible[a].generation = 0
      BY <1>1, <1>3, <2>2 DEF TornPublish
    <3> QED
      BY <3>1 DEF Succeeds
  <2> QED
    BY <2>1, <2>2
<1>8. durable[o] = visible[o] /\ durable[a] = visible[a]
  BY <1>2
<1>9. TornOrSound(file)
  BY <1>5, <1>7 DEF TornOrSound
<1>10. CASE o = "A"
  <2>1. a = "B"
    BY <1>10 DEF OtherSlot
  <2> QED
    BY <1>3, <1>4, <1>5, <1>6, <1>7, <1>8, <1>9, <1>10, <2>1
       DEF TornDisk, TornOrSound, KeepsAllButOne, Slots
<1>11. CASE o = "B"
  <2>1. a = "A"
    BY <1>11 DEF OtherSlot
  <2> QED
    BY <1>3, <1>4, <1>5, <1>6, <1>7, <1>8, <1>9, <1>11, <2>1
       DEF TornDisk, TornOrSound, KeepsAllButOne, Slots
<1> QED
  BY <1>3, <1>4, <1>10, <1>11 DEF Slots

\* An instance that starts from a slot of a torn disk.
LEMMA TornAdopt ==
    ASSUME TypeOK, LockOwner, TornDisk, NEW p \in Procs, lock = p, NEW a \in Slots, Adopt(p, a),
           visible' = visible,
           visible[a].kind \in {"intact", "torn"},
           visible[OtherSlot(a)].kind \in {"intact", "torn"},
           visible[a].kind = "intact" \/ visible[OtherSlot(a)].kind = "intact",
           visible[OtherSlot(a)].kind = "intact"
                => Succeeds(visible[a].generation, visible[OtherSlot(a)].generation)
    PROVE  TornOwner'
<1>1. impl'[p] = [active_slot |-> a, generation |-> visible[a].generation,
                  records |-> visible[a].records, usable |-> TRUE]
  BY DEF Adopt, TypeOK
<1>2. pc' = [pc EXCEPT ![p] = "open"] /\ pc'[p] = "open"
  BY DEF Adopt, TypeOK
<1>3. TornOrSound(visible[a])
  BY DEF TornDisk
<1>4. /\ visible[a].generation \in Nat
      /\ \A k \in Keys : visible[a].records[k].revision \in Nat
  BY DEF TypeOK, SnapshotFile, RecordMap, StoredRecord
<1>5. \A k \in Keys, limits \in Configs :
          /\ visible[a].records[k].revision =< visible[a].generation
          /\ ~ (ValueBytes[visible[a].records[k].value] > limits.max_value_bytes)
  <2>1. CASE visible[a].kind = "intact"
    BY <1>3, <1>4, <2>1 DEF TornOrSound, DecodeVerdict
  <2>2. CASE visible[a].kind = "torn"
    <3>1. visible[a].records = EmptyRecords
      BY <1>3, <2>2 DEF TornOrSound
    <3>2. \A k \in Keys : /\ visible[a].records[k].revision = 0
                          /\ ValueBytes[visible[a].records[k].value] = 0
      BY <3>1, ValueBytesAssumption DEF EmptyRecords, NoRecord
    <3>3. \A limits \in Configs : limits.max_value_bytes \in Nat
      BY ConfigsAssumption
    <3> QED
      BY <1>4, <3>2, <3>3
  <2> QED
    BY <2>1, <2>2
<1>6. HoldsReadable(p)'
  BY <1>1, <1>5 DEF HoldsReadable
<1>7. TornView(p)'
  BY <1>1, <1>6 DEF TornView, Succeeds
<1>8. TornOwnerAt(p)'
  BY <1>2, <1>7 DEF TornOwnerAt
<1> QED
  BY <1>2, <1>8, TornOwnerStep

LEMMA TornStatus ==
    ASSUME NEW file, TornOrSound(file), NEW limits \in Configs
    PROVE  SlotStatus(file, limits) = CASE file.kind = "missing" -> "Missing"
                                        [] file.kind = "intact"  -> "Valid"
                                        [] file.kind = "torn"    -> "Corrupt"
BY DEF TornOrSound, SlotStatus, DecodeVerdict

\* The slot Open selects is readable, and it is the newer of two readable ones.
LEMMA TornSelected ==
    ASSUME NEW files \in [Slots -> SnapshotFile],
           TornOrSound(files["A"]), TornOrSound(files["B"]),
           files["A"].kind = "intact" /\ files["B"].kind = "intact" =>
               \/ Succeeds(files["A"].generation, files["B"].generation)
               \/ Succeeds(files["B"].generation, files["A"].generation),
           files["A"].kind # "missing", files["B"].kind # "missing",
           files["A"].kind = "intact" \/ files["B"].kind = "intact",
           NEW statuses, NEW limits \in Configs,
           \A s \in Slots : statuses[s] = SlotStatus(files[s], limits)
    PROVE  LET a == SelectSlot(files, statuses) IN
           /\ a \in Slots
           /\ files[a].kind = "intact"
           /\ files[OtherSlot(a)].kind \in {"intact", "torn"}
           /\ files[OtherSlot(a)].kind = "intact"
                => Succeeds(files[a].generation, files[OtherSlot(a)].generation)
           /\ ~ Refused(files, statuses)
<1> DEFINE a == SelectSlot(files, statuses)
<1>1. \A s \in Slots : /\ files[s].kind \in {"intact", "torn"}
                       /\ files[s].generation \in Nat
                       /\ files[s].kind = "intact" => statuses[s] = "Valid"
                       /\ files[s].kind = "torn" => statuses[s] = "Corrupt"
                       /\ files[s].generation = 0 => files[s].records = EmptyRecords
  BY TornStatus DEF Slots, TornOrSound, SnapshotFile
<1>2. "A" \in Slots /\ "B" \in Slots
  BY DEF Slots
<1>3. a = IF files["A"].kind = "torn" \/ (files["B"].kind = "intact"
                                           /\ files["B"].generation > files["A"].generation)
          THEN "B" ELSE "A"
  BY <1>1, <1>2 DEF SelectSlot
<1>4. ~ Refused(files, statuses)
  BY <1>1, <1>2 DEF Refused, LoneSurvivor, BothMissing, SnapshotsDisagree, Slots, OtherSlot, Succeeds
<1> HIDE DEF a
<1>5. /\ a \in Slots
      /\ files[a].kind = "intact"
      /\ files[OtherSlot(a)].kind \in {"intact", "torn"}
      /\ files[OtherSlot(a)].kind = "intact"
           => Succeeds(files[a].generation, files[OtherSlot(a)].generation)
  BY <1>1, <1>2, <1>3 DEF Slots, OtherSlot, Succeeds
<1> QED
  BY <1>4, <1>5 DEF a

LEMMA TornGenesisStarts ==
    ASSUME TypeOK, LockOwner, OneConfig, NEW p \in Procs, lock = p, NEW slot \in Slots,
           NEW caller \in {"genesisA", "genesisB", "restore"},
           StartPublish(p, slot, Genesis, caller),
           EncodeVerdict(EmptyRecords, config[p]) = "Ok",
           acked'.generation = 0,
           \A s \in Slots : visible'[s].generation = 0 /\ durable'[s].generation = 0,
           caller = "restore" => visible'[OtherSlot(slot)].kind # "missing"
    PROVE  TornOwner'
<1>1. /\ pc' = [pc EXCEPT ![p] = "prepare"]
      /\ pc'[p] = "prepare"
      /\ publish'[p] = [slot |-> slot, file |-> Genesis, caller |-> caller]
  BY DEF StartPublish, Goto, TypeOK
<1>2. \A limits \in Configs : DecodeVerdict(Genesis, limits) = "Ok"
  BY GenesisDecodes DEF TypeOK, OneConfig
<1>3. /\ Genesis.kind = "intact" /\ Genesis.generation = 0
      /\ Genesis.records = EmptyRecords /\ Genesis.flushed = FALSE
  BY DEF Genesis, EncodeSnapshot
<1>4. PendingFile(p)'
  BY <1>1, <1>2, <1>3 DEF PendingFile
<1>5. TornPublish(p)'
  BY <1>1, <1>3, <1>4 DEF TornPublish
<1>6. TornOwnerAt(p)'
  BY <1>1, <1>5 DEF TornOwnerAt
<1> QED
  BY <1>1, <1>6, TornOwnerStep

\* The fsync after the rename, on a torn disk.
LEMMA TornSyncReplacement ==
    ASSUME OneConfig, TypeOK, TypeOK', LockOwner, TornDisk, TornOwner,
           NEW p \in Procs, SyncReplacement(p)
    PROVE  TornDisk' /\ TornOwner'
<1>1. /\ lock = p /\ visible' = visible /\ durable' = visible /\ pc[p] = "sync"
  BY TornSync DEF SyncReplacement, LockOwner
<1>2. TornPublish(p)
  BY <1>1 DEF TornOwner, TornOwnerAt
<1>3. acked' = acked => TornDisk'
  BY <1>1, TornHardened
<1>4. CASE publish[p].caller = "commit"
  <2> DEFINE o == publish[p].slot
             a == OtherSlot(o)
             file == publish[p].file
  <2>1. /\ impl'[p] = [active_slot |-> o, generation |-> file.generation,
                       records |-> file.records, usable |-> TRUE]
        /\ pc' = [pc EXCEPT ![p] = "open"] /\ pc'[p] = "open"
        /\ acked' = file
    BY <1>4 DEF SyncReplacement, TypeOK
  <2>2. /\ visible[o].kind = "torn" \/ visible[o] = file
        /\ file.kind = "intact"
        /\ \A limits \in Configs : DecodeVerdict(file, limits) = "Ok"
        /\ file.generation = impl[p].generation + 1
        /\ visible[a].kind \in {"intact", "torn"}
        /\ visible[a].kind = "intact" => visible[a].generation = impl[p].generation
        /\ visible[a].kind = "torn" => visible[o].kind = "intact"
    BY <1>1, <1>2, <1>4 DEF TornPublish, PendingFile
  <2>3. /\ o \in Slots /\ a \in Slots /\ o # a
        /\ impl[p].generation \in Nat /\ visible[a].generation \in Nat
        /\ file.generation \in Nat
        /\ \A k \in Keys : file.records[k].revision \in Nat
    BY DEF TypeOK, SnapshotFile, RecordMap, StoredRecord, OtherSlot, Slots
  <2>4. TornOrSound(visible[o]) /\ TornOrSound(visible[a])
    BY <2>3 DEF TornDisk
  <2>5. HoldsReadable(p)'
    <3>1. \A k \in Keys, limits \in Configs :
              /\ file.records[k].revision =< file.generation
              /\ ~ (ValueBytes[file.records[k].value] > limits.max_value_bytes)
      BY <2>2, <2>3 DEF DecodeVerdict
    <3> QED
      BY <2>1, <3>1 DEF HoldsReadable
  <2> HIDE DEF o, a, file
  <2>6. TornView(p)'
    BY <1>1, <2>1, <2>2, <2>5 DEF TornView, Succeeds, a
  <2>7. TornOwnerAt(p)'
    BY <2>1, <2>6 DEF TornOwnerAt
  <2>8. TornDisk'
    <3>1. /\ visible'[o] = visible[o] /\ visible'[a] = visible[a]
          /\ durable'[o] = visible[o] /\ durable'[a] = visible[a]
      BY <1>1
    <3>2. \A s \in Slots : TornOrSound(visible'[s]) /\ TornOrSound(durable'[s])
                           /\ durable'[s].generation =< visible'[s].generation
      BY <1>1 DEF TornDisk, TypeOK, SnapshotFile
    <3>3. /\ visible[o].kind = "intact" => visible[o] = file
          /\ file.generation > 0
      BY <2>2, <2>3
    <3>4. CASE o = "A" /\ a = "B"
      BY <2>1, <2>2, <2>3, <2>4, <3>1, <3>2, <3>3, <3>4
         DEF TornDisk, KeepsAllButOne, Succeeds, TornOrSound
    <3>5. CASE o = "B" /\ a = "A"
      BY <2>1, <2>2, <2>3, <2>4, <3>1, <3>2, <3>3, <3>5
         DEF TornDisk, KeepsAllButOne, Succeeds, TornOrSound
    <3> QED
      BY <2>3, <3>4, <3>5 DEF Slots, a, OtherSlot
  <2> QED
    BY <1>1, <2>1, <2>7, <2>8, TornOwnerStep
<1>5. CASE publish[p].caller # "commit"
  <2>1. /\ \A s \in Slots : visible'[s].generation = 0 /\ durable'[s].generation = 0
        /\ acked' = acked /\ acked.generation = 0
    BY <1>1, <1>2, <1>5 DEF TornPublish, SyncReplacement
  <2>2. TornDisk' /\ config[p] \in Configs
    BY <1>3, <2>1 DEF TypeOK
  <2>3. CASE publish[p].caller = "genesisA" /\ StartPublish(p, "B", Genesis, "genesisB")
    <3>1. /\ publish[p].file.records = EmptyRecords
          /\ DecodeVerdict(publish[p].file, config[p]) = "Ok"
          /\ publish[p].file.kind = "intact"
      BY <1>2, <1>5, <2>2 DEF TornPublish, PendingFile
    <3>2. EncodeVerdict(EmptyRecords, config[p]) = "Ok"
      BY <3>1 DEF DecodeVerdict, EncodeVerdict
    <3> QED
      BY <1>1, <2>1, <2>2, <2>3, <3>2, TornGenesisStarts DEF Slots
  <2>4. CASE Goto(p, "reread")
    <3>1. pc' = [pc EXCEPT ![p] = "reread"] /\ pc'[p] = "reread"
      BY <2>4 DEF Goto, TypeOK
    <3>2. TornOwnerAt(p)'
      BY <3>1 DEF TornOwnerAt
    <3> QED
      BY <1>1, <2>2, <3>1, <3>2, TornOwnerStep
  <2>5. CASE publish[p].caller = "restore" /\ Goto(p, "restored") /\ publish' = publish
    <3>1. pc' = [pc EXCEPT ![p] = "restored"] /\ pc'[p] = "restored"
      BY <2>5 DEF Goto, TypeOK
    <3>2. PendingFile(p)'
      BY <1>1, <1>2, <2>5, <3>1 DEF TornPublish, PendingFile
    <3>3. TornPublish(p)'
      BY <1>1, <1>2, <2>1, <2>5, <3>1, <3>2 DEF TornPublish
    <3>4. TornOwnerAt(p)'
      BY <3>1, <3>3 DEF TornOwnerAt
    <3> QED
      BY <1>1, <2>2, <3>1, <3>4, TornOwnerStep
  <2> QED
    BY <1>5, <2>3, <2>4, <2>5 DEF SyncReplacement
<1> QED
  BY <1>4, <1>5

(***************************************************************************)
(* One step of a database with a torn slot.                                *)
(***************************************************************************)
LEMMA TornStep ==
    ASSUME OneConfig, TypeOK, TypeOK', LockOwner, TornDisk, TornOwner, [Next]_vars,
           damage = "torn", damage' = "torn"
    PROVE  TornDisk' /\ TornOwner'
<1>1. ASSUME NEW p \in Procs, EnsureDirectory(p) \/ SynchronizeCreatedDirectoryChain(p)
      PROVE  TornDisk' /\ TornOwner'
  <2>1. /\ visible' = visible /\ durable' = durable /\ acked' = acked
        /\ impl' = impl /\ publish' = publish
        /\ pc'[p] \in Idle /\ \A q \in Procs \ {p} : pc'[q] = pc[q]
    BY <1>1 DEF EnsureDirectory, SynchronizeCreatedDirectoryChain, Goto, Idle, TypeOK
  <2> QED
    BY <2>1, TornDiskSame, TornOwnerSame, TornIdle DEF TornOwner
<1>2. ASSUME NEW p \in Procs, AcquireLock(p) PROVE TornDisk' /\ TornOwner'
  <2>1. /\ visible' = visible /\ durable' = durable /\ acked' = acked
        /\ impl' = impl /\ publish' = publish
        /\ pc'[p] = "read" /\ \A q \in Procs \ {p} : pc'[q] = pc[q]
    BY <1>2 DEF AcquireLock, TypeOK
  <2>2. TornOwnerAt(p)'
    BY <2>1 DEF TornOwnerAt
  <2> QED
    BY <2>1, <2>2, TornDiskSame, TornOwnerSame DEF TornOwner
<1>3. ASSUME NEW p \in Procs, OpenFails(p) \/ CloseOrDie(p) PROVE TornDisk' /\ TornOwner'
  BY <1>3, TornDiskSame, TornForget DEF OpenFails, CloseOrDie, DiskUnchanged
<1>4. ASSUME NEW p \in Procs, OpenReadSlots(p) PROVE TornDisk' /\ TornOwner'
  <2>1. /\ lock = p /\ visible' = visible /\ durable' = durable /\ acked' = acked
    BY <1>4 DEF OpenReadSlots, DiskUnchanged, LockOwner
  <2>2. TornDisk'
    BY <2>1, TornDiskSame
  <2>3. PICK st \in [Slots -> {"Missing", "Valid", "Corrupt", "Fatal"}] :
          /\ ReadSlots(p, st)
          /\ \/ Forget(p)
             \/ /\ ~Refused(visible, st)
                /\ BothMissing(st) /\ EncodeVerdict(EmptyRecords, config[p]) = "Ok"
                /\ StartPublish(p, "A", Genesis, "genesisA")
             \/ /\ ~Refused(visible, st)
                /\ \E s \in Slots : /\ LoneSurvivor(st, s)
                                    /\ EncodeVerdict(EmptyRecords, config[p]) = "Ok"
                                    /\ StartPublish(p, OtherSlot(s), Genesis, "restore")
             \/ /\ ~Refused(visible, st)
                /\ \A s \in Slots : st[s] # "Missing"
                /\ Adopt(p, SelectSlot(visible, st))
    BY <1>4 DEF OpenReadSlots
  <2>4. \A s \in Slots : /\ st[s] = "Missing" => visible[s].kind = "missing"
                         /\ st[s] = "Valid" => visible[s].kind = "intact"
                         /\ st[s] = SlotStatus(visible[s], config[p]) \/ st[s] = "Fatal"
    BY <2>3, TornStatus DEF ReadSlots, TornDisk, TornOrSound, TypeOK
  <2>5. CASE Forget(p)
    BY <2>1, <2>2, <2>5, TornForget
  <2>6. CASE BothMissing(st) /\ EncodeVerdict(EmptyRecords, config[p]) = "Ok"
             /\ StartPublish(p, "A", Genesis, "genesisA")
    <3>1. /\ \A s \in Slots : visible[s].generation = 0 /\ durable[s].generation = 0
          /\ acked.generation = 0
      BY <2>4, <2>6 DEF BothMissing, TornDisk, TornOrSound, KeepsAllButOne, Slots, TypeOK, SnapshotFile
    <3> QED
      BY <2>1, <2>2, <2>6, <3>1, TornGenesisStarts DEF Slots
  <2>7. ASSUME NEW s \in Slots, LoneSurvivor(st, s),
               EncodeVerdict(EmptyRecords, config[p]) = "Ok",
               StartPublish(p, OtherSlot(s), Genesis, "restore")
        PROVE  TornOwner'
    <3>1. OtherSlot(s) \in Slots /\ OtherSlot(OtherSlot(s)) = s
      BY DEF OtherSlot, Slots
    <3>2. visible[OtherSlot(s)].kind = "missing" /\ visible[s].kind = "intact"
      BY <2>4, <2>7, <3>1 DEF LoneSurvivor
    <3>3. /\ \A x \in Slots : visible[x].generation = 0 /\ durable[x].generation = 0
          /\ acked.generation = 0
      BY <3>2 DEF TornDisk, KeepsAllButOne, Slots, TypeOK, SnapshotFile, OtherSlot
    <3> QED
      BY <2>1, <2>7, <3>1, <3>2, <3>3, TornGenesisStarts
  <2>8. CASE ~Refused(visible, st) /\ (\A s \in Slots : st[s] # "Missing")
             /\ Adopt(p, SelectSlot(visible, st))
    <3>1. \A s \in Slots : st[s] = SlotStatus(visible[s], config[p])
      BY <2>4, <2>8 DEF Refused
    <3>2. config[p] \in Configs /\ visible \in [Slots -> SnapshotFile]
      BY DEF TypeOK
    <3>3. visible["A"].kind # "missing" /\ visible["B"].kind # "missing"
      BY <2>8, <3>1, <3>2, TornStatus DEF TornDisk, Slots
    <3>4. visible["A"].kind = "intact" \/ visible["B"].kind = "intact"
      <4>1. \E s \in Slots : st[s] = "Valid"
        BY <2>8 DEF Refused, BothMissing, Slots
      <4> QED
        BY <2>4, <4>1 DEF Slots
    <3>5. /\ TornOrSound(visible["A"]) /\ TornOrSound(visible["B"])
          /\ visible["A"].kind = "intact" /\ visible["B"].kind = "intact" =>
               \/ Succeeds(visible["A"].generation, visible["B"].generation)
               \/ Succeeds(visible["B"].generation, visible["A"].generation)
      BY DEF TornDisk, KeepsAllButOne, Slots
    <3> DEFINE a == SelectSlot(visible, st)
    <3>6. /\ a \in Slots
          /\ visible[a].kind = "intact"
          /\ visible[OtherSlot(a)].kind \in {"intact", "torn"}
          /\ visible[OtherSlot(a)].kind = "intact"
               => Succeeds(visible[a].generation, visible[OtherSlot(a)].generation)
      BY <3>1, <3>2, <3>3, <3>4, <3>5, TornSelected
    <3>7. Adopt(p, a)
      BY <2>8
    <3> HIDE DEF a
    <3> QED
      BY <2>1, <2>2, <3>6, <3>7, TornAdopt
  <2> QED
    BY <2>2, <2>3, <2>5, <2>6, <2>7, <2>8
<1>5. ASSUME NEW p \in Procs, OpenReadRestored(p) PROVE TornDisk' /\ TornOwner'
  <2>1. /\ lock = p /\ visible' = visible /\ durable' = durable /\ acked' = acked
    BY <1>5 DEF OpenReadRestored, DiskUnchanged, LockOwner
  <2>2. TornDisk'
    BY <2>1, TornDiskSame
  <2>3. CASE Forget(p)
    BY <2>1, <2>2, <2>3, TornForget
  <2>4. CASE SlotStatus(visible[publish[p].slot], config[p]) = "Valid" /\ Adopt(p, "A")
    <3>1. TornPublish(p) /\ pc[p] = "restored"
      BY <1>5 DEF OpenReadRestored, TornOwner, TornOwnerAt
    <3>2. /\ publish[p].slot \in Slots /\ OtherSlot(publish[p].slot) \in Slots
          /\ config[p] \in Configs
      BY DEF TypeOK, OtherSlot, Slots
    <3>3. visible[publish[p].slot].kind = "intact"
      BY <2>4, <3>2, TornStatus DEF TornDisk, TornOrSound
    <3>4. visible[OtherSlot(publish[p].slot)].kind \in {"intact", "torn"}
      BY <3>1, <3>2 DEF TornPublish, TornDisk, TornOrSound
    <3>5. \A s \in Slots : visible[s].generation = 0
      BY <3>1 DEF TornPublish
    <3>6. /\ visible["A"].kind \in {"intact", "torn"} /\ visible["B"].kind \in {"intact", "torn"}
          /\ visible["A"].kind = "intact" \/ visible["B"].kind = "intact"
          /\ Succeeds(visible["A"].generation, visible["B"].generation)
      BY <3>2, <3>3, <3>4, <3>5 DEF Slots, OtherSlot, Succeeds
    <3>7. "A" \in Slots /\ OtherSlot("A") = "B"
      BY DEF Slots, OtherSlot
    <3> QED
      BY <2>1, <2>2, <2>4, <3>6, <3>7, TornAdopt
  <2> QED
    BY <1>5, <2>3, <2>4 DEF OpenReadRestored
<1>6. ASSUME NEW p \in Procs, NEW batch \in Batches, Commit(p, batch)
      PROVE  TornDisk' /\ TornOwner'
  <2> DEFINE n == impl[p].generation
             file == EncodeSnapshot(Candidate(batch, impl[p].records, n + 1), n + 1)
             a == impl[p].active_slot
  <2>1. /\ lock = p /\ visible' = visible /\ durable' = durable /\ acked' = acked
        /\ impl' = impl /\ impl[p].usable
        /\ pc' = [pc EXCEPT ![p] = "prepare"] /\ pc'[p] = "prepare"
        /\ publish'[p] = [slot |-> OtherSlot(a), file |-> file, caller |-> "commit"]
    BY <1>6 DEF Commit, StartPublish, Goto, DiskUnchanged, LockOwner, TypeOK
  <2>2. TornDisk'
    BY <2>1, TornDiskSame
  <2>3. TornView(p)
    BY <1>6 DEF Commit, TornOwner, TornOwnerAt
  <2>4. DecodeVerdict(file, config[p]) = "Ok"
    <3>1. n \in Nat /\ impl[p].records \in RecordMap /\ config[p] \in Configs
      BY DEF TypeOK
    <3>2. \A k \in Keys : /\ impl[p].records[k].revision =< n
                          /\ ~ (ValueBytes[impl[p].records[k].value] > config[p].max_value_bytes)
      BY <2>3, <3>1 DEF TornView, HoldsReadable
    <3>3. Accepts(batch, n, impl[p].records, config[p])
      BY <1>6 DEF Commit
    <3> QED
      BY <3>1, <3>2, <3>3, CommitDecodes
  <2>5. \A limits \in Configs : DecodeVerdict(file, limits) = "Ok"
    BY <2>4 DEF OneConfig, TypeOK
  <2>6. file.kind = "intact" /\ file.generation = n + 1
    BY DEF EncodeSnapshot
  <2> HIDE DEF file
  <2>7. a \in Slots /\ OtherSlot(OtherSlot(a)) = a
    BY DEF TypeOK, OtherSlot, Slots
  <2>8. TornView(p)'
    BY <2>1, <2>3 DEF TornView, HoldsReadable, Succeeds
  <2>9. PendingFile(p)'
    BY <2>1, <2>5, <2>6 DEF PendingFile
  <2>10. TornPublish(p)'
    <3>1. /\ visible[a].kind \in {"intact", "torn"}
          /\ visible[a].kind = "intact" => visible[a].generation = impl[p].generation
          /\ visible[a].kind = "torn" => visible[OtherSlot(a)].kind = "intact"
      BY <2>3 DEF TornView
    <3> QED
      BY <2>1, <2>6, <2>7, <2>8, <2>9, <3>1 DEF TornPublish
  <2>11. TornOwnerAt(p)'
    BY <2>1, <2>10 DEF TornOwnerAt
  <2> QED
    BY <2>1, <2>2, <2>11, TornOwnerStep
<1>7. ASSUME NEW p \in Procs, PublishFails(p) PROVE TornDisk' /\ TornOwner'
  <2>1. /\ lock = p /\ visible' = visible /\ durable' = durable /\ acked' = acked
    BY <1>7 DEF PublishFails, DiskUnchanged, LockOwner
  <2>2. TornDisk'
    BY <2>1, TornDiskSame
  <2>3. CASE publish[p].caller = "commit"
    <3>1. pc' = [pc EXCEPT ![p] = "open"] /\ impl' = impl
      BY <1>7, <2>3 DEF PublishFails, Goto
    <3>2. TornView(p)
      BY <1>7, <2>3 DEF PublishFails, TornOwner, TornOwnerAt, TornPublish
    <3>3. TornView(p)'
      BY <2>1, <3>1, <3>2 DEF TornView, HoldsReadable, Succeeds
    <3>4. TornOwnerAt(p)'
      BY <3>1, <3>3 DEF TornOwnerAt, TypeOK
    <3> QED
      BY <2>1, <2>2, <3>1, <3>4, TornOwnerStep
  <2>4. CASE publish[p].caller # "commit"
    BY <1>7, <2>1, <2>2, <2>4, TornForget DEF PublishFails
  <2> QED
    BY <2>3, <2>4
<1>8. ASSUME NEW p \in Procs, PrepareDirectory(p) PROVE TornDisk' /\ TornOwner'
  <2>1. /\ lock = p /\ visible' = visible /\ acked' = acked /\ impl' = impl
        /\ publish' = publish /\ durable' = visible
        /\ pc' = [pc EXCEPT ![p] = "write"] /\ pc'[p] = "write" /\ pc[p] = "prepare"
    BY <1>8, TornSync DEF PrepareDirectory, Goto, LockOwner, TypeOK
  <2>2. TornDisk'
    BY <2>1, TornHardened
  <2>3. TornPublish(p)
    BY <2>1 DEF TornOwner, TornOwnerAt
  <2>4. TornPublish(p)'
    BY <2>1, <2>3 DEF TornPublish, PendingFile, TornView, HoldsReadable, Succeeds
  <2>5. TornOwnerAt(p)'
    BY <2>1, <2>4 DEF TornOwnerAt
  <2> QED
    BY <2>1, <2>2, <2>5, TornOwnerStep
<1>9. ASSUME NEW p \in Procs, WriteTemporary(p) PROVE TornDisk' /\ TornOwner'
  <2>1. /\ lock = p /\ visible' = visible /\ durable' = durable /\ acked' = acked
        /\ impl' = impl
        /\ pc' = [pc EXCEPT ![p] = "rename"] /\ pc'[p] = "rename" /\ pc[p] = "write"
    BY <1>9 DEF WriteTemporary, Goto, DiskUnchanged, LockOwner, TypeOK
  <2>2. TornDisk'
    BY <2>1, TornDiskSame
  <2>3. /\ publish'[p].slot = publish[p].slot /\ publish'[p].caller = publish[p].caller
        /\ publish'[p].file = [publish[p].file EXCEPT !.flushed = TRUE]
    BY <1>9 DEF WriteTemporary, TypeOK
  <2>4. /\ publish'[p].file.kind = publish[p].file.kind /\ publish'[p].file.flushed
        /\ publish'[p].file.generation = publish[p].file.generation
        /\ publish'[p].file.records = publish[p].file.records
    BY <2>3 DEF TypeOK, SnapshotFile
  <2>5. TornPublish(p)
    BY <2>1 DEF TornOwner, TornOwnerAt
  <2>6. \A limits : DecodeVerdict(publish'[p].file, limits) = DecodeVerdict(publish[p].file, limits)
    BY <2>4 DEF DecodeVerdict
  <2>7. PendingFile(p)'
    BY <2>1, <2>4, <2>5, <2>6 DEF TornPublish, PendingFile
  <2>8. TornPublish(p)'
    <3>1. TornView(p) => TornView(p)'
      BY <2>1 DEF TornView, HoldsReadable, Succeeds
    <3>2. CASE publish[p].caller = "commit"
      BY <2>1, <2>3, <2>4, <2>5, <2>7, <3>1, <3>2 DEF TornPublish
    <3>3. CASE publish[p].caller # "commit"
      BY <2>1, <2>3, <2>4, <2>5, <2>7, <3>3 DEF TornPublish
    <3> QED
      BY <3>2, <3>3
  <2>9. TornOwnerAt(p)'
    BY <2>1, <2>8 DEF TornOwnerAt
  <2> QED
    BY <2>1, <2>2, <2>9, TornOwnerStep
<1>10. ASSUME NEW p \in Procs, RenameOverSlot(p) PROVE TornDisk' /\ TornOwner'
  <2> DEFINE o == publish[p].slot
             a == OtherSlot(o)
  <2>1. /\ lock = p /\ durable' = durable /\ acked' = acked /\ pc[p] = "rename"
    BY <1>10 DEF RenameOverSlot, LockOwner
  <2>2. TornPublish(p)
    BY <2>1 DEF TornOwner, TornOwnerAt
  <2>3. CASE Replace(p) /\ Goto(p, "sync") /\ publish' = publish
    <3>1. TornDisk' /\ visible'[o] = publish[p].file /\ visible'[a] = visible[a]
      BY <2>1, <2>3, TornReplace
    <3>2. /\ pc' = [pc EXCEPT ![p] = "sync"] /\ pc'[p] = "sync" /\ impl' = impl
      BY <2>3 DEF Goto, TypeOK
    <3>3. o \in Slots /\ \A s \in Slots : s = o \/ s = a
      BY DEF TypeOK, OtherSlot, Slots
    <3>4. PendingFile(p)' /\ publish[p].file.kind = "intact"
      BY <2>1, <2>2, <2>3, <3>2 DEF TornPublish, PendingFile
    <3>5. TornPublish(p)'
      <4>1. CASE publish[p].caller = "commit"
        BY <2>1, <2>2, <2>3, <3>1, <3>2, <3>4, <4>1 DEF TornPublish
      <4>2. CASE publish[p].caller # "commit"
        <5>1. \A s \in Slots : visible'[s].generation = 0 /\ durable'[s].generation = 0
          BY <2>1, <2>2, <3>1, <3>3, <4>2 DEF TornPublish
        <5> QED
          BY <2>1, <2>2, <2>3, <3>1, <3>2, <3>4, <4>2, <5>1 DEF TornPublish
      <4> QED
        BY <4>1, <4>2
    <3>6. TornOwnerAt(p)'
      BY <3>2, <3>5 DEF TornOwnerAt
    <3> QED
      BY <2>1, <3>1, <3>2, <3>6, TornOwnerStep
  <2>4. CASE Replace(p) /\ PublishIsIndeterminate(p)
    BY <2>1, <2>4, TornReplace, TornIndeterminate
  <2>5. CASE visible' = visible /\ PublishIsIndeterminate(p)
    BY <2>1, <2>5, TornDiskSame, TornIndeterminate
  <2> QED
    BY <1>10, <2>3, <2>4, <2>5 DEF RenameOverSlot
<1>11. ASSUME NEW p \in Procs, SyncReplacementFails(p) PROVE TornDisk' /\ TornOwner'
  BY <1>11, TornDiskSame, TornIndeterminate DEF SyncReplacementFails, DiskUnchanged, LockOwner
<1>12. ASSUME NEW p \in Procs, SyncReplacement(p) PROVE TornDisk' /\ TornOwner'
  BY <1>12, TornSyncReplacement
<1>13. ASSUME NEW s \in Slots, Writeback(s) PROVE TornDisk' /\ TornOwner'
  <2>1. /\ visible' = visible /\ acked' = acked /\ impl' = impl /\ publish' = publish /\ pc' = pc
        /\ durable' = [durable EXCEPT ![s] = visible[s]]
    BY <1>13 DEF Writeback, Persisted, TornDisk, TornOrSound
  <2>2. \A x \in Slots : durable'[x] \in {durable[x], visible[x]}
    BY <2>1 DEF TypeOK
  <2>3. TornDisk'
    BY <2>1, <2>2, TornHardened
  <2>4. visible = durable => durable' = durable
    BY <2>1 DEF TypeOK
  <2>5. \A x \in Slots : visible[x].generation = 0 /\ durable[x].generation = 0
                            => durable'[x].generation = 0
    BY <2>2
  <2> SUFFICES ASSUME NEW q \in Procs PROVE TornOwnerAt(q)'
    BY <2>3 DEF TornOwner
  <2> QED
    BY <2>1, <2>4, <2>5 DEF Succeeds, TornOwner, TornOwnerAt, TornPublish, PendingFile, TornView,
          HoldsReadable
<1>14. CASE PowerLoss
  <2>1. \A q \in Procs : TornOwnerAt(q)'
    BY <1>14, TornIdle DEF PowerLoss, Idle
  <2>2. CASE visible' = durable /\ durable' = durable
    BY <1>14, <2>1, <2>2 DEF Succeeds, PowerLoss, TornOwner, TornDisk, TornOrSound, KeepsAllButOne,
          TypeOK, SnapshotFile, Slots
  <2>3. CASE visible' = [s \in Slots |-> MissingFile] /\ durable' = [s \in Slots |-> MissingFile]
             /\ damage' = IF acked.generation = 0 THEN damage ELSE "directory"
    <3>1. acked.generation = 0 /\ acked' = acked
      BY <1>14, <2>3 DEF PowerLoss
    <3>2. /\ MissingFile.kind = "missing" /\ MissingFile.generation = 0
          /\ MissingFile.records = EmptyRecords /\ MissingFile.flushed
      BY DEF MissingFile, NotAFile
    <3>3. \A s \in Slots : visible'[s] = MissingFile /\ durable'[s] = MissingFile
      BY <2>3
    <3>4. "A" \in Slots /\ "B" \in Slots
      BY DEF Slots
    <3> QED
      BY <2>1, <3>1, <3>2, <3>3, <3>4 DEF TornOwner, TornDisk, TornOrSound, KeepsAllButOne
  <2> QED
    BY <1>14, <2>2, <2>3 DEF PowerLoss
<1>15. ASSUME NEW s \in Slots, NEW kind \in DamageKinds, Damage(s, kind) PROVE FALSE
  BY <1>15 DEF Damage
<1>16. CASE UNCHANGED vars
  BY <1>16, TornDiskSame, TornOwnerSame DEF vars, TornOwner
<1> QED
  BY <1>1, <1>2, <1>3, <1>4, <1>5, <1>6, <1>7, <1>8, <1>9, <1>10, <1>11, <1>12, <1>13, <1>14,
     <1>15, <1>16 DEF Next, OpenStep, PublishStep

LEMMA TornInvariantStep == OneConfig /\ TornInvariant /\ [Next]_vars => TornInvariant'
<1> SUFFICES ASSUME OneConfig, TornInvariant, [Next]_vars PROVE TornInvariant'
  OBVIOUS
<1>1. DatabaseInvariant'
  BY InvariantStep DEF TornInvariant
<1>2. TypeOK /\ LockOwner /\ TypeOK'
  BY <1>1 DEF TornInvariant, DatabaseInvariant
<1>3. CASE damage' = "torn" /\ damage = "torn"
  BY <1>1, <1>2, <1>3, TornStep DEF TornInvariant
<1>4. ASSUME damage' = "torn", NEW s \in Slots, NEW kind \in DamageKinds, Damage(s, kind)
      PROVE  TornInvariant'
  <2>1. kind = "torn" /\ damage = "none"
    BY <1>4 DEF Damage
  <2> QED
    BY <1>1, <1>2, <1>4, <2>1, TornByDamage DEF TornInvariant, DatabaseInvariant
<1>5. CASE damage' # "torn"
  BY <1>1, <1>5 DEF TornInvariant
<1> QED
  BY <1>3, <1>4, <1>5, DamageMoves

\* Whatever a power loss leaves of a torn database opens, one commit back at most.
LEMMA TornSurvives ==
    ASSUME TypeOK, TornDisk, acked.generation > 0
    PROVE  \A limits \in Configs, image \in CrashImages :
              /\ Recoverable(image, limits)
              /\ Recovered(image, limits).generation + 1 >= acked.generation
<1> SUFFICES ASSUME NEW limits \in Configs, NEW image \in CrashImages
             PROVE  /\ Recoverable(image, limits)
                    /\ Recovered(image, limits).generation + 1 >= acked.generation
  OBVIOUS
<1>1. \A s \in Slots : image[s] \in {durable[s], visible[s]}
  BY DEF CrashImages, Persisted, TornDisk, TornOrSound
<1>2. image \in [Slots -> SnapshotFile]
  BY <1>1 DEF CrashImages, TypeOK
<1>3. TornOrSound(image["A"]) /\ TornOrSound(image["B"])
  BY <1>1 DEF TornDisk, Slots
<1>4. KeepsAllButOne(image["A"], image["B"])
  BY <1>1 DEF TornDisk, Slots
<1> DEFINE st == Statuses(image, limits)
           a == SelectSlot(image, st)
<1>5. \A s \in Slots : st[s] = SlotStatus(image[s], limits)
  BY DEF Statuses
<1>6. /\ image["A"].kind # "missing" /\ image["B"].kind # "missing"
      /\ image["A"].kind = "intact" \/ image["B"].kind = "intact"
      /\ image["A"].kind = "intact" /\ image["B"].kind = "intact" =>
               \/ Succeeds(image["A"].generation, image["B"].generation)
               \/ Succeeds(image["B"].generation, image["A"].generation)
  BY <1>4 DEF KeepsAllButOne
<1>7. Recovered(image, limits) = image[a] /\ Recoverable(image, limits) = ~ Refused(image, st)
  BY <1>6 DEF Recovered, Recoverable, Slots
<1> HIDE DEF st
<1>8. /\ a \in Slots
      /\ image[a].kind = "intact"
      /\ image[OtherSlot(a)].kind \in {"intact", "torn"}
      /\ image[OtherSlot(a)].kind = "intact"
           => Succeeds(image[a].generation, image[OtherSlot(a)].generation)
      /\ ~ Refused(image, st)
  BY <1>2, <1>3, <1>5, <1>6, TornSelected
<1> HIDE DEF a
<1>9. image["A"].generation \in Nat /\ image["B"].generation \in Nat /\ acked.generation \in Nat
  BY <1>2 DEF TypeOK, SnapshotFile, Slots
<1>10. image[a].generation + 1 >= acked.generation
  BY <1>4, <1>8, <1>9 DEF KeepsAllButOne, Slots, OtherSlot, Succeeds
<1> QED
  BY <1>7, <1>8, <1>10

(***************************************************************************)
(* A torn slot costs one commit at most, wherever it strikes: while a      *)
(* publication is under way, before or after the acknowledgement, and over *)
(* the reopenings and commits that follow it.                              *)
(***************************************************************************)
THEOREM TornSlotContained == ASSUME OneConfig PROVE Spec => []TornSlotLosesAtMostOneCommit
<1>1. Init => TornInvariant
  BY InvariantInit DEF Init, TornInvariant
<1>2. TornInvariant => TornSlotLosesAtMostOneCommit
  BY TornSurvives DEF TornInvariant, DatabaseInvariant, TornSlotLosesAtMostOneCommit
<1> QED
  BY <1>1, <1>2, TornInvariantStep, PTL DEF Spec

-----------------------------------------------------------------------------
(***************************************************************************)
(* A snapshot of another format version stops every process before its     *)
(* first write.                                                            *)
(***************************************************************************)
IsForeign(s) == visible[s].kind = "foreign" \/ durable[s].kind = "foreign"

Stopped(p) == pc[p] \in {"closed", "created", "acquire", "read"}

ForeignStopsAll ==
    /\ \A s \in Slots : IsForeign(s) =>
          /\ damage = "foreign"
          /\ durable[s] = visible[s]
          /\ \A p \in Procs : Stopped(p)
    /\ \A p \in Procs : publish[p].file.kind # "foreign"

ForeignInvariant == TypeOK /\ LockOwner /\ ForeignStopsAll

LEMMA ForeignStep ==
    ASSUME TypeOK, TypeOK', LockOwner, ForeignStopsAll, [Next]_vars
    PROVE  /\ ForeignStopsAll'
           /\ \A s \in Slots : visible[s].kind = "foreign" /\ directory' # "absent"
                                   => visible'[s] = visible[s]
<1> DEFINE Kept == \A s \in Slots : visible[s].kind = "foreign" /\ directory' # "absent"
                                        => visible'[s] = visible[s]
<1>0. /\ MissingFile.kind = "missing" /\ TornFile.kind = "torn" /\ ForeignFile.kind = "foreign"
      /\ Genesis.kind = "intact" /\ NoPublish.file = MissingFile
      /\ \A c, n : EncodeSnapshot(c, n).kind = "intact"
  BY DEF MissingFile, TornFile, ForeignFile, NotAFile, Genesis, NoPublish, EncodeSnapshot
\* The steps that leave the disk alone.
<1>1. ASSUME visible' = visible, durable' = durable, damage' = damage, NEW p \in Procs,
             \A q \in Procs \ {p} : pc'[q] = pc[q] /\ publish'[q] = publish[q],
             publish'[p].file.kind # "foreign",
             \/ pc'[p] \in {"closed", "created", "acquire", "read"}
             \/ \A s \in Slots : ~ IsForeign(s)
      PROVE  ForeignStopsAll' /\ Kept
  BY <1>1 DEF ForeignStopsAll, IsForeign, Stopped
<1>2. ASSUME NEW p \in Procs, Forget(p), visible' = visible, durable' = durable, damage' = damage
      PROVE  ForeignStopsAll' /\ Kept
  BY <1>0, <1>1, <1>2 DEF Forget, TypeOK
<1>3. ASSUME NEW p \in Procs, ~ Stopped(p) PROVE \A s \in Slots : ~ IsForeign(s)
  BY <1>3 DEF ForeignStopsAll
<1>4. ASSUME NEW p \in Procs, NEW slot, NEW file, NEW caller, file.kind = "intact",
             StartPublish(p, slot, file, caller), \A s \in Slots : ~ IsForeign(s),
             visible' = visible, durable' = durable, damage' = damage
      PROVE  ForeignStopsAll' /\ Kept
  BY <1>1, <1>4 DEF StartPublish, Goto, TypeOK
<1>5. ASSUME NEW p \in Procs, NEW slot, Adopt(p, slot), \A s \in Slots : ~ IsForeign(s),
             visible' = visible, durable' = durable, damage' = damage
      PROVE  ForeignStopsAll' /\ Kept
  BY <1>1, <1>5 DEF Adopt, TypeOK, ForeignStopsAll
<1>6. ASSUME NEW p \in Procs, \/ EnsureDirectory(p) \/ SynchronizeCreatedDirectoryChain(p)
                              \/ AcquireLock(p)
      PROVE  ForeignStopsAll' /\ Kept
  <2>1. /\ visible' = visible /\ durable' = durable /\ damage' = damage /\ publish' = publish
        /\ pc'[p] \in {"closed", "created", "acquire", "read"}
        /\ \A q \in Procs \ {p} : pc'[q] = pc[q]
    BY <1>6 DEF EnsureDirectory, SynchronizeCreatedDirectoryChain, AcquireLock, Goto, TypeOK
  <2> QED
    BY <1>1, <2>1 DEF ForeignStopsAll
<1>7. ASSUME NEW p \in Procs, OpenFails(p) \/ CloseOrDie(p) PROVE ForeignStopsAll' /\ Kept
  BY <1>2, <1>7 DEF OpenFails, CloseOrDie, DiskUnchanged
<1>8. ASSUME NEW p \in Procs, OpenReadSlots(p) PROVE ForeignStopsAll' /\ Kept
  <2>1. visible' = visible /\ durable' = durable /\ damage' = damage
    BY <1>8 DEF OpenReadSlots, DiskUnchanged
  <2>2. PICK st \in [Slots -> {"Missing", "Valid", "Corrupt", "Fatal"}] :
          /\ ReadSlots(p, st)
          /\ \/ Forget(p)
             \/ /\ ~Refused(visible, st)
                /\ \/ StartPublish(p, "A", Genesis, "genesisA")
                   \/ \E s \in Slots : StartPublish(p, OtherSlot(s), Genesis, "restore")
                   \/ Adopt(p, SelectSlot(visible, st))
    BY <1>8 DEF OpenReadSlots
  <2>3. (\E s \in Slots : IsForeign(s)) => Refused(visible, st)
    <3> SUFFICES ASSUME NEW s \in Slots, IsForeign(s) PROVE st[s] = "Fatal"
      BY DEF Refused
    <3>1. visible[s].kind = "foreign"
      BY DEF ForeignStopsAll, IsForeign
    <3> QED
      BY <2>2, <3>1 DEF ReadSlots, SlotStatus, DecodeVerdict
  <2> QED
    BY <1>0, <1>2, <1>4, <1>5, <2>1, <2>2, <2>3
<1>9. ASSUME NEW p \in Procs, OpenReadRestored(p) PROVE ForeignStopsAll' /\ Kept
  <2>1. visible' = visible /\ durable' = durable /\ damage' = damage /\ ~ Stopped(p)
    BY <1>9 DEF OpenReadRestored, DiskUnchanged, Stopped
  <2> QED
    BY <1>2, <1>3, <1>5, <1>9, <2>1 DEF OpenReadRestored
<1>10. ASSUME NEW p \in Procs, NEW batch \in Batches, Commit(p, batch)
       PROVE  ForeignStopsAll' /\ Kept
  <2>1. visible' = visible /\ durable' = durable /\ damage' = damage /\ ~ Stopped(p)
    BY <1>10 DEF Commit, DiskUnchanged, Stopped
  <2> QED
    BY <1>0, <1>3, <1>4, <1>10, <2>1 DEF Commit
\* Publishing starts when no slot is foreign, and makes none foreign.
<1>11. ASSUME NEW p \in Procs, ~ Stopped(p), damage' = damage,
              \A s \in Slots : visible'[s].kind # "foreign" /\ durable'[s].kind # "foreign",
              \A q \in Procs : publish'[q].file.kind # "foreign"
       PROVE  ForeignStopsAll' /\ Kept
  BY <1>3, <1>11 DEF ForeignStopsAll, IsForeign
<1>12. ASSUME SynchronizeDirectory, \A s \in Slots : ~ IsForeign(s)
       PROVE  \A s \in Slots : durable'[s].kind # "foreign"
  BY <1>0, <1>12 DEF SynchronizeDirectory, Persisted, IsForeign
<1>13. ASSUME NEW p \in Procs, PublishIsIndeterminate(p)
       PROVE  \A q \in Procs : publish'[q].file.kind # "foreign"
  BY <1>0, <1>13 DEF PublishIsIndeterminate, Forget, TypeOK, ForeignStopsAll
<1>14. ASSUME NEW p \in Procs, PublishStep(p) PROVE ForeignStopsAll' /\ Kept
  <2>1. ~ Stopped(p) /\ damage' = damage
    BY <1>14 DEF PublishStep, PrepareDirectory, WriteTemporary, RenameOverSlot, SyncReplacement,
          PublishFails, SyncReplacementFails, Stopped, DiskUnchanged
  <2>2. \A s \in Slots : visible[s].kind # "foreign" /\ durable[s].kind # "foreign"
    BY <1>3, <2>1 DEF IsForeign
  <2>3. CASE PrepareDirectory(p)
    BY <1>3, <1>11, <1>12, <2>1, <2>2, <2>3 DEF PrepareDirectory, ForeignStopsAll
  <2>4. CASE WriteTemporary(p)
    <3>1. \A q \in Procs : publish'[q].file.kind = publish[q].file.kind
      BY <2>4 DEF WriteTemporary, TypeOK, SnapshotFile
    <3> QED
      BY <1>11, <2>1, <2>2, <2>4, <3>1 DEF WriteTemporary, DiskUnchanged, ForeignStopsAll
  <2>5. CASE RenameOverSlot(p)
    <3>1. \A s \in Slots : visible'[s].kind # "foreign" /\ durable'[s].kind # "foreign"
      BY <2>2, <2>5 DEF RenameOverSlot, Replace, TypeOK, ForeignStopsAll
    <3>2. \A q \in Procs : publish'[q].file.kind # "foreign"
      BY <1>13, <2>5 DEF RenameOverSlot, ForeignStopsAll
    <3> QED
      BY <1>11, <2>1, <3>1, <3>2
  <2>6. CASE SyncReplacement(p)
    <3>1. /\ visible' = visible
          /\ \A s \in Slots : durable'[s].kind # "foreign"
      BY <1>3, <1>12, <2>1, <2>6 DEF SyncReplacement
    <3>2. \A q \in Procs : publish'[q].file.kind # "foreign"
      BY <1>0, <2>6 DEF SyncReplacement, StartPublish, TypeOK, ForeignStopsAll
    <3> QED
      BY <1>11, <2>1, <2>2, <3>1, <3>2
  <2>7. CASE PublishFails(p)
    <3>1. \A q \in Procs : publish'[q].file.kind # "foreign"
      BY <1>0, <2>7 DEF PublishFails, Forget, TypeOK, ForeignStopsAll
    <3> QED
      BY <1>11, <2>1, <2>2, <2>7, <3>1 DEF PublishFails, DiskUnchanged
  <2>8. CASE SyncReplacementFails(p)
    BY <1>11, <1>13, <2>1, <2>2, <2>8 DEF SyncReplacementFails, DiskUnchanged
  <2> QED
    BY <1>14, <2>3, <2>4, <2>5, <2>6, <2>7, <2>8 DEF PublishStep
<1>15. ASSUME NEW s \in Slots, Writeback(s) PROVE ForeignStopsAll' /\ Kept
  <2>1. /\ visible' = visible /\ damage' = damage /\ pc' = pc /\ publish' = publish
        /\ visible[s] # durable[s]
        /\ \E f \in Persisted(visible[s]) : durable' = [durable EXCEPT ![s] = f]
    BY <1>15 DEF Writeback
  <2>2. ~ IsForeign(s)
    BY <2>1 DEF ForeignStopsAll
  <2>3. durable'[s].kind # "foreign" /\ \A x \in Slots \ {s} : durable'[x] = durable[x]
    BY <1>0, <2>1, <2>2 DEF Persisted, IsForeign, TypeOK
  <2> QED
    BY <2>1, <2>2, <2>3 DEF ForeignStopsAll, IsForeign, Stopped
<1>16. CASE PowerLoss
  <2>1. \A p \in Procs : Stopped(p)' /\ publish'[p].file.kind # "foreign"
    BY <1>0, <1>16 DEF PowerLoss, Stopped
  <2>2. CASE visible' = durable /\ durable' = durable /\ damage' = damage
    BY <2>1, <2>2 DEF ForeignStopsAll, IsForeign
  <2>3. CASE /\ visible' = [s \in Slots |-> MissingFile]
             /\ durable' = [s \in Slots |-> MissingFile]
             /\ directory' = "absent"
    BY <1>0, <2>1, <2>3 DEF ForeignStopsAll, IsForeign
  <2> QED
    BY <1>16, <2>2, <2>3 DEF PowerLoss
<1>17. ASSUME NEW s \in Slots, NEW kind \in DamageKinds, Damage(s, kind)
       PROVE  ForeignStopsAll' /\ Kept
  <2>1. /\ damage = "none" /\ damage' = kind /\ pc' = pc /\ publish' = publish
        /\ kind \in {"torn", "missing", "foreign"}
        /\ kind # "torn" => lock = NoProc
        /\ visible' = [visible EXCEPT ![s] = visible'[s]]
        /\ durable' = [durable EXCEPT ![s] = visible'[s]]
        /\ visible'[s].kind = "foreign" => kind = "foreign"
    BY <1>0, <1>17, EnvironmentAssumption DEF Damage, TypeOK
  <2>2. \A x \in Slots : ~ IsForeign(x)
    BY <2>1 DEF ForeignStopsAll
  <2>3. kind = "foreign" => \A p \in Procs : Stopped(p)'
    BY <2>1, NoProcAssumption DEF LockOwner, Stopped
  <2>4. durable'[s] = visible'[s]
    BY <2>1 DEF TypeOK
  <2>5. \A x \in Slots \ {s} : visible'[x] = visible[x] /\ durable'[x] = durable[x]
    BY <2>1 DEF TypeOK
  <2> QED
    BY <2>1, <2>2, <2>3, <2>4, <2>5 DEF ForeignStopsAll, IsForeign
<1>18. CASE UNCHANGED vars
  BY <1>18 DEF vars, ForeignStopsAll, IsForeign, Stopped
<1> QED
  BY <1>6, <1>7, <1>8, <1>9, <1>10, <1>14, <1>15, <1>16, <1>17, <1>18 DEF Next, OpenStep

(***************************************************************************)
(* No step of any number of processes, under any limits, replaces a        *)
(* snapshot of another format version.                                     *)
(***************************************************************************)
THEOREM ForeignContained == Spec => ForeignSnapshotIsKept
<1>1. Init => ForeignInvariant
  <2>1. Init => ForeignStopsAll
    BY DEF Init, ForeignStopsAll, IsForeign, NoPublish, MissingFile, NotAFile
  <2> QED
    BY <2>1, TypeInit DEF ForeignInvariant, Init, LockOwner
<1>2. ForeignInvariant /\ [Next]_vars => ForeignInvariant'
  BY TypeStep, LockStep, ForeignStep DEF ForeignInvariant
<1>3. ForeignInvariant /\ [Next]_vars
        => [\A s \in Slots : visible[s].kind = "foreign" /\ directory' # "absent"
                                => visible'[s] = visible[s]]_vars
  BY TypeStep, ForeignStep DEF ForeignInvariant
<1> QED
  BY <1>1, <1>2, <1>3, PTL DEF Spec, ForeignSnapshotIsKept

(***************************************************************************)
(* Damage is contained.                                                    *)
(***************************************************************************)
THEOREM DamageContained == ASSUME OneConfig PROVE Spec => DamageIsContained
BY TornSlotContained, ForeignContained DEF DamageIsContained

=============================================================================
