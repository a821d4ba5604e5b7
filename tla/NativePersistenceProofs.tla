------------------------ MODULE NativePersistenceProofs ------------------------
(***************************************************************************)
(* Proofs about NativePersistence, for any identities the program may      *)
(* create, any limits of the database and any number of commits, raw       *)
(* writes, failures and restarts.                                          *)
(*                                                                         *)
(* The argument has two halves.  What a batch makes of records that a      *)
(* start accepts is again accepted, by lemmas about records alone; and the *)
(* owner's memory is compared with `latest`, which a usable instance has   *)
(* in hand.  The revisions make a pointer unmistakable: no commit reuses   *)
(* one, so a pointer at the remembered revision holds what was confirmed.  *)
(***************************************************************************)
EXTENDS NativePersistence, FiniteSetTheorems, TLAPS

-------------------------------------------------------------------------------
(* Keys and values.                                                        *)

LEMMA KeysAreKeys ==
    /\ ActiveKey \in RecordKeys /\ ActiveCharacterKey \in RecordKeys
    /\ \A p \in Profiles : ProfileKey(p) \in RecordKeys /\ CheckpointKey(p) \in RecordKeys
    /\ \A p \in Profiles, c \in Characters :
          CharacterKey(p, c) \in RecordKeys /\ SessionKey(p, c) \in RecordKeys
BY DEF RecordKeys

LEMMA PointersDiffer ==
    /\ ActiveKey # ActiveCharacterKey
    /\ \A p : ActiveKey # ProfileKey(p) /\ ActiveCharacterKey # ProfileKey(p)
    /\ \A p : ActiveKey # CheckpointKey(p) /\ ActiveCharacterKey # CheckpointKey(p)
    /\ \A p, c : ActiveKey # CharacterKey(p, c) /\ ActiveCharacterKey # CharacterKey(p, c)
    /\ \A p, c : ActiveKey # SessionKey(p, c) /\ ActiveCharacterKey # SessionKey(p, c)
BY DEF ActiveKey, ActiveCharacterKey, ProfileKey, CheckpointKey, CharacterKey, SessionKey

LEMMA MarkersDiffer ==
    /\ \A p, q : ProfileKey(p) # CheckpointKey(q)
    /\ \A p, q, c : ProfileKey(p) # CharacterKey(q, c) /\ ProfileKey(p) # SessionKey(q, c)
    /\ \A p, q, c : CheckpointKey(p) # CharacterKey(q, c) /\ CheckpointKey(p) # SessionKey(q, c)
    /\ \A p, q, c, d : CharacterKey(p, c) # SessionKey(q, d)
BY DEF ProfileKey, CheckpointKey, CharacterKey, SessionKey

LEMMA KeysTellIdentities ==
    /\ \A p, q : ProfileKey(p) = ProfileKey(q) => p = q
    /\ \A p, q : CheckpointKey(p) = CheckpointKey(q) => p = q
    /\ \A p, q, c, d : CharacterKey(p, c) = CharacterKey(q, d) => p = q /\ c = d
    /\ \A p, q, c, d : SessionKey(p, c) = SessionKey(q, d) => p = q /\ c = d
BY DEF ProfileKey, CheckpointKey, CharacterKey, SessionKey

LEMMA ValuesAreValues ==
    /\ Junk \in RecordValues
    /\ \A p \in Profiles : ActiveValue(p) \in RecordValues /\ CheckpointValue(p) \in RecordValues
    /\ \A p \in Profiles, c \in Characters :
          ActiveCharacterValue(p, c) \in RecordValues /\ SessionValue(p, c) \in RecordValues
    /\ \A t \in Timestamps, u \in Timestamps : MetadataValue(t, u) \in RecordValues
BY DEF RecordValues

LEMMA ValuesTellIdentities ==
    /\ \A p : ActiveValue(p)[2] = p
    /\ \A p, c : ActiveCharacterValue(p, c)[2] = p /\ ActiveCharacterValue(p, c)[3] = c
    /\ \A t, u : MetadataValue(t, u)[1] = "metadata" /\ MetadataValue(t, u)[2] = t
BY DEF ActiveValue, ActiveCharacterValue, MetadataValue

LEMMA MetadataIsMetadata ==
    ASSUME NEW v \in RecordValues, v[1] = "metadata"
    PROVE  v[2] \in Timestamps
BY DEF RecordValues, Junk, ActiveValue, CheckpointValue, ActiveCharacterValue, SessionValue,
       MetadataValue

-------------------------------------------------------------------------------
(* What the batches of the program make of the records.                    *)

Stamped(v, n) == [schema_version |-> 1, revision |-> n, value |-> v]

LEMMA PutMakes ==
    ASSUME NEW rs, rs \in RecordMap, NEW k \in RecordKeys, NEW v, NEW condition, NEW n
    PROVE  Candidate(<<Put(k, v, condition)>>, rs, n) = [rs EXCEPT ![k] = Stamped(v, n)]
<1> DEFINE batch == <<Put(k, v, condition)>>
<1>1. DOMAIN batch = {1} /\ batch[1] = Put(k, v, condition)
  OBVIOUS
<1>2. /\ batch[1].key = k /\ batch[1].kind = "Put" /\ batch[1].schema_version = 1
      /\ batch[1].value = v
  BY DEF Put
<1> HIDE DEF batch
<1> SUFFICES ASSUME NEW j \in RecordKeys
             PROVE  Candidate(batch, rs, n)[j] = [rs EXCEPT ![k] = Stamped(v, n)][j]
  BY DEF Candidate, RecordMap, batch
<1>3. (CHOOSE i \in DOMAIN batch : batch[i].key = k) = 1
  BY <1>1, <1>2
<1>4. CASE j = k
  BY <1>1, <1>2, <1>3, <1>4 DEF Candidate, RecordMap, Stamped
<1>5. CASE j # k
  BY <1>1, <1>2, <1>5 DEF Candidate, RecordMap
<1> QED
  BY <1>4, <1>5

LEMMA PutAndEraseMake ==
    ASSUME NEW rs, rs \in RecordMap, NEW k \in RecordKeys, NEW e \in RecordKeys, k # e,
           NEW v, NEW condition, NEW condition2, NEW n
    PROVE  Candidate(<<Put(k, v, condition), Erase(e, condition2)>>, rs, n) =
              [rs EXCEPT ![k] = Stamped(v, n), ![e] = NoRecord]
<1> DEFINE batch == <<Put(k, v, condition), Erase(e, condition2)>>
<1>1. DOMAIN batch = {1, 2} /\ batch[1] = Put(k, v, condition) /\ batch[2] = Erase(e, condition2)
  OBVIOUS
<1>2. /\ batch[1].key = k /\ batch[1].kind = "Put" /\ batch[1].schema_version = 1
      /\ batch[1].value = v /\ batch[2].key = e /\ batch[2].kind = "Erase"
  BY DEF Put, Erase
<1> HIDE DEF batch
<1> SUFFICES ASSUME NEW j \in RecordKeys
             PROVE  Candidate(batch, rs, n)[j] =
                       [rs EXCEPT ![k] = Stamped(v, n), ![e] = NoRecord][j]
  BY DEF Candidate, RecordMap, batch
<1>3. /\ (CHOOSE i \in DOMAIN batch : batch[i].key = k) = 1
      /\ (CHOOSE i \in DOMAIN batch : batch[i].key = e) = 2
  BY <1>1, <1>2
<1>4. CASE j = k
  BY <1>1, <1>2, <1>3, <1>4 DEF Candidate, RecordMap, Stamped
<1>5. CASE j = e
  BY <1>1, <1>2, <1>3, <1>5 DEF Candidate, RecordMap
<1>6. CASE j # k /\ j # e
  BY <1>1, <1>2, <1>6 DEF Candidate, RecordMap
<1> QED
  BY <1>4, <1>5, <1>6

LEMMA ErasesMake ==
    ASSUME NEW rs, rs \in RecordMap, NEW k \in RecordKeys, NEW e \in RecordKeys, k # e,
           NEW condition, NEW condition2, NEW n
    PROVE  Candidate(<<Erase(k, condition), Erase(e, condition2)>>, rs, n) =
              [rs EXCEPT ![k] = NoRecord, ![e] = NoRecord]
<1> DEFINE batch == <<Erase(k, condition), Erase(e, condition2)>>
<1>1. DOMAIN batch = {1, 2} /\ batch[1] = Erase(k, condition) /\ batch[2] = Erase(e, condition2)
  OBVIOUS
<1>2. /\ batch[1].key = k /\ batch[1].kind = "Erase"
      /\ batch[2].key = e /\ batch[2].kind = "Erase"
  BY DEF Erase
<1> HIDE DEF batch
<1> SUFFICES ASSUME NEW j \in RecordKeys
             PROVE  Candidate(batch, rs, n)[j] = [rs EXCEPT ![k] = NoRecord, ![e] = NoRecord][j]
  BY DEF Candidate, RecordMap, batch
<1>3. /\ (CHOOSE i \in DOMAIN batch : batch[i].key = k) = 1
      /\ (CHOOSE i \in DOMAIN batch : batch[i].key = e) = 2
  BY <1>1, <1>2
<1>4. CASE j = k
  BY <1>1, <1>2, <1>3, <1>4 DEF Candidate, RecordMap
<1>5. CASE j = e
  BY <1>1, <1>2, <1>3, <1>5 DEF Candidate, RecordMap
<1>6. CASE j # k /\ j # e
  BY <1>1, <1>2, <1>6 DEF Candidate, RecordMap
<1> QED
  BY <1>4, <1>5, <1>6

\* A batch is accepted only if the condition of its first mutation holds.
LEMMA FirstConditionHolds ==
    ASSUME NEW batch, NEW generation, NEW rs, NEW lim, Len(batch) \in Nat, 1 \in DOMAIN batch,
           Accepts(batch, generation, rs, lim)
    PROVE  /\ IsValidCondition(batch[1].condition)
           /\ SatisfiesCondition(batch[1].condition, rs[batch[1].key])
<1>1. MutationVerdict(batch, 1, rs, lim) = "Ok"
  BY DEF Accepts, RefusedMutations
<1> QED
  BY <1>1 DEF MutationVerdict

-------------------------------------------------------------------------------
(* Records that a start accepts stay so.                                   *)

\* No revision is of the future, what is absent left nothing behind, and what is there
\* has a value.
WellFormed(rs, generation) ==
    \A k \in RecordKeys :
        /\ rs[k].revision <= generation
        /\ ~Exists(rs[k]) => rs[k] = NoRecord
        /\ Exists(rs[k]) => rs[k].value \in RecordValues

LEMMA ListsFit ==
    /\ \A rs : Cardinality(Listed(rs)) <= MaxProfiles
    /\ \A rs, p : Cardinality(CharactersListed(rs, p)) <= MaxCharacters
<1>1. ASSUME NEW rs PROVE Cardinality(Listed(rs)) <= MaxProfiles
  <2>1. Listed(rs) \in SUBSET Profiles
    BY DEF Listed
  <2>2. Cardinality(Listed(rs)) <= Cardinality(Profiles) /\ IsFiniteSet(Listed(rs))
    BY <2>1, IdentitiesAssumption, FS_Subset
  <2>3. Cardinality(Listed(rs)) \in Nat /\ Cardinality(Profiles) \in Nat
    BY <2>2, IdentitiesAssumption, FS_CardinalityType
  <2> QED
    BY <2>2, <2>3, IdentitiesAssumption
<1>2. ASSUME NEW rs, NEW p PROVE Cardinality(CharactersListed(rs, p)) <= MaxCharacters
  <2>1. CharactersListed(rs, p) \in SUBSET Characters
    BY DEF CharactersListed
  <2>2. /\ Cardinality(CharactersListed(rs, p)) <= Cardinality(Characters)
        /\ IsFiniteSet(CharactersListed(rs, p))
    BY <2>1, IdentitiesAssumption, FS_Subset
  <2>3. Cardinality(CharactersListed(rs, p)) \in Nat /\ Cardinality(Characters) \in Nat
    BY <2>2, IdentitiesAssumption, FS_CardinalityType
  <2> QED
    BY <2>2, <2>3, IdentitiesAssumption
<1> QED
  BY <1>1, <1>2

\* What the program writes: every marker is one, listed or not.
MarkersAreSound(rs) ==
    /\ \A p \in Profiles : Exists(rs[ProfileKey(p)]) => IsMetadata(rs[ProfileKey(p)])
    /\ \A p \in Profiles, c \in Characters :
          Exists(rs[CharacterKey(p, c)]) => IsMetadata(rs[CharacterKey(p, c)])

RecordsAreSound(rs) ==
    /\ MarkersAreSound(rs)
    /\ ActiveProfileIsValid(rs)
    /\ ActiveCharacterIsValid(rs)
    /\ CheckpointsAreValid(rs)

LEMMA SoundIsAccepted ==
    ASSUME NEW rs, RecordsAreSound(rs) PROVE StartupAccepts(rs)
BY ListsFit DEF RecordsAreSound, MarkersAreSound, StartupAccepts, CatalogsAreReadable, Listed,
                CharactersListed, ProfileExists, CharacterExists, IsMetadata

LEMMA StampIsRecord ==
    ASSUME NEW v \in RecordValues, NEW n \in Nat, n # 0
    PROVE  /\ Stamped(v, n) \in StoredRecord /\ Stamped(v, n).value = v
           /\ Stamped(v, n).revision = n /\ Exists(Stamped(v, n))
BY DEF Stamped, StoredRecord, Exists

LEMMA NoRecordIsNone ==
    /\ NoRecord \in StoredRecord /\ ~Exists(NoRecord) /\ NoRecord.revision = 0
    /\ NoRecord.value = NoBytes
BY DEF NoRecord, StoredRecord, Exists

LEMMA EmptyIsSound == RecordsAreSound(EmptyRecords)
<1>1. \A k \in RecordKeys : ~Exists(EmptyRecords[k])
  BY NoRecordIsNone DEF EmptyRecords
<1> QED
  BY <1>1, KeysAreKeys DEF RecordsAreSound, MarkersAreSound, ActiveProfileIsValid,
                           ActiveCharacterIsValid, CheckpointsAreValid

\* Whatever is there stays there, and the parts that were sound too.
Grows(rs, new, k) ==
    /\ \A j \in RecordKeys : j # k => new[j] = rs[j]
    /\ Exists(new[k])

\* A marker of a profile or a character is put.
LEMMA MarkerKeepsSound ==
    ASSUME NEW rs, RecordsAreSound(rs), NEW new, NEW k \in RecordKeys, Grows(rs, new, k),
           IsMetadata(new[k]),
           \/ \E p \in Profiles : k = ProfileKey(p)
           \/ \E p \in Profiles, c \in Characters : k = CharacterKey(p, c)
    PROVE  RecordsAreSound(new)
<1>1. /\ \A j \in RecordKeys : j # k => new[j] = rs[j]
      /\ \A j \in RecordKeys : IsMetadata(rs[j]) => IsMetadata(new[j])
  BY DEF Grows
<1>2. /\ new[ActiveKey] = rs[ActiveKey] /\ new[ActiveCharacterKey] = rs[ActiveCharacterKey]
      /\ \A p \in Profiles : new[CheckpointKey(p)] = rs[CheckpointKey(p)]
      /\ \A p \in Profiles, c \in Characters : new[SessionKey(p, c)] = rs[SessionKey(p, c)]
  BY <1>1, KeysAreKeys, PointersDiffer, MarkersDiffer
<1>3. MarkersAreSound(new)
  BY <1>1, KeysAreKeys DEF MarkersAreSound, RecordsAreSound
<1>4. /\ Listed(rs) \subseteq Listed(new)
      /\ \A p \in Profiles, c \in Characters : CharacterExists(rs, p, c) => CharacterExists(new, p, c)
  <2>1. \A p \in Profiles : Exists(rs[ProfileKey(p)]) => Exists(new[ProfileKey(p)])
    BY <1>1, KeysAreKeys DEF Grows
  <2> QED
    BY <1>1, <2>1, KeysAreKeys DEF Listed, CharacterExists, ProfileExists
<1>5. ActiveProfileIsValid(new)
  BY <1>2, <1>4 DEF ActiveProfileIsValid, RecordsAreSound
<1>6. ActiveCharacterIsValid(new)
  BY <1>2, <1>4 DEF ActiveCharacterIsValid, RecordsAreSound
<1>7. CheckpointsAreValid(new)
  BY <1>2, <1>4 DEF CheckpointsAreValid, RecordsAreSound
<1> QED
  BY <1>3, <1>5, <1>6, <1>7 DEF RecordsAreSound

\* What the rest of the records reads of markers, when none of them moved.
LEMMA SameMarkers ==
    ASSUME NEW rs, NEW new,
           \A p \in Profiles : new[ProfileKey(p)] = rs[ProfileKey(p)],
           \A p \in Profiles, c \in Characters : new[CharacterKey(p, c)] = rs[CharacterKey(p, c)]
    PROVE  /\ Listed(new) = Listed(rs)
           /\ \A p \in Profiles, c \in Characters :
                 CharacterExists(new, p, c) <=> CharacterExists(rs, p, c)
           /\ MarkersAreSound(new) <=> MarkersAreSound(rs)
BY DEF Listed, CharacterExists, ProfileExists, MarkersAreSound

\* Another profile is confirmed, and no character.
LEMMA ProfileKeepsSound ==
    ASSUME NEW rs, RecordsAreSound(rs), NEW new,
           \A j \in RecordKeys : j # ActiveKey /\ j # ActiveCharacterKey => new[j] = rs[j],
           NEW p \in Profiles, ProfileExists(rs, p), new[ActiveKey].value = ActiveValue(p),
           ~Exists(new[ActiveCharacterKey])
    PROVE  RecordsAreSound(new)
<1>1. /\ \A q \in Profiles : new[ProfileKey(q)] = rs[ProfileKey(q)]
      /\ \A q \in Profiles, c \in Characters : new[CharacterKey(q, c)] = rs[CharacterKey(q, c)]
      /\ \A q \in Profiles : new[CheckpointKey(q)] = rs[CheckpointKey(q)]
      /\ \A q \in Profiles, c \in Characters : new[SessionKey(q, c)] = rs[SessionKey(q, c)]
  BY KeysAreKeys, PointersDiffer
<1>2. p \in Listed(rs)
  BY DEF ProfileExists, IsMetadata, Listed
<1>3. ActiveProfileIsValid(new)
  BY <1>1, <1>2, SameMarkers DEF ActiveProfileIsValid
<1>4. ActiveCharacterIsValid(new)
  BY DEF ActiveCharacterIsValid
<1>5. CheckpointsAreValid(new)
  BY <1>1, SameMarkers DEF CheckpointsAreValid, RecordsAreSound
<1> QED
  BY <1>1, <1>3, <1>4, <1>5, SameMarkers DEF RecordsAreSound

\* A character of the confirmed profile is confirmed.
LEMMA CharacterKeepsSound ==
    ASSUME NEW rs, RecordsAreSound(rs), NEW new,
           \A j \in RecordKeys : j # ActiveCharacterKey => new[j] = rs[j],
           NEW p \in Profiles, NEW c \in Characters, CharacterExists(rs, p, c),
           Exists(rs[ActiveKey]), rs[ActiveKey].value = ActiveValue(p),
           new[ActiveCharacterKey].value = ActiveCharacterValue(p, c)
    PROVE  RecordsAreSound(new)
<1>1. /\ \A q \in Profiles : new[ProfileKey(q)] = rs[ProfileKey(q)]
      /\ \A q \in Profiles, d \in Characters : new[CharacterKey(q, d)] = rs[CharacterKey(q, d)]
      /\ \A q \in Profiles : new[CheckpointKey(q)] = rs[CheckpointKey(q)]
      /\ \A q \in Profiles, d \in Characters : new[SessionKey(q, d)] = rs[SessionKey(q, d)]
      /\ new[ActiveKey] = rs[ActiveKey]
  BY KeysAreKeys, PointersDiffer
<1>2. ActiveProfileIsValid(new)
  BY <1>1, SameMarkers DEF ActiveProfileIsValid, RecordsAreSound
<1>3. ActiveCharacterIsValid(new)
  <2>1. CharacterExists(new, p, c)
    BY <1>1, SameMarkers
  <2> QED
    BY <1>1, <2>1 DEF ActiveCharacterIsValid
<1>4. CheckpointsAreValid(new)
  BY <1>1, SameMarkers DEF CheckpointsAreValid, RecordsAreSound
<1> QED
  BY <1>1, <1>2, <1>3, <1>4, SameMarkers DEF RecordsAreSound

\* A campaign or a session is prepared.
LEMMA CheckpointKeepsSound ==
    ASSUME NEW rs, RecordsAreSound(rs), NEW new, NEW k \in RecordKeys,
           \A j \in RecordKeys : j # k => new[j] = rs[j],
           \/ \E p \in Profiles : /\ k = CheckpointKey(p) /\ ProfileExists(rs, p)
                                  /\ new[k].value = CheckpointValue(p)
           \/ \E p \in Profiles, c \in Characters :
                 /\ k = SessionKey(p, c) /\ CharacterExists(rs, p, c)
                 /\ new[k].value = SessionValue(p, c)
    PROVE  RecordsAreSound(new)
<1>1. /\ \A q \in Profiles : new[ProfileKey(q)] = rs[ProfileKey(q)]
      /\ \A q \in Profiles, d \in Characters : new[CharacterKey(q, d)] = rs[CharacterKey(q, d)]
      /\ new[ActiveKey] = rs[ActiveKey] /\ new[ActiveCharacterKey] = rs[ActiveCharacterKey]
  BY KeysAreKeys, PointersDiffer, MarkersDiffer
<1>2. ActiveProfileIsValid(new) /\ ActiveCharacterIsValid(new)
  BY <1>1, SameMarkers DEF ActiveProfileIsValid, ActiveCharacterIsValid, RecordsAreSound
<1>3. \A q \in Profiles : ProfileExists(rs, q) => q \in Listed(rs)
  BY DEF ProfileExists, IsMetadata, Listed
<1>4. ASSUME NEW q \in Profiles, Exists(new[CheckpointKey(q)])
      PROVE  new[CheckpointKey(q)].value = CheckpointValue(q) /\ q \in Listed(new)
  <2>1. CASE k = CheckpointKey(q)
    BY <1>1, <1>3, <2>1, SameMarkers, MarkersDiffer, KeysTellIdentities
  <2>2. CASE k # CheckpointKey(q)
    BY <1>1, <1>4, <2>2, SameMarkers, KeysAreKeys DEF RecordsAreSound, CheckpointsAreValid
  <2> QED
    BY <2>1, <2>2
<1>5. ASSUME NEW q \in Profiles, NEW d \in Characters, Exists(new[SessionKey(q, d)])
      PROVE  new[SessionKey(q, d)].value = SessionValue(q, d) /\ CharacterExists(new, q, d)
  <2>1. CASE k = SessionKey(q, d)
    BY <1>1, <2>1, SameMarkers, MarkersDiffer, KeysTellIdentities
  <2>2. CASE k # SessionKey(q, d)
    BY <1>1, <1>5, <2>2, SameMarkers, KeysAreKeys DEF RecordsAreSound, CheckpointsAreValid
  <2> QED
    BY <2>1, <2>2
<1>6. CheckpointsAreValid(new)
  BY <1>4, <1>5 DEF CheckpointsAreValid
<1> QED
  BY <1>1, <1>2, <1>6, SameMarkers DEF RecordsAreSound

-------------------------------------------------------------------------------
(* The inductive invariant.                                                *)

\* Every snapshot that the disk or the instance holds is one that commits wrote.
SnapshotsAreWellFormed ==
    /\ WellFormed(store.records, store.generation)
    /\ WellFormed(latest.records, latest.generation)
    /\ WellFormed(db.snapshot.records, db.snapshot.generation)

\* A usable instance has in hand what a start would find.
LatestIsInHand == Usable => db.snapshot = latest

DiskIsSound == raw_writes = 0 => RecordsAreSound(store.records) /\ RecordsAreSound(latest.records)

\* A pointer at the remembered revision is the one that was confirmed.
RevisionTellsProfile ==
    Usable =>
        /\ confirmed.profile_revision <= db.snapshot.generation
        /\ confirmed.profile # None => confirmed.profile_revision # 0
        /\ confirmed.profile # None /\ records[ActiveKey].revision = confirmed.profile_revision
              => records[ActiveKey].value = ActiveValue(confirmed.profile)

PersistenceInvariant ==
    /\ TypeOK /\ SnapshotsAreWellFormed /\ LatestIsInHand /\ DiskIsSound
    /\ RevisionTellsProfile /\ MemoryAgreesWithDatabase

-------------------------------------------------------------------------------
(* What a commit does, whatever it writes.                                 *)

NextGeneration == db.snapshot.generation + 1
NextSnapshot(batch) ==
    [generation |-> NextGeneration, records |-> Candidate(batch, records, NextGeneration)]

LEMMA PutWellFormed ==
    ASSUME NEW rs \in RecordMap, NEW g \in Nat, WellFormed(rs, g), NEW k \in RecordKeys,
           NEW v \in RecordValues
    PROVE  /\ [rs EXCEPT ![k] = Stamped(v, g + 1)] \in RecordMap
           /\ WellFormed([rs EXCEPT ![k] = Stamped(v, g + 1)], g + 1)
<1> DEFINE r == Stamped(v, g + 1)
           new == [rs EXCEPT ![k] = r]
<1>1. r \in StoredRecord /\ r.value = v /\ r.revision = g + 1 /\ Exists(r)
  BY StampIsRecord
<1> HIDE DEF r
<1>2. /\ new \in [RecordKeys -> StoredRecord]
      /\ new[k] = r /\ \A j \in RecordKeys : j # k => new[j] = rs[j]
  BY <1>1 DEF RecordMap
<1> HIDE DEF new
<1>3. \A j \in RecordKeys : rs[j].revision \in Nat
  BY DEF RecordMap, StoredRecord
<1>4. ASSUME NEW j \in RecordKeys
      PROVE  /\ new[j].revision <= g + 1
             /\ ~Exists(new[j]) => new[j] = NoRecord
             /\ Exists(new[j]) => new[j].value \in RecordValues
  <2>1. CASE j = k
    BY <1>1, <1>2, <2>1
  <2>2. CASE j # k
    <3>1. /\ rs[j].revision <= g
          /\ ~Exists(rs[j]) => rs[j] = NoRecord
          /\ Exists(rs[j]) => rs[j].value \in RecordValues
      BY DEF WellFormed
    <3>2. rs[j].revision <= g + 1
      BY <1>3, <3>1
    <3> QED
      BY <1>2, <2>2, <3>1, <3>2
  <2> QED
    BY <2>1, <2>2
<1> QED
  BY <1>2, <1>4 DEF RecordMap, WellFormed, new, r

LEMMA EraseWellFormed ==
    ASSUME NEW rs \in RecordMap, NEW g \in Nat, WellFormed(rs, g), NEW k \in RecordKeys
    PROVE  /\ [rs EXCEPT ![k] = NoRecord] \in RecordMap
           /\ WellFormed([rs EXCEPT ![k] = NoRecord], g)
<1> DEFINE new == [rs EXCEPT ![k] = NoRecord]
<1>1. /\ new \in [RecordKeys -> StoredRecord]
      /\ new[k] = NoRecord /\ \A j \in RecordKeys : j # k => new[j] = rs[j]
  BY NoRecordIsNone DEF RecordMap
<1> HIDE DEF new
<1>2. WellFormed(new, g)
  BY <1>1, NoRecordIsNone DEF WellFormed
<1> QED
  BY <1>1, <1>2 DEF RecordMap, new

LEMMA LaterWellFormed ==
    ASSUME NEW rs \in RecordMap, NEW g \in Nat, WellFormed(rs, g)
    PROVE  WellFormed(rs, g + 1)
<1>1. \A j \in RecordKeys : rs[j].revision \in Nat
  BY DEF RecordMap, StoredRecord
<1> QED
  BY <1>1 DEF WellFormed

LEMMA InHand ==
    ASSUME PersistenceInvariant
    PROVE  /\ records \in RecordMap /\ db.snapshot.generation \in Nat
           /\ WellFormed(records, db.snapshot.generation)
           /\ Usable => records = latest.records
           /\ Usable /\ raw_writes = 0 => RecordsAreSound(records)
BY DEF PersistenceInvariant, TypeOK, Snapshots, records, SnapshotsAreWellFormed, LatestIsInHand,
       DiskIsSound

LEMMA CommitDoes ==
    ASSUME PersistenceInvariant, NEW batch, NEW outcome, Commit(batch, outcome),
           NEW snap, snap = NextSnapshot(batch), snap.records \in RecordMap,
           WellFormed(snap.records, NextGeneration),
           raw_writes' = 0 =>
              raw_writes = 0 /\ (RecordsAreSound(records) => RecordsAreSound(snap.records))
    PROVE  /\ store' \in Snapshots /\ latest' \in Snapshots
           /\ db' \in [open : BOOLEAN, usable : BOOLEAN, snapshot : Snapshots]
           /\ SnapshotsAreWellFormed' /\ LatestIsInHand' /\ DiskIsSound'
           /\ Usable /\ outcome \in Outcomes /\ snap.generation = NextGeneration
           /\ outcome = "committed" => db'.snapshot = snap /\ latest' = snap
           /\ outcome = "failed" => db' = db /\ latest' = latest
           /\ outcome = "indeterminate" => ~db'.usable /\ latest' \in {latest, snap}
<1> USE DEF PersistenceInvariant
<1>1. /\ snap = [generation |-> NextGeneration,
                 records |-> Candidate(batch, records, NextGeneration)]
      /\ snap.generation = NextGeneration
  BY DEF NextSnapshot
<1>2. /\ Usable /\ db.snapshot.generation # MaxCommits
      /\ \/ /\ outcome = "committed"
            /\ store' = snap /\ latest' = snap
            /\ db' = [db EXCEPT !.snapshot = snap]
         \/ /\ outcome = "failed"
            /\ store' \in {store, latest}
            /\ UNCHANGED <<latest, db>>
         \/ /\ outcome = "indeterminate"
            /\ store' = latest
            /\ latest' \in {latest, snap}
            /\ db' = [db EXCEPT !.usable = FALSE]
  BY <1>1 DEF Commit, Accepts, NextGeneration
<1>3. /\ store \in Snapshots /\ latest \in Snapshots
      /\ db \in [open : BOOLEAN, usable : BOOLEAN, snapshot : Snapshots]
  BY DEF TypeOK
<1>4. NextGeneration \in 0..MaxCommits
  BY <1>2, <1>3, BoundsAssumption DEF Snapshots, NextGeneration
<1>5. snap \in Snapshots
  BY <1>1, <1>4 DEF Snapshots
<1>6. store' \in Snapshots /\ latest' \in Snapshots
  BY <1>2, <1>3, <1>5
<1>7. /\ outcome = "committed" => db'.snapshot = snap /\ db'.open = db.open /\ db'.usable = db.usable
      /\ outcome = "failed" => db' = db
      /\ outcome = "indeterminate" =>
            db'.snapshot = db.snapshot /\ ~db'.usable
      /\ db' \in [open : BOOLEAN, usable : BOOLEAN, snapshot : Snapshots]
  BY <1>2, <1>3, <1>5
<1>8. SnapshotsAreWellFormed'
  BY <1>1, <1>2, <1>7 DEF SnapshotsAreWellFormed
<1>9. LatestIsInHand'
  BY <1>2, <1>7 DEF LatestIsInHand, Usable
<1>10. DiskIsSound'
  <2>1. ASSUME raw_writes' = 0
        PROVE  RecordsAreSound(store'.records) /\ RecordsAreSound(latest'.records)
    <3>1. RecordsAreSound(records) /\ raw_writes = 0
      BY <1>2, <2>1, InHand
    <3>2. RecordsAreSound(snap.records)
      BY <2>1, <3>1
    <3>3. RecordsAreSound(store.records) /\ RecordsAreSound(latest.records)
      BY <3>1 DEF DiskIsSound
    <3> QED
      BY <1>2, <3>2, <3>3
  <2> QED
    BY <2>1 DEF DiskIsSound
<1> QED
  BY <1>1, <1>2, <1>6, <1>7, <1>8, <1>9, <1>10 DEF Outcomes

\* The owner's memory is what it was when nothing it compares with has moved.
LEMMA MemoryIsKept ==
    ASSUME PersistenceInvariant, UNCHANGED <<confirmed, raw_writes>>,
           db'.snapshot \in Snapshots,
           Usable' => /\ Usable /\ db'.snapshot.generation >= db.snapshot.generation
                      /\ db'.snapshot.records[ActiveKey] = records[ActiveKey]
                      /\ db'.snapshot.records[ActiveCharacterKey] = records[ActiveCharacterKey]
    PROVE  RevisionTellsProfile' /\ ConfirmedIsWhatIsStored'
<1>1. /\ db.snapshot.generation \in Nat /\ db'.snapshot.generation \in Nat
      /\ confirmed.profile_revision \in Nat
  BY DEF PersistenceInvariant, TypeOK, Snapshots
<1>2. /\ Usable => RevisionTellsProfile /\ ConfirmedIsWhatIsStored
      /\ Usable => confirmed.profile_revision <= db.snapshot.generation
  BY DEF PersistenceInvariant, RevisionTellsProfile, MemoryAgreesWithDatabase
<1>3. Usable' => confirmed.profile_revision <= db'.snapshot.generation
  BY <1>1, <1>2
<1>4. RevisionTellsProfile'
  BY <1>2, <1>3 DEF RevisionTellsProfile, records
<1>5. ConfirmedIsWhatIsStored'
  BY <1>2 DEF ConfirmedIsWhatIsStored, DecodedProfile, ActiveCharacterIsObserved, records
<1> QED
  BY <1>4, <1>5

\* A commit that puts one record which is none of the pointers.
LEMMA QuietCommitKeeps ==
    ASSUME PersistenceInvariant, NEW k \in RecordKeys, k # ActiveKey, k # ActiveCharacterKey,
           NEW v \in RecordValues, NEW condition, NEW outcome,
           Commit(<<Put(k, v, condition)>>, outcome),
           UNCHANGED <<confirmed, raw_writes>>,
           \A p \in Profiles, c \in Characters : k = SessionKey(p, c) => v = SessionValue(p, c),
           \A new : (/\ RecordsAreSound(records) /\ new[k] = Stamped(v, NextGeneration)
                     /\ \A j \in RecordKeys : j # k => new[j] = records[j])
                    => RecordsAreSound(new),
           session' \in [profile : Profiles \cup {None}, character : Characters \cup {None},
                         mission : (Profiles \X Characters) \cup {None}],
           session'.profile = session.profile, session'.character = session.character,
           \/ session'.mission = session.mission
           \/ /\ outcome = "committed" /\ session'.mission \in Profiles \X Characters
              /\ k = SessionKey(session'.mission[1], session'.mission[2])
    PROVE  PersistenceInvariant'
<1> DEFINE batch == <<Put(k, v, condition)>>
           stamp == Stamped(v, NextGeneration)
           new == [records EXCEPT ![k] = stamp]
           snap == NextSnapshot(batch)
<1>1. /\ records \in RecordMap /\ db.snapshot.generation \in Nat
      /\ WellFormed(records, db.snapshot.generation)
  BY InHand
<1>2. snap.records = new
  BY <1>1, PutMakes DEF NextSnapshot
<1>3. new \in RecordMap /\ WellFormed(new, NextGeneration)
  BY <1>1, PutWellFormed DEF NextGeneration
<1>4. new[k] = stamp /\ \A j \in RecordKeys : j # k => new[j] = records[j]
  BY <1>1 DEF RecordMap
<1>5. stamp.value = v
  BY DEF Stamped
<1> HIDE DEF new, stamp
<1>6. RecordsAreSound(records) => RecordsAreSound(new)
  BY <1>4 DEF stamp
<1> HIDE DEF snap, batch
<1>7. /\ store' \in Snapshots /\ latest' \in Snapshots
      /\ db' \in [open : BOOLEAN, usable : BOOLEAN, snapshot : Snapshots]
      /\ SnapshotsAreWellFormed' /\ LatestIsInHand' /\ DiskIsSound'
      /\ Usable /\ outcome \in Outcomes /\ snap.generation = NextGeneration
      /\ outcome = "committed" => db'.snapshot = snap /\ latest' = snap
      /\ outcome = "failed" => db' = db /\ latest' = latest
      /\ outcome = "indeterminate" => ~db'.usable /\ latest' \in {latest, snap}
  BY <1>2, <1>3, <1>6, CommitDoes DEF snap, batch
<1>8. TypeOK'
  BY <1>7 DEF PersistenceInvariant, TypeOK
<1>9. Usable' => /\ Usable /\ db'.snapshot.generation >= db.snapshot.generation
                 /\ db'.snapshot.records[ActiveKey] = records[ActiveKey]
                 /\ db'.snapshot.records[ActiveCharacterKey] = records[ActiveCharacterKey]
  <2>1. NextGeneration >= db.snapshot.generation /\ db.snapshot.generation >= db.snapshot.generation
    BY <1>1 DEF NextGeneration
  <2> QED
    BY <1>2, <1>4, <1>7, <2>1, KeysAreKeys DEF Usable, Outcomes, records
<1>10. RevisionTellsProfile' /\ ConfirmedIsWhatIsStored'
  BY <1>7, <1>9, MemoryIsKept
<1>11. SessionIsConfirmed'
  <2> SUFFICES ASSUME raw_writes' = 0 PROVE SessionIsConfirmed'
    BY DEF SessionIsConfirmed
  <2>1. SessionIsConfirmed /\ raw_writes = 0 /\ records = latest.records
    BY <1>7, InHand DEF PersistenceInvariant, MemoryAgreesWithDatabase
  <2>2. latest'.records = latest.records \/ latest'.records = new
    BY <1>2, <1>7 DEF Outcomes
  <2>3. /\ latest'.records[ActiveKey] = latest.records[ActiveKey]
        /\ latest'.records[ActiveCharacterKey] = latest.records[ActiveCharacterKey]
    BY <1>4, <2>1, <2>2, KeysAreKeys
  <2>4. /\ Usable' /\ session'.profile # None =>
              latest'.records[ActiveKey].value = ActiveValue(session'.profile)
        /\ Usable' /\ session'.character # None =>
              latest'.records[ActiveCharacterKey].value =
                  ActiveCharacterValue(session'.profile, session'.character)
    BY <1>7, <1>9, <2>1, <2>3 DEF SessionIsConfirmed
  <2>5. ASSUME session'.mission # None
        PROVE  latest'.records[SessionKey(session'.mission[1], session'.mission[2])].value =
                  SessionValue(session'.mission[1], session'.mission[2])
    <3> DEFINE p == session'.mission[1]
               c == session'.mission[2]
    <3>1. p \in Profiles /\ c \in Characters
      BY <2>5
    <3>2. CASE k = SessionKey(p, c)
      <4>1. new[k].value = SessionValue(p, c)
        BY <1>4, <1>5, <3>1, <3>2
      <4>2. session'.mission = session.mission =>
              latest.records[SessionKey(p, c)].value = SessionValue(p, c)
        BY <2>1, <2>5 DEF SessionIsConfirmed
      <4>3. session'.mission # session.mission => latest'.records = new
        BY <1>2, <1>7
      <4> QED
        BY <2>2, <3>2, <4>1, <4>2, <4>3
    <3>3. CASE k # SessionKey(p, c)
      <4>1. latest.records[SessionKey(p, c)].value = SessionValue(p, c)
        BY <2>1, <2>5, <3>3 DEF SessionIsConfirmed
      <4> QED
        BY <1>4, <2>1, <2>2, <3>1, <3>3, <4>1, KeysAreKeys
    <3> QED
      BY <3>2, <3>3
  <2> QED
    BY <2>4, <2>5 DEF SessionIsConfirmed
<1> QED
  BY <1>7, <1>8, <1>10, <1>11 DEF PersistenceInvariant, MemoryAgreesWithDatabase

-------------------------------------------------------------------------------
(* The steps, one by one.                                                  *)

LEMMA InitHolds == Init => PersistenceInvariant
<1> SUFFICES ASSUME Init PROVE PersistenceInvariant
  OBVIOUS
<1>1. EmptyRecords \in RecordMap /\ WellFormed(EmptyRecords, 0)
  BY NoRecordIsNone DEF EmptyRecords, RecordMap, WellFormed
<1>2. GenesisSnapshot \in Snapshots
  BY <1>1, BoundsAssumption DEF GenesisSnapshot, Snapshots
<1>3. TypeOK
  BY <1>2, BoundsAssumption DEF Init, TypeOK, Closed, NothingConfirmed, NoSession
<1>4. SnapshotsAreWellFormed
  BY <1>1 DEF Init, SnapshotsAreWellFormed, Closed, GenesisSnapshot
<1>5. ~Usable
  BY DEF Init, Usable, Closed
<1>6. DiskIsSound
  BY EmptyIsSound DEF Init, DiskIsSound, GenesisSnapshot
<1>7. MemoryAgreesWithDatabase
  BY <1>5 DEF Init, MemoryAgreesWithDatabase, ConfirmedIsWhatIsStored, SessionIsConfirmed, NoSession
<1> QED
  BY <1>3, <1>4, <1>5, <1>6, <1>7 DEF PersistenceInvariant, LatestIsInHand, RevisionTellsProfile

\* The program stops, with the disk in a state that was one of its two before.
LEMMA StopKeeps ==
    ASSUME PersistenceInvariant, Stop, UNCHANGED <<store, raw_writes>>, latest' \in {store, latest}
    PROVE  PersistenceInvariant'
<1>1. EmptyRecords \in RecordMap /\ WellFormed(EmptyRecords, 0)
  BY NoRecordIsNone DEF EmptyRecords, RecordMap, WellFormed
<1>2. GenesisSnapshot \in Snapshots
  BY <1>1, BoundsAssumption DEF GenesisSnapshot, Snapshots
<1>3. TypeOK'
  BY <1>2, BoundsAssumption DEF PersistenceInvariant, TypeOK, Stop, Closed, NothingConfirmed, NoSession
<1>4. SnapshotsAreWellFormed'
  BY <1>1 DEF PersistenceInvariant, SnapshotsAreWellFormed, Stop, Closed, GenesisSnapshot
<1>5. ~Usable'
  BY DEF Usable, Stop, Closed
<1>6. DiskIsSound'
  BY DEF PersistenceInvariant, DiskIsSound
<1>7. MemoryAgreesWithDatabase'
  BY <1>5 DEF Stop, MemoryAgreesWithDatabase, ConfirmedIsWhatIsStored, SessionIsConfirmed, NoSession
<1> QED
  BY <1>3, <1>4, <1>5, <1>6, <1>7 DEF PersistenceInvariant, LatestIsInHand, RevisionTellsProfile

LEMMA WritebackKeeps ==
    ASSUME PersistenceInvariant, Writeback PROVE PersistenceInvariant'
<1> USE DEF PersistenceInvariant, Writeback
<1>1. TypeOK'
  BY DEF TypeOK
<1>2. SnapshotsAreWellFormed'
  BY DEF SnapshotsAreWellFormed
<1>3. LatestIsInHand' /\ RevisionTellsProfile'
  BY DEF LatestIsInHand, RevisionTellsProfile, Usable, records
<1>4. DiskIsSound'
  BY DEF DiskIsSound
<1>5. MemoryAgreesWithDatabase'
  BY DEF MemoryAgreesWithDatabase, ConfirmedIsWhatIsStored, SessionIsConfirmed, Usable, records,
         DecodedProfile, ActiveCharacterIsObserved
<1> QED
  BY <1>1, <1>2, <1>3, <1>4, <1>5

\* A start remembers what it found, and finds only what it accepts.
LEMMA BootstrapKeeps ==
    ASSUME PersistenceInvariant, Bootstrap PROVE PersistenceInvariant'
<1> DEFINE rs == latest.records
           profile == rs[ActiveKey]
           pointer == rs[ActiveCharacterKey]
<1>1. /\ StartupAccepts(rs) /\ UNCHANGED <<store, latest, raw_writes>>
      /\ db' = [open |-> TRUE, usable |-> TRUE, snapshot |-> latest]
      /\ session' = NoSession
      /\ confirmed' =
            [profile |-> DecodedProfile(rs), profile_revision |-> profile.revision,
             character_profile |-> IF Exists(pointer) THEN pointer.value[2] ELSE None,
             character |-> IF Exists(pointer) THEN pointer.value[3] ELSE None,
             character_revision |-> pointer.revision]
  BY DEF Bootstrap
<1>2. /\ latest \in Snapshots /\ rs \in RecordMap /\ latest.generation \in 0..MaxCommits
      /\ WellFormed(rs, latest.generation) /\ latest.generation \in Nat
  BY DEF PersistenceInvariant, TypeOK, Snapshots, SnapshotsAreWellFormed
<1>3. /\ profile.revision \in Nat /\ pointer.revision \in Nat
      /\ profile.revision <= latest.generation /\ pointer.revision <= latest.generation
  BY <1>2, KeysAreKeys DEF RecordMap, StoredRecord, WellFormed
<1>4. profile.revision \in 0..MaxCommits /\ pointer.revision \in 0..MaxCommits
  BY <1>2, <1>3, BoundsAssumption
<1>5. Exists(profile) => \E p \in Profiles : profile.value = ActiveValue(p)
  BY <1>1 DEF StartupAccepts, ActiveProfileIsValid, Listed
<1>6. Exists(pointer) => \E p \in Profiles, c \in Characters :
                            pointer.value = ActiveCharacterValue(p, c)
  BY <1>1 DEF StartupAccepts, ActiveCharacterIsValid
<1>7. /\ Exists(profile) => /\ confirmed'.profile \in Profiles
                            /\ profile.value = ActiveValue(confirmed'.profile)
      /\ ~Exists(profile) => confirmed'.profile = None
      /\ confirmed'.profile = DecodedProfile(rs)
      /\ confirmed'.profile_revision = profile.revision
      /\ confirmed'.character_revision = pointer.revision
  BY <1>1, <1>5, ValuesTellIdentities DEF DecodedProfile
<1>8. /\ Exists(pointer) => /\ confirmed'.character_profile \in Profiles
                            /\ confirmed'.character \in Characters
                            /\ pointer.value = ActiveCharacterValue(confirmed'.character_profile,
                                                                    confirmed'.character)
      /\ ~Exists(pointer) => confirmed'.character_profile = None /\ confirmed'.character = None
  BY <1>1, <1>6, ValuesTellIdentities
<1>9. confirmed' \in [profile : Profiles \cup {None}, profile_revision : 0..MaxCommits,
                      character_profile : Profiles \cup {None},
                      character : Characters \cup {None}, character_revision : 0..MaxCommits]
  <2>1. /\ confirmed'.profile \in Profiles \cup {None}
        /\ confirmed'.character_profile \in Profiles \cup {None}
        /\ confirmed'.character \in Characters \cup {None}
    BY <1>7, <1>8
  <2> HIDE DEF profile, pointer, rs
  <2> QED
    BY <1>1, <1>4, <2>1
<1>10. TypeOK'
  BY <1>1, <1>2, <1>9 DEF PersistenceInvariant, TypeOK, NoSession
<1>11. SnapshotsAreWellFormed' /\ LatestIsInHand' /\ DiskIsSound'
  BY <1>1 DEF PersistenceInvariant, SnapshotsAreWellFormed, LatestIsInHand, DiskIsSound
<1>12. db'.snapshot.records = rs /\ db'.snapshot.generation = latest.generation
  BY <1>1
<1>13. RevisionTellsProfile'
  BY <1>3, <1>7, <1>12 DEF RevisionTellsProfile, records, Exists
<1>14. ConfirmedIsWhatIsStored'
  BY <1>7, <1>8, <1>12, NoneAssumption
     DEF ConfirmedIsWhatIsStored, records, DecodedProfile, ActiveCharacterIsObserved
<1>15. SessionIsConfirmed'
  BY <1>1 DEF SessionIsConfirmed, NoSession
<1> QED
  BY <1>10, <1>11, <1>13, <1>14, <1>15 DEF PersistenceInvariant, MemoryAgreesWithDatabase

\* The catalogs put markers.
LEMMA MarkerCommitKeeps ==
    ASSUME PersistenceInvariant, NEW k \in RecordKeys, NEW t \in Timestamps, NEW u \in Timestamps,
           NEW condition, NEW outcome,
           Commit(<<Put(k, MetadataValue(t, u), condition)>>, outcome),
           UNCHANGED <<confirmed, session, raw_writes>>,
           \/ \E p \in Profiles : k = ProfileKey(p)
           \/ \E p \in Profiles, c \in Characters : k = CharacterKey(p, c)
    PROVE  PersistenceInvariant'
<1> DEFINE v == MetadataValue(t, u)
<1>1. v \in RecordValues /\ v[1] = "metadata"
  BY ValuesAreValues, ValuesTellIdentities
<1>2. /\ k # ActiveKey /\ k # ActiveCharacterKey
      /\ \A p \in Profiles, c \in Characters : k # SessionKey(p, c)
  BY PointersDiffer, MarkersDiffer
<1>3. db.snapshot.generation \in Nat
  BY InHand
<1> HIDE DEF v
<1>4. Stamped(v, NextGeneration).value = v /\ Exists(Stamped(v, NextGeneration))
  BY <1>1, <1>3, StampIsRecord DEF NextGeneration
<1>5. IsMetadata(Stamped(v, NextGeneration))
  BY <1>1, <1>4 DEF IsMetadata
<1>6. ASSUME NEW new, RecordsAreSound(records), new[k] = Stamped(v, NextGeneration),
             \A j \in RecordKeys : j # k => new[j] = records[j]
      PROVE  RecordsAreSound(new)
  BY <1>4, <1>5, <1>6, MarkerKeepsSound DEF Grows
<1>7. session \in [profile : Profiles \cup {None}, character : Characters \cup {None},
                   mission : (Profiles \X Characters) \cup {None}]
  BY DEF PersistenceInvariant, TypeOK
<1> QED
  BY <1>1, <1>2, <1>6, <1>7, QuietCommitKeeps DEF v

LEMMA UpdateKeeps ==
    ASSUME PersistenceInvariant, NEW k \in RecordKeys, NEW t \in Timestamps, NEW outcome,
           UpdateMarker(k, t, outcome),
           \/ \E p \in Profiles : k = ProfileKey(p)
           \/ \E p \in Profiles, c \in Characters : k = CharacterKey(p, c)
    PROVE  PersistenceInvariant'
<1>1. IsMetadata(records[k])
  BY DEF UpdateMarker
<1>2. records[k].value \in RecordValues /\ records[k].value[1] = "metadata"
  BY <1>1, InHand DEF WellFormed, IsMetadata
<1>3. records[k].value[2] \in Timestamps
  BY <1>2, MetadataIsMetadata
<1> QED
  BY <1>3, MarkerCommitKeeps DEF UpdateMarker

\* Steps of the owner that found nothing to write.
LEMMA DatabaseUnchangedKeeps ==
    ASSUME PersistenceInvariant, UNCHANGED <<store, latest, db, confirmed, raw_writes>>,
           session' \in [profile : Profiles \cup {None}, character : Characters \cup {None},
                         mission : (Profiles \X Characters) \cup {None}],
           SessionIsConfirmed'
    PROVE  PersistenceInvariant'
<1> USE DEF PersistenceInvariant
<1>1. TypeOK'
  BY DEF TypeOK
<1>2. SnapshotsAreWellFormed' /\ LatestIsInHand' /\ DiskIsSound'
  BY DEF SnapshotsAreWellFormed, LatestIsInHand, DiskIsSound, Usable
<1>3. db'.snapshot \in Snapshots
  BY DEF TypeOK
<1>4. db.snapshot.generation >= db.snapshot.generation
  BY InHand
<1>5. RevisionTellsProfile' /\ ConfirmedIsWhatIsStored'
  BY <1>3, <1>4, MemoryIsKept DEF Usable, records
<1> QED
  BY <1>1, <1>2, <1>5 DEF MemoryAgreesWithDatabase

LEMMA UnchangedKeeps ==
    ASSUME PersistenceInvariant, UNCHANGED vars PROVE PersistenceInvariant'
<1>1. session' \in [profile : Profiles \cup {None}, character : Characters \cup {None},
                    mission : (Profiles \X Characters) \cup {None}]
  BY DEF PersistenceInvariant, TypeOK, vars
<1>2. SessionIsConfirmed'
  BY DEF PersistenceInvariant, MemoryAgreesWithDatabase, SessionIsConfirmed, Usable, vars
<1> QED
  BY <1>1, <1>2, DatabaseUnchangedKeeps DEF vars

\* A pointer that is as it was observed is there.
LEMMA ObservedIsThere ==
    ASSUME PersistenceInvariant, ActiveIsObserved(records)
    PROVE  Exists(records[ActiveKey]) /\ records[ActiveKey].value = ActiveValue(confirmed.profile)
<1>1. ~Exists(records[ActiveKey]) => records[ActiveKey].value = NoBytes
  BY InHand, KeysAreKeys, NoRecordIsNone DEF WellFormed
<1>2. ActiveValue(confirmed.profile) # NoBytes
  BY DEF ActiveValue, NoBytes
<1> QED
  BY <1>1, <1>2 DEF ActiveIsObserved

\* A preparation puts a checkpoint, of a profile or of a character.
LEMMA CheckpointCommitKeeps ==
    ASSUME PersistenceInvariant, NEW k \in RecordKeys, NEW v \in RecordValues,
           NEW outcome, Commit(<<Put(k, v, MustBeAbsent)>>, outcome),
           UNCHANGED <<confirmed, raw_writes>>,
           \/ \E p \in Profiles : /\ k = CheckpointKey(p) /\ v = CheckpointValue(p)
                                  /\ ProfileExists(records, p) /\ session' = session
           \/ \E p \in Profiles, c \in Characters :
                 /\ k = SessionKey(p, c) /\ v = SessionValue(p, c)
                 /\ CharacterExists(records, p, c)
                 /\ session' = IF outcome = "committed"
                               THEN [session EXCEPT !.mission = <<p, c>>] ELSE session
    PROVE  PersistenceInvariant'
<1>1. /\ k # ActiveKey /\ k # ActiveCharacterKey
      /\ \A p \in Profiles, c \in Characters : k = SessionKey(p, c) => v = SessionValue(p, c)
  BY PointersDiffer, MarkersDiffer, KeysTellIdentities
<1>2. Stamped(v, NextGeneration).value = v
  BY DEF Stamped
<1>3. ASSUME NEW new, RecordsAreSound(records), new[k] = Stamped(v, NextGeneration),
             \A j \in RecordKeys : j # k => new[j] = records[j]
      PROVE  RecordsAreSound(new)
  BY <1>2, <1>3, CheckpointKeepsSound
<1>4. session \in [profile : Profiles \cup {None}, character : Characters \cup {None},
                   mission : (Profiles \X Characters) \cup {None}]
  BY DEF PersistenceInvariant, TypeOK
<1>5. CASE session' = session
  BY <1>1, <1>3, <1>4, <1>5, QuietCommitKeeps
<1>6. ASSUME NEW p \in Profiles, NEW c \in Characters, k = SessionKey(p, c),
             outcome = "committed", session' = [session EXCEPT !.mission = <<p, c>>]
      PROVE  PersistenceInvariant'
  <2>1. /\ session' \in [profile : Profiles \cup {None}, character : Characters \cup {None},
                         mission : (Profiles \X Characters) \cup {None}]
        /\ session'.profile = session.profile /\ session'.character = session.character
        /\ session'.mission = <<p, c>>
    BY <1>4, <1>6
  <2>2. /\ session'.mission \in Profiles \X Characters
        /\ k = SessionKey(session'.mission[1], session'.mission[2])
    BY <1>6, <2>1
  <2> QED
    BY <1>1, <1>3, <1>6, <2>1, <2>2, QuietCommitKeeps
<1> QED
  BY <1>5, <1>6

LEMMA PrepareDiagnosticKeeps ==
    ASSUME PersistenceInvariant, NEW p \in Profiles, NEW outcome,
           PrepareDiagnosticCampaignStart(p, outcome)
    PROVE  PersistenceInvariant'
<1> DEFINE k == CheckpointKey(p)
           v == CheckpointValue(p)
<1>1. k \in RecordKeys /\ v \in RecordValues
  BY KeysAreKeys, ValuesAreValues
<1>2. CASE Commit(<<Put(k, v, MustBeAbsent)>>, outcome)
  BY <1>1, <1>2, CheckpointCommitKeeps DEF PrepareDiagnosticCampaignStart
<1>3. CASE UNCHANGED <<store, latest, db>>
  <2>1. UNCHANGED vars
    BY <1>3 DEF PrepareDiagnosticCampaignStart, vars
  <2> QED
    BY <2>1, UnchangedKeeps
<1> QED
  BY <1>2, <1>3 DEF PrepareDiagnosticCampaignStart, PrepareMarker

LEMMA StartCampaignKeeps ==
    ASSUME PersistenceInvariant, NEW outcome, StartDiagnosticCampaign(outcome)
    PROVE  PersistenceInvariant'
<1> DEFINE p == session.profile
           c == session.character
           k == SessionKey(p, c)
           v == SessionValue(p, c)
<1>1. session \in [profile : Profiles \cup {None}, character : Characters \cup {None},
                   mission : (Profiles \X Characters) \cup {None}]
  BY DEF PersistenceInvariant, TypeOK
<1>2. p \in Profiles /\ c \in Characters
  BY <1>1 DEF StartDiagnosticCampaign
<1>3. k \in RecordKeys /\ v \in RecordValues
  BY <1>2, KeysAreKeys, ValuesAreValues
<1>4. CASE Commit(<<Put(k, v, MustBeAbsent)>>, outcome)
  BY <1>2, <1>3, <1>4, CheckpointCommitKeeps DEF StartDiagnosticCampaign, Deployed
<1>5. CASE records[k].value = v /\ outcome = "committed" /\ UNCHANGED <<store, latest, db>>
  <2>1. /\ UNCHANGED <<store, latest, db, confirmed, raw_writes>>
        /\ session' = [session EXCEPT !.mission = <<p, c>>]
    BY <1>5 DEF StartDiagnosticCampaign, Deployed
  <2>2. /\ session' \in [profile : Profiles \cup {None}, character : Characters \cup {None},
                         mission : (Profiles \X Characters) \cup {None}]
        /\ session'.profile = p /\ session'.character = c /\ session'.mission = <<p, c>>
    BY <1>1, <1>2, <2>1
  <2>3. Usable /\ latest.records[k].value = v
    BY <1>5, InHand DEF StartDiagnosticCampaign
  <2>4. SessionIsConfirmed'
    BY <2>1, <2>2, <2>3
       DEF SessionIsConfirmed, PersistenceInvariant, MemoryAgreesWithDatabase, Usable
  <2> QED
    BY <2>1, <2>2, <2>4, DatabaseUnchangedKeeps
<1> QED
  BY <1>4, <1>5 DEF StartDiagnosticCampaign, PrepareMarker

\* ConfirmActiveProfile: the profile pointer is replaced and the character pointer erased.
LEMMA ConfirmOtherKeeps ==
    ASSUME PersistenceInvariant, NEW p \in Profiles, NEW outcome, ProfileExists(records, p),
           ConfirmOtherProfile(p, outcome), UNCHANGED raw_writes,
           session' = IF outcome = "committed"
                      THEN [session EXCEPT !.profile = p, !.character = None]
                      ELSE session
    PROVE  PersistenceInvariant'
<1> DEFINE batch == <<Put(ActiveKey, ActiveValue(p),
                          Observed(confirmed.profile, confirmed.profile_revision)),
                      Erase(ActiveCharacterKey,
                            Observed(confirmed.character, confirmed.character_revision))>>
           stamp == Stamped(ActiveValue(p), NextGeneration)
           put == [records EXCEPT ![ActiveKey] = stamp]
           new == [put EXCEPT ![ActiveCharacterKey] = NoRecord]
           snap == NextSnapshot(batch)
<1>1. /\ records \in RecordMap /\ db.snapshot.generation \in Nat
      /\ WellFormed(records, db.snapshot.generation)
  BY InHand
<1>2. snap.records = new
  BY <1>1, PutAndEraseMake, KeysAreKeys, PointersDiffer DEF NextSnapshot
<1>3. /\ put \in RecordMap /\ WellFormed(put, NextGeneration) /\ NextGeneration \in Nat
      /\ NextGeneration # 0 /\ NextGeneration > db.snapshot.generation
  BY <1>1, PutWellFormed, KeysAreKeys, ValuesAreValues DEF NextGeneration
<1>4. stamp.value = ActiveValue(p) /\ stamp.revision = NextGeneration
  BY DEF Stamped
<1> HIDE DEF stamp
<1>5. put[ActiveKey] = stamp /\ \A j \in RecordKeys : j # ActiveKey => put[j] = records[j]
  BY <1>1, KeysAreKeys DEF RecordMap
<1> HIDE DEF put
<1>6. /\ new \in RecordMap /\ WellFormed(new, NextGeneration)
      /\ new[ActiveCharacterKey] = NoRecord
      /\ \A j \in RecordKeys : j # ActiveCharacterKey => new[j] = put[j]
  BY <1>3, KeysAreKeys, EraseWellFormed DEF RecordMap
<1> HIDE DEF new
<1>7. /\ new[ActiveKey] = stamp /\ ~Exists(new[ActiveCharacterKey])
      /\ \A j \in RecordKeys : j # ActiveKey /\ j # ActiveCharacterKey => new[j] = records[j]
  BY <1>5, <1>6, KeysAreKeys, PointersDiffer, NoRecordIsNone
<1>8. RecordsAreSound(records) => RecordsAreSound(new)
  BY <1>4, <1>7, ProfileKeepsSound
<1>9. Commit(batch, outcome)
  BY DEF ConfirmOtherProfile
<1> HIDE DEF snap, batch
<1>10. /\ store' \in Snapshots /\ latest' \in Snapshots
       /\ db' \in [open : BOOLEAN, usable : BOOLEAN, snapshot : Snapshots]
       /\ SnapshotsAreWellFormed' /\ LatestIsInHand' /\ DiskIsSound'
       /\ Usable /\ outcome \in Outcomes /\ snap.generation = NextGeneration
       /\ outcome = "committed" => db'.snapshot = snap /\ latest' = snap
       /\ outcome = "failed" => db' = db /\ latest' = latest
       /\ outcome = "indeterminate" => ~db'.usable /\ latest' \in {latest, snap}
  BY <1>2, <1>6, <1>8, <1>9, CommitDoes DEF snap
<1>11. /\ session \in [profile : Profiles \cup {None}, character : Characters \cup {None},
                       mission : (Profiles \X Characters) \cup {None}]
       /\ confirmed \in [profile : Profiles \cup {None}, profile_revision : 0..MaxCommits,
                         character_profile : Profiles \cup {None},
                         character : Characters \cup {None}, character_revision : 0..MaxCommits]
       /\ raw_writes \in 0..MaxRawWrites
  BY DEF PersistenceInvariant, TypeOK
<1>12. /\ session' \in [profile : Profiles \cup {None}, character : Characters \cup {None},
                        mission : (Profiles \X Characters) \cup {None}]
       /\ session'.mission = session.mission
       /\ outcome = "committed" => session'.profile = p /\ session'.character = None
       /\ outcome # "committed" => session' = session
  BY <1>11
<1>13. ASSUME outcome = "committed"
       PROVE  /\ confirmed'.profile = p /\ confirmed'.profile_revision = NextGeneration
              /\ confirmed'.character = None /\ confirmed'.character_profile = None
              /\ confirmed' \in [profile : Profiles \cup {None}, profile_revision : 0..MaxCommits,
                                 character_profile : Profiles \cup {None},
                                 character : Characters \cup {None},
                                 character_revision : 0..MaxCommits]
  <2>1. db'.snapshot.generation = NextGeneration /\ NextGeneration \in 0..MaxCommits
    BY <1>10, <1>13 DEF Snapshots
  <2>2. confirmed' = [NothingConfirmed EXCEPT !.profile = p, !.profile_revision = NextGeneration]
    BY <1>13, <2>1 DEF ConfirmOtherProfile
  <2>3. 0 \in 0..MaxCommits
    BY BoundsAssumption
  <2> QED
    BY <2>1, <2>2, <2>3 DEF NothingConfirmed
<1>14. outcome # "committed" => confirmed' = confirmed
  BY DEF ConfirmOtherProfile
<1>15. TypeOK'
  BY <1>10, <1>11, <1>12, <1>13, <1>14 DEF TypeOK
<1>16. RevisionTellsProfile' /\ ConfirmedIsWhatIsStored'
  <2>1. CASE outcome = "committed"
    <3>1. db'.snapshot.records = new /\ db'.snapshot.generation = NextGeneration
      BY <1>2, <1>10, <2>1
    <3>2. NextGeneration <= NextGeneration
      BY <1>3
    <3>3. Exists(new[ActiveKey]) /\ new[ActiveKey].value[2] = p
      BY <1>3, <1>4, <1>7, ValuesTellIdentities DEF Exists
    <3>4. RevisionTellsProfile'
      BY <1>3, <1>4, <1>7, <1>13, <2>1, <3>1, <3>2 DEF RevisionTellsProfile, records
    <3>5. ConfirmedIsWhatIsStored'
      BY <1>4, <1>7, <1>13, <2>1, <3>1, <3>3
         DEF ConfirmedIsWhatIsStored, DecodedProfile, records
    <3> QED
      BY <3>4, <3>5
  <2>2. CASE outcome # "committed"
    <3>1. db.snapshot.generation >= db.snapshot.generation /\ db'.snapshot \in Snapshots
      BY <1>1, <1>10
    <3> QED
      BY <1>10, <1>14, <2>2, <3>1, MemoryIsKept DEF Usable, Outcomes, records
  <2> QED
    BY <2>1, <2>2
<1>17. SessionIsConfirmed'
  <2> SUFFICES ASSUME raw_writes' = 0 PROVE SessionIsConfirmed'
    BY DEF SessionIsConfirmed
  <2>1. SessionIsConfirmed /\ raw_writes = 0 /\ records = latest.records
    BY <1>10, InHand DEF PersistenceInvariant, MemoryAgreesWithDatabase
  <2>2. \A q \in Profiles, c \in Characters :
           latest'.records[SessionKey(q, c)] = latest.records[SessionKey(q, c)]
    <3>1. \A q \in Profiles, c \in Characters :
             new[SessionKey(q, c)] = latest.records[SessionKey(q, c)]
      BY <1>7, <2>1, KeysAreKeys, PointersDiffer
    <3> QED
      BY <1>2, <1>10, <3>1 DEF Outcomes
  <2>3. session'.mission # None =>
           latest'.records[SessionKey(session'.mission[1], session'.mission[2])].value =
              SessionValue(session'.mission[1], session'.mission[2])
    BY <1>11, <1>12, <2>1, <2>2 DEF SessionIsConfirmed
  <2>4. CASE outcome = "committed"
    <3>1. latest'.records[ActiveKey].value = ActiveValue(session'.profile)
      BY <1>2, <1>4, <1>7, <1>10, <1>12, <2>4
    <3> QED
      BY <1>12, <2>3, <2>4, <3>1 DEF SessionIsConfirmed
  <2>5. CASE outcome # "committed"
    BY <1>10, <1>12, <2>1, <2>3, <2>5 DEF SessionIsConfirmed, Usable, Outcomes
  <2> QED
    BY <2>4, <2>5
<1> QED
  BY <1>10, <1>15, <1>16, <1>17 DEF PersistenceInvariant, MemoryAgreesWithDatabase

LEMMA SetActiveProfileKeeps ==
    ASSUME PersistenceInvariant, NEW p \in Profiles, NEW outcome, SetActiveProfile(p, outcome)
    PROVE  PersistenceInvariant'
<1>1. CASE ConfirmOtherProfile(p, outcome)
  BY <1>1, ConfirmOtherKeeps DEF SetActiveProfile
<1>2. CASE /\ confirmed.profile = p /\ ActiveIsObserved(records) /\ outcome = "committed"
           /\ UNCHANGED <<store, latest, db, confirmed>>
  <2>1. /\ session' = [session EXCEPT !.profile = p, !.character = None]
        /\ Usable /\ UNCHANGED raw_writes
    BY <1>2 DEF SetActiveProfile
  <2>2. session \in [profile : Profiles \cup {None}, character : Characters \cup {None},
                     mission : (Profiles \X Characters) \cup {None}]
    BY DEF PersistenceInvariant, TypeOK
  <2>3. /\ session' \in [profile : Profiles \cup {None}, character : Characters \cup {None},
                         mission : (Profiles \X Characters) \cup {None}]
        /\ session'.profile = p /\ session'.character = None
        /\ session'.mission = session.mission
    BY <2>1, <2>2
  <2>4. latest.records[ActiveKey].value = ActiveValue(p)
    BY <1>2, <2>1, ObservedIsThere, InHand
  <2>5. SessionIsConfirmed'
    BY <1>2, <2>1, <2>3, <2>4
       DEF SessionIsConfirmed, PersistenceInvariant, MemoryAgreesWithDatabase
  <2> QED
    BY <1>2, <2>1, <2>3, <2>5, DatabaseUnchangedKeeps
<1> QED
  BY <1>1, <1>2 DEF SetActiveProfile

\* ConfirmActiveCharacter: the character pointer is replaced.
LEMMA ConfirmCharacterKeeps ==
    ASSUME PersistenceInvariant, NEW p \in Profiles, NEW c \in Characters, NEW outcome,
           NEW condition, session.profile = p, confirmed.profile = p, ActiveIsObserved(records),
           CharacterExists(records, p, c), UNCHANGED raw_writes,
           Commit(<<Put(ActiveCharacterKey, ActiveCharacterValue(p, c), condition)>>, outcome),
           confirmed' = IF outcome = "committed"
                        THEN [confirmed EXCEPT !.character_profile = p, !.character = c,
                                               !.character_revision = db'.snapshot.generation]
                        ELSE confirmed,
           session' = IF outcome = "committed" THEN [session EXCEPT !.character = c] ELSE session
    PROVE  PersistenceInvariant'
<1> DEFINE v == ActiveCharacterValue(p, c)
           batch == <<Put(ActiveCharacterKey, v, condition)>>
           stamp == Stamped(v, NextGeneration)
           new == [records EXCEPT ![ActiveCharacterKey] = stamp]
           snap == NextSnapshot(batch)
<1>1. /\ records \in RecordMap /\ db.snapshot.generation \in Nat
      /\ WellFormed(records, db.snapshot.generation)
  BY InHand
<1>2. snap.records = new
  BY <1>1, PutMakes, KeysAreKeys DEF NextSnapshot
<1>3. /\ new \in RecordMap /\ WellFormed(new, NextGeneration) /\ NextGeneration \in Nat
      /\ NextGeneration # 0 /\ NextGeneration >= db.snapshot.generation
  BY <1>1, PutWellFormed, KeysAreKeys, ValuesAreValues DEF NextGeneration
<1>4. stamp.value = v /\ stamp.revision = NextGeneration
  BY DEF Stamped
<1> HIDE DEF stamp
<1>5. /\ new[ActiveCharacterKey] = stamp
      /\ \A j \in RecordKeys : j # ActiveCharacterKey => new[j] = records[j]
  BY <1>1, KeysAreKeys DEF RecordMap
<1> HIDE DEF new
<1>6. Exists(records[ActiveKey]) /\ records[ActiveKey].value = ActiveValue(p)
  BY ObservedIsThere
<1>7. RecordsAreSound(records) => RecordsAreSound(new)
  BY <1>4, <1>5, <1>6, CharacterKeepsSound
<1> HIDE DEF snap, batch
<1>8. /\ store' \in Snapshots /\ latest' \in Snapshots
      /\ db' \in [open : BOOLEAN, usable : BOOLEAN, snapshot : Snapshots]
      /\ SnapshotsAreWellFormed' /\ LatestIsInHand' /\ DiskIsSound'
      /\ Usable /\ outcome \in Outcomes /\ snap.generation = NextGeneration
      /\ outcome = "committed" => db'.snapshot = snap /\ latest' = snap
      /\ outcome = "failed" => db' = db /\ latest' = latest
      /\ outcome = "indeterminate" => ~db'.usable /\ latest' \in {latest, snap}
  BY <1>2, <1>3, <1>7, CommitDoes DEF snap, batch
<1>9. /\ session \in [profile : Profiles \cup {None}, character : Characters \cup {None},
                      mission : (Profiles \X Characters) \cup {None}]
      /\ confirmed \in [profile : Profiles \cup {None}, profile_revision : 0..MaxCommits,
                        character_profile : Profiles \cup {None},
                        character : Characters \cup {None}, character_revision : 0..MaxCommits]
      /\ raw_writes \in 0..MaxRawWrites
  BY DEF PersistenceInvariant, TypeOK
<1>10. /\ session' \in [profile : Profiles \cup {None}, character : Characters \cup {None},
                        mission : (Profiles \X Characters) \cup {None}]
       /\ session'.mission = session.mission /\ session'.profile = p
       /\ outcome = "committed" => session'.character = c
       /\ outcome # "committed" => session' = session
  BY <1>9
<1>11. ASSUME outcome = "committed"
       PROVE  /\ confirmed'.profile = p /\ confirmed'.profile_revision = confirmed.profile_revision
              /\ confirmed'.character = c /\ confirmed'.character_profile = p
              /\ confirmed'.character_revision = NextGeneration
              /\ confirmed' \in [profile : Profiles \cup {None}, profile_revision : 0..MaxCommits,
                                 character_profile : Profiles \cup {None},
                                 character : Characters \cup {None},
                                 character_revision : 0..MaxCommits]
  <2>1. db'.snapshot.generation = NextGeneration /\ NextGeneration \in 0..MaxCommits
    BY <1>8, <1>11 DEF Snapshots
  <2>2. confirmed' = [confirmed EXCEPT !.character_profile = p, !.character = c,
                                       !.character_revision = NextGeneration]
    BY <1>11, <2>1
  <2> QED
    BY <1>9, <2>1, <2>2
<1>12. outcome # "committed" => confirmed' = confirmed
  OBVIOUS
<1>13. TypeOK'
  BY <1>8, <1>9, <1>10, <1>11, <1>12 DEF TypeOK
<1>14. new[ActiveKey] = records[ActiveKey]
  BY <1>5, KeysAreKeys, PointersDiffer
<1>15. RevisionTellsProfile' /\ ConfirmedIsWhatIsStored'
  <2>1. CASE outcome = "committed"
    <3>1. db'.snapshot.records = new /\ db'.snapshot.generation = NextGeneration
      BY <1>2, <1>8, <2>1
    <3>2. confirmed.profile_revision <= NextGeneration /\ confirmed.profile_revision # 0
      <4>1. confirmed.profile_revision <= db.snapshot.generation /\ confirmed.profile_revision # 0
        BY <1>8, NoneAssumption DEF PersistenceInvariant, RevisionTellsProfile
      <4>2. confirmed.profile_revision \in Nat
        BY <1>9
      <4> QED
        BY <1>1, <1>3, <4>1, <4>2
    <3>3. RevisionTellsProfile'
      BY <1>6, <1>11, <1>14, <2>1, <3>1, <3>2 DEF RevisionTellsProfile, records
    <3>4. ConfirmedIsWhatIsStored'
      <4>1. raw_writes = 0 => confirmed.profile_revision = records[ActiveKey].revision
        BY <1>8 DEF PersistenceInvariant, MemoryAgreesWithDatabase, ConfirmedIsWhatIsStored
      <4>2. Exists(new[ActiveCharacterKey]) /\ c # None
        BY <1>3, <1>4, <1>5, NoneAssumption DEF Exists
      <4>3. new[ActiveKey].value[2] = p /\ Exists(new[ActiveKey])
        BY <1>6, <1>14, ValuesTellIdentities
      <4> QED
        BY <1>4, <1>5, <1>11, <1>14, <2>1, <3>1, <4>1, <4>2, <4>3
           DEF ConfirmedIsWhatIsStored, DecodedProfile, ActiveCharacterIsObserved, records
    <3> QED
      BY <3>3, <3>4
  <2>2. CASE outcome # "committed"
    <3>1. db.snapshot.generation >= db.snapshot.generation /\ db'.snapshot \in Snapshots
      BY <1>1, <1>8
    <3> QED
      BY <1>8, <1>12, <2>2, <3>1, MemoryIsKept DEF Usable, Outcomes, records
  <2> QED
    BY <2>1, <2>2
<1>16. SessionIsConfirmed'
  <2> SUFFICES ASSUME raw_writes' = 0 PROVE SessionIsConfirmed'
    BY DEF SessionIsConfirmed
  <2>1. SessionIsConfirmed /\ raw_writes = 0 /\ records = latest.records
    BY <1>8, InHand DEF PersistenceInvariant, MemoryAgreesWithDatabase
  <2>2. \A q \in Profiles, d \in Characters :
           latest'.records[SessionKey(q, d)] = latest.records[SessionKey(q, d)]
    <3>1. \A q \in Profiles, d \in Characters :
             new[SessionKey(q, d)] = latest.records[SessionKey(q, d)]
      BY <1>5, <2>1, KeysAreKeys, PointersDiffer
    <3> QED
      BY <1>2, <1>8, <3>1 DEF Outcomes
  <2>3. session'.mission # None =>
           latest'.records[SessionKey(session'.mission[1], session'.mission[2])].value =
              SessionValue(session'.mission[1], session'.mission[2])
    BY <1>9, <1>10, <2>1, <2>2 DEF SessionIsConfirmed
  <2>4. CASE outcome = "committed"
    <3>1. /\ latest'.records[ActiveKey].value = ActiveValue(session'.profile)
          /\ latest'.records[ActiveCharacterKey].value =
                ActiveCharacterValue(session'.profile, session'.character)
      BY <1>2, <1>4, <1>5, <1>6, <1>8, <1>10, <1>14, <2>4
    <3> QED
      BY <2>3, <3>1 DEF SessionIsConfirmed
  <2>5. CASE outcome # "committed"
    BY <1>8, <1>10, <2>1, <2>3, <2>5 DEF SessionIsConfirmed, Usable, Outcomes
  <2> QED
    BY <2>4, <2>5
<1> QED
  BY <1>8, <1>13, <1>15, <1>16 DEF PersistenceInvariant, MemoryAgreesWithDatabase

LEMMA SetActiveCharacterKeeps ==
    ASSUME PersistenceInvariant, NEW c \in Characters, NEW outcome,
           SetActiveCharacter(c, outcome)
    PROVE  PersistenceInvariant'
<1> DEFINE p == session.profile
<1>1. session \in [profile : Profiles \cup {None}, character : Characters \cup {None},
                   mission : (Profiles \X Characters) \cup {None}]
  BY DEF PersistenceInvariant, TypeOK
<1>2. /\ p \in Profiles /\ Usable /\ confirmed.profile = p /\ ActiveIsObserved(records)
      /\ CharacterExists(records, p, c) /\ UNCHANGED raw_writes
      /\ session' = IF outcome = "committed" THEN [session EXCEPT !.character = c] ELSE session
  BY <1>1 DEF SetActiveCharacter
<1>3. CASE /\ confirmed.character_profile = p /\ confirmed.character = c
           /\ ActiveCharacterIsObserved(records) /\ outcome = "committed"
           /\ UNCHANGED <<store, latest, db, confirmed>>
  <2>1. /\ session' \in [profile : Profiles \cup {None}, character : Characters \cup {None},
                         mission : (Profiles \X Characters) \cup {None}]
        /\ session'.profile = p /\ session'.character = c
        /\ session'.mission = session.mission
    BY <1>1, <1>2, <1>3
  <2>2. /\ latest.records[ActiveKey].value = ActiveValue(p)
        /\ latest.records[ActiveCharacterKey].value = ActiveCharacterValue(p, c)
    BY <1>2, <1>3, ObservedIsThere, InHand DEF ActiveCharacterIsObserved
  <2>3. SessionIsConfirmed'
    BY <1>2, <1>3, <2>1, <2>2
       DEF SessionIsConfirmed, PersistenceInvariant, MemoryAgreesWithDatabase
  <2> QED
    BY <1>2, <1>3, <2>1, <2>3, DatabaseUnchangedKeeps
<1>4. CASE /\ Commit(<<Put(ActiveCharacterKey, ActiveCharacterValue(p, c),
                           Observed(confirmed.character, confirmed.character_revision))>>, outcome)
           /\ confirmed' = IF outcome = "committed"
                           THEN [confirmed EXCEPT
                                    !.character_profile = p, !.character = c,
                                    !.character_revision = db'.snapshot.generation]
                           ELSE confirmed
  BY <1>2, <1>4, ConfirmCharacterKeeps
<1> QED
  BY <1>3, <1>4 DEF SetActiveCharacter

\* A commit behind the owner's back: the profile pointer it leaves has a
\* revision that the owner does not know, or is gone.
LEMMA StrangeCommitKeeps ==
    ASSUME PersistenceInvariant, NEW batch, NEW outcome, Commit(batch, outcome),
           raw_writes < MaxRawWrites, raw_writes' = raw_writes + 1, UNCHANGED <<confirmed, session>>,
           NEW snap, snap = NextSnapshot(batch), snap.records \in RecordMap,
           WellFormed(snap.records, NextGeneration),
           snap.records[ActiveKey].revision \in {0, NextGeneration}
    PROVE  PersistenceInvariant'
<1>1. /\ raw_writes \in 0..MaxRawWrites
      /\ session \in [profile : Profiles \cup {None}, character : Characters \cup {None},
                      mission : (Profiles \X Characters) \cup {None}]
      /\ confirmed \in [profile : Profiles \cup {None}, profile_revision : 0..MaxCommits,
                        character_profile : Profiles \cup {None},
                        character : Characters \cup {None}, character_revision : 0..MaxCommits]
      /\ db.snapshot.generation \in Nat
  BY InHand DEF PersistenceInvariant, TypeOK
<1>2. raw_writes' \in 0..MaxRawWrites /\ raw_writes' # 0
  BY <1>1, BoundsAssumption
<1>3. /\ store' \in Snapshots /\ latest' \in Snapshots
      /\ db' \in [open : BOOLEAN, usable : BOOLEAN, snapshot : Snapshots]
      /\ SnapshotsAreWellFormed' /\ LatestIsInHand' /\ DiskIsSound'
      /\ Usable /\ outcome \in Outcomes /\ snap.generation = NextGeneration
      /\ outcome = "committed" => db'.snapshot = snap /\ latest' = snap
      /\ outcome = "failed" => db' = db /\ latest' = latest
      /\ outcome = "indeterminate" => ~db'.usable /\ latest' \in {latest, snap}
  BY <1>2, CommitDoes
<1>4. TypeOK'
  BY <1>1, <1>2, <1>3 DEF TypeOK
<1>5. MemoryAgreesWithDatabase'
  BY <1>2 DEF MemoryAgreesWithDatabase, ConfirmedIsWhatIsStored, SessionIsConfirmed
<1>6. RevisionTellsProfile
  BY DEF PersistenceInvariant
<1>7. RevisionTellsProfile'
  <2>1. CASE outcome = "committed"
    <3>1. db'.snapshot = snap
      BY <1>3, <2>1
    <3>2. /\ confirmed.profile_revision <= NextGeneration
          /\ confirmed.profile_revision # NextGeneration
          /\ confirmed.profile # None => confirmed.profile_revision # 0
      <4>1. /\ confirmed.profile_revision <= db.snapshot.generation
            /\ confirmed.profile # None => confirmed.profile_revision # 0
        BY <1>3, <1>6 DEF RevisionTellsProfile
      <4>2. confirmed.profile_revision \in Nat
        BY <1>1
      <4> QED
        BY <1>1, <4>1, <4>2 DEF NextGeneration
    <3> QED
      BY <1>3, <3>1, <3>2 DEF RevisionTellsProfile, records
  <2>2. CASE outcome = "failed"
    BY <1>3, <1>6, <2>2 DEF RevisionTellsProfile, Usable, records
  <2>3. CASE outcome = "indeterminate"
    BY <1>3, <2>3 DEF RevisionTellsProfile, Usable
  <2> QED
    BY <1>3, <2>1, <2>2, <2>3 DEF Outcomes
<1> QED
  BY <1>3, <1>4, <1>5, <1>7 DEF PersistenceInvariant

LEMMA RawWriteKeeps ==
    ASSUME PersistenceInvariant, NEW outcome, RawWrite(outcome)
    PROVE  PersistenceInvariant'
<1>1. /\ records \in RecordMap /\ db.snapshot.generation \in Nat
      /\ WellFormed(records, db.snapshot.generation)
      /\ NextGeneration \in Nat
  BY InHand DEF NextGeneration
<1>2. /\ raw_writes < MaxRawWrites /\ raw_writes' = raw_writes + 1
      /\ UNCHANGED <<confirmed, session>>
  BY DEF RawWrite
<1>3. ASSUME NEW v \in RecordValues, Commit(<<Put(ActiveKey, v, Unconditional)>>, outcome)
      PROVE  PersistenceInvariant'
  <2> DEFINE batch == <<Put(ActiveKey, v, Unconditional)>>
             stamp == Stamped(v, NextGeneration)
             new == [records EXCEPT ![ActiveKey] = stamp]
             snap == NextSnapshot(batch)
  <2>1. snap.records = new
    BY <1>1, PutMakes, KeysAreKeys DEF NextSnapshot
  <2>2. new \in RecordMap /\ WellFormed(new, NextGeneration)
    BY <1>1, PutWellFormed, KeysAreKeys DEF NextGeneration
  <2>3. new[ActiveKey].revision = NextGeneration
    BY <1>1, KeysAreKeys DEF RecordMap, Stamped
  <2> HIDE DEF new, snap, batch
  <2>4. /\ snap.records \in RecordMap /\ WellFormed(snap.records, NextGeneration)
        /\ snap.records[ActiveKey].revision \in {0, NextGeneration}
    BY <2>1, <2>2, <2>3
  <2> QED
    BY <1>2, <1>3, <2>4, StrangeCommitKeeps DEF snap, batch
<1>4. ASSUME Commit(<<Erase(ActiveKey, Unconditional), Erase(ActiveCharacterKey, Unconditional)>>,
                    outcome)
      PROVE  PersistenceInvariant'
  <2> DEFINE batch == <<Erase(ActiveKey, Unconditional), Erase(ActiveCharacterKey, Unconditional)>>
             one == [records EXCEPT ![ActiveKey] = NoRecord]
             new == [one EXCEPT ![ActiveCharacterKey] = NoRecord]
             snap == NextSnapshot(batch)
  <2>1. snap.records = new
    BY <1>1, ErasesMake, KeysAreKeys, PointersDiffer DEF NextSnapshot
  <2>2. WellFormed(records, NextGeneration)
    BY <1>1, LaterWellFormed DEF NextGeneration
  <2>3. /\ one \in RecordMap /\ WellFormed(one, NextGeneration)
        /\ one[ActiveKey].revision = 0
    BY <1>1, <2>2, EraseWellFormed, KeysAreKeys, NoRecordIsNone DEF RecordMap
  <2> HIDE DEF one
  <2>4. /\ new \in RecordMap /\ WellFormed(new, NextGeneration)
        /\ new[ActiveKey] = one[ActiveKey]
    BY <1>1, <2>3, EraseWellFormed, KeysAreKeys, PointersDiffer DEF RecordMap
  <2> HIDE DEF new, snap, batch
  <2>5. /\ snap.records \in RecordMap /\ WellFormed(snap.records, NextGeneration)
        /\ snap.records[ActiveKey].revision \in {0, NextGeneration}
    BY <2>1, <2>3, <2>4
  <2> QED
    BY <1>2, <1>4, <2>5, StrangeCommitKeeps DEF snap, batch
<1>5. PICK p \in Profiles :
         \/ Commit(<<Put(ActiveKey, ActiveValue(p), Unconditional)>>, outcome)
         \/ Commit(<<Put(ActiveKey, Junk, Unconditional)>>, outcome)
         \/ Commit(<<Erase(ActiveKey, Unconditional), Erase(ActiveCharacterKey, Unconditional)>>,
                   outcome)
  BY DEF RawWrite
<1>6. ActiveValue(p) \in RecordValues /\ Junk \in RecordValues
  BY ValuesAreValues
<1> QED
  BY <1>3, <1>4, <1>5, <1>6

LEMMA StepKeepsInvariant ==
    ASSUME PersistenceInvariant, [Next]_vars PROVE PersistenceInvariant'
<1>1. CASE UNCHANGED vars
  BY <1>1, UnchangedKeeps
<1>2. CASE Bootstrap
  BY <1>2, BootstrapKeeps
<1>3. CASE CloseOrDie
  BY <1>3, StopKeeps DEF CloseOrDie
<1>4. CASE Writeback
  BY <1>4, WritebackKeeps
<1>5. CASE PowerLoss
  BY <1>5, StopKeeps DEF PowerLoss
<1>6. ASSUME NEW outcome \in Outcomes, NEW p \in Profiles
      PROVE  /\ \A t \in Timestamps : CreateProfile(p, t, outcome) => PersistenceInvariant'
             /\ \A t \in Timestamps : UpdateProfile(p, t, outcome) => PersistenceInvariant'
             /\ SetActiveProfile(p, outcome) => PersistenceInvariant'
             /\ PrepareDiagnosticCampaignStart(p, outcome) => PersistenceInvariant'
             /\ \A c \in Characters, t \in Timestamps :
                   /\ CreateCharacter(p, c, t, outcome) => PersistenceInvariant'
                   /\ UpdateCharacter(p, c, t, outcome) => PersistenceInvariant'
  <2>1. ASSUME NEW t \in Timestamps, CreateProfile(p, t, outcome) PROVE PersistenceInvariant'
    BY <2>1, KeysAreKeys, MarkerCommitKeeps DEF CreateProfile
  <2>2. ASSUME NEW t \in Timestamps, UpdateProfile(p, t, outcome) PROVE PersistenceInvariant'
    BY <2>2, KeysAreKeys, UpdateKeeps DEF UpdateProfile
  <2>3. ASSUME NEW c \in Characters, NEW t \in Timestamps, CreateCharacter(p, c, t, outcome)
        PROVE  PersistenceInvariant'
    BY <2>3, KeysAreKeys, MarkerCommitKeeps DEF CreateCharacter
  <2>4. ASSUME NEW c \in Characters, NEW t \in Timestamps, UpdateCharacter(p, c, t, outcome)
        PROVE  PersistenceInvariant'
    BY <2>4, KeysAreKeys, UpdateKeeps DEF UpdateCharacter
  <2> QED
    BY <2>1, <2>2, <2>3, <2>4, SetActiveProfileKeeps, PrepareDiagnosticKeeps
<1>7. ASSUME NEW outcome \in Outcomes
      PROVE  /\ \A c \in Characters : SetActiveCharacter(c, outcome) => PersistenceInvariant'
             /\ StartDiagnosticCampaign(outcome) => PersistenceInvariant'
             /\ RawWrite(outcome) => PersistenceInvariant'
  BY SetActiveCharacterKeeps, StartCampaignKeeps, RawWriteKeeps
<1> QED
  BY <1>1, <1>2, <1>3, <1>4, <1>5, <1>6, <1>7 DEF Next

-------------------------------------------------------------------------------
(* The theorems.                                                           *)

\* The invariant holds in every behaviour: of restarts, of commits that
\* succeed, fail or stay open, of power losses and of raw writes.
THEOREM PersistenceInvariantHolds == Spec => []PersistenceInvariant
<1>1. Init => PersistenceInvariant
  BY InitHolds
<1>2. PersistenceInvariant /\ [Next]_vars => PersistenceInvariant'
  BY StepKeepsInvariant
<1> QED
  BY <1>1, <1>2, PTL DEF Spec

\* As long as nobody writes behind the owner's back, Bootstrap accepts what it
\* finds on the disk, whichever snapshot an open commit or a power loss left.
THEOREM StartHolds == Spec => []NextStartIsAccepted
<1>1. PersistenceInvariant => NextStartIsAccepted
  BY SoundIsAccepted DEF PersistenceInvariant, DiskIsSound, NextStartIsAccepted
<1> QED
  BY <1>1, PersistenceInvariantHolds, PTL

\* What NativePersistence remembers as confirmed and what the session runs
\* with are what the database holds.
THEOREM MemoryHolds == Spec => []MemoryAgreesWithDatabase
<1>1. PersistenceInvariant => MemoryAgreesWithDatabase
  BY DEF PersistenceInvariant
<1> QED
  BY <1>1, PersistenceInvariantHolds, PTL

\* ConfirmActiveProfile never replaces a pointer it has not observed, even
\* when another user of the database changed it since.
THEOREM PointersHold == Spec => ChangedPointersAreKept
<1>1. ASSUME PersistenceInvariant, NEW p \in Profiles, NEW outcome \in Outcomes,
             SetActiveProfile(p, outcome), db' # db
      PROVE  \/ confirmed.profile = None /\ ~Exists(records[ActiveKey])
             \/ ActiveIsObserved(records)
  <2> DEFINE put == Put(ActiveKey, ActiveValue(p),
                        Observed(confirmed.profile, confirmed.profile_revision))
             batch == <<put, Erase(ActiveCharacterKey,
                                   Observed(confirmed.character, confirmed.character_revision))>>
  <2>1. /\ Usable /\ Accepts(batch, db.snapshot.generation, records, limits)
    BY <1>1 DEF SetActiveProfile, ConfirmOtherProfile, Commit
  <2>2. Len(batch) \in Nat /\ 1 \in DOMAIN batch /\ batch[1] = put
    OBVIOUS
  <2> HIDE DEF batch
  <2>3. /\ put.key = ActiveKey
        /\ put.condition = Observed(confirmed.profile, confirmed.profile_revision)
    BY DEF Put
  <2> HIDE DEF put
  <2>4. SatisfiesCondition(Observed(confirmed.profile, confirmed.profile_revision),
                           records[ActiveKey])
    BY <2>1, <2>2, <2>3, FirstConditionHolds
  <2>5. CASE confirmed.profile = None
    BY <2>4, <2>5 DEF SatisfiesCondition, Observed, MustBeAbsent, Condition
  <2>6. CASE confirmed.profile # None
    <3>1. records[ActiveKey].revision = confirmed.profile_revision
      BY <2>4, <2>6 DEF SatisfiesCondition, Observed, ExactRevision, Condition
    <3> QED
      BY <1>1, <2>1, <2>6, <3>1
         DEF PersistenceInvariant, RevisionTellsProfile, ActiveIsObserved
  <2> QED
    BY <2>5, <2>6
<1>2. PersistenceInvariant /\ [Next]_vars =>
         [\A p \in Profiles, outcome \in Outcomes :
             SetActiveProfile(p, outcome) /\ db' # db =>
                 \/ confirmed.profile = None /\ ~Exists(records[ActiveKey])
                 \/ ActiveIsObserved(records)]_vars
  BY <1>1
<1> QED
  BY <1>2, PersistenceInvariantHolds, PTL DEF Spec, ChangedPointersAreKept
===============================================================================
