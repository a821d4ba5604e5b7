-------------------------- MODULE NativePersistence --------------------------
(***************************************************************************)
(* apps/openomega/native_persistence.cpp with the profile and character    *)
(* catalogs it owns, over the save database, and the session values that   *)
(* OmegaApp publishes from its results.                                    *)
(*                                                                         *)
(* The database is seen through SaveStore: `latest` is the snapshot a      *)
(* reopening process finds, `store` the one that survives a power loss.    *)
(* A commit succeeds, fails before it replaced anything, or is             *)
(* indeterminate; the last poisons the instance until it is reopened.      *)
(* Keys and values are tuples; a value starts with the magic of its        *)
(* encoding, so decoding a value of another kind fails.                    *)
(***************************************************************************)
EXTENDS Naturals, Sequences, FiniteSets

CONSTANTS
    Profiles,        \* ProfileId values
    Characters,      \* CharacterId values
    None,            \* an empty optional
    Timestamps,      \* metadata times, totally ordered
    MaxRecords,      \* limits.max_records
    MaxProfiles,     \* kFrontEndMaximumProfiles
    MaxCharacters,   \* kFrontEndMaximumCharacters
    MaxCommits,      \* bound on the database generation
    MaxRawWrites     \* bound on raw writes through database()

ASSUME NoneAssumption == None \notin Profiles \cup Characters
ASSUME TimestampsAssumption == Timestamps \subseteq Nat
ASSUME BoundsAssumption == {MaxCommits, MaxRawWrites} \subseteq Nat

\* The application creates one profile and one character (kFirstProfileId,
\* kFirstCharacterId): there are no more identities than a start can list.
ASSUME IdentitiesAssumption ==
    /\ IsFiniteSet(Profiles) /\ {MaxProfiles, MaxCharacters} \subseteq Nat
    /\ Cardinality(Profiles) <= MaxProfiles
    /\ IsFiniteSet(Characters) /\ Cardinality(Characters) <= MaxCharacters

ActiveKey == <<"active">>                           \* profiles/active
ActiveCharacterKey == <<"active-character">>        \* profiles/active-character
ProfileKey(p) == <<"metadata", p>>                  \* profiles/P/metadata
CharacterKey(p, c) == <<"metadata", p, c>>
CheckpointKey(p) == <<"checkpoint", p>>
SessionKey(p, c) == <<"session", p, c>>

RecordKeys == {ActiveKey, ActiveCharacterKey}
    \cup {ProfileKey(p) : p \in Profiles} \cup {CheckpointKey(p) : p \in Profiles}
    \cup {CharacterKey(p, c) : p \in Profiles, c \in Characters}
    \cup {SessionKey(p, c) : p \in Profiles, c \in Characters}

ActiveValue(p) == <<"OOACTPRF", p>>
ActiveCharacterValue(p, c) == <<"OOACTCHR", p, c>>
CheckpointValue(p) == <<"OODIAGCP", p>>
SessionValue(p, c) == <<"OOGAMECP", p, c>>
MetadataValue(created, modified) == <<"metadata", created, modified>>
Junk == <<"junk">>
NoBytes == <<>>

RecordValues == {Junk}
    \cup {ActiveValue(p) : p \in Profiles} \cup {CheckpointValue(p) : p \in Profiles}
    \cup {ActiveCharacterValue(p, c) : p \in Profiles, c \in Characters}
    \cup {SessionValue(p, c) : p \in Profiles, c \in Characters}
    \cup {MetadataValue(t, u) : t \in Timestamps, u \in Timestamps}

Bytes == [v \in RecordValues \cup {NoBytes} |-> IF v = NoBytes THEN 0 ELSE 1]

\* Records, conditions and what Commit accepts.
INSTANCE SaveRecords WITH
    Keys <- RecordKeys, Values <- RecordValues, ValueBytes <- Bytes,
    NoValue <- NoBytes, MaxGeneration <- MaxCommits

limits == [max_records |-> MaxRecords, max_mutations_per_commit |-> 2,
           max_value_bytes |-> 1, max_logical_value_bytes |-> MaxRecords]

VARIABLES
    store, latest,    \* snapshots on the disk
    db,               \* the SaveDatabase instance, or closed
    confirmed,        \* persisted_confirmed_* members
    session,          \* active_profile_id_, active_character_id_, deployed mission
    raw_writes        \* writes made behind the owner's back

vars == <<store, latest, db, confirmed, session, raw_writes>>

Snapshots == [generation : 0..MaxCommits, records : RecordMap]
GenesisSnapshot == [generation |-> 0, records |-> EmptyRecords]

Closed == [open |-> FALSE, usable |-> FALSE, snapshot |-> GenesisSnapshot]
NothingConfirmed == [profile |-> None, profile_revision |-> 0,
                     character_profile |-> None, character |-> None, character_revision |-> 0]
NoSession == [profile |-> None, character |-> None, mission |-> None]

Init ==
    /\ store = GenesisSnapshot /\ latest = GenesisSnapshot
    /\ db = Closed
    /\ confirmed = NothingConfirmed
    /\ session = NoSession
    /\ raw_writes = 0

records == db.snapshot.records
Usable == db.open /\ db.usable

-------------------------------------------------------------------------------
(* Typed views of records.                                                 *)

IsMetadata(record) == Exists(record) /\ record.value[1] = "metadata"

\* The catalogs' Read: a marker of another schema or magic is an error.
ProfileExists(rs, p) == IsMetadata(rs[ProfileKey(p)])
CharacterExists(rs, p, c) == ProfileExists(rs, p) /\ IsMetadata(rs[CharacterKey(p, c)])

\* profiles/active and profiles/active-character still are what was observed.
ActiveIsObserved(rs) ==
    /\ rs[ActiveKey].value = ActiveValue(confirmed.profile)
    /\ rs[ActiveKey].revision = confirmed.profile_revision

ActiveCharacterIsObserved(rs) ==
    /\ rs[ActiveCharacterKey].value =
          ActiveCharacterValue(confirmed.character_profile, confirmed.character)
    /\ rs[ActiveCharacterKey].revision = confirmed.character_revision

\* Every record found at one of the keys has the value its key calls for.
Listed(rs) == {p \in Profiles : Exists(rs[ProfileKey(p)])}
CharactersListed(rs, p) == {c \in Characters : Exists(rs[CharacterKey(p, c)])}

CatalogsAreReadable(rs) ==
    /\ Cardinality(Listed(rs)) <= MaxProfiles
    /\ \A p \in Listed(rs) :
          /\ ProfileExists(rs, p)
          /\ Cardinality(CharactersListed(rs, p)) <= MaxCharacters
          /\ \A c \in CharactersListed(rs, p) : CharacterExists(rs, p, c)

ActiveProfileIsValid(rs) ==
    Exists(rs[ActiveKey]) =>
        \E p \in Listed(rs) : rs[ActiveKey].value = ActiveValue(p)

ActiveCharacterIsValid(rs) ==
    Exists(rs[ActiveCharacterKey]) =>
        \E p \in Profiles, c \in Characters :
            /\ rs[ActiveCharacterKey].value = ActiveCharacterValue(p, c)
            /\ Exists(rs[ActiveKey]) /\ rs[ActiveKey].value = ActiveValue(p)
            /\ CharacterExists(rs, p, c)

CheckpointsAreValid(rs) ==
    \A p \in Profiles :
        /\ Exists(rs[CheckpointKey(p)]) =>
              rs[CheckpointKey(p)].value = CheckpointValue(p) /\ p \in Listed(rs)
        /\ \A c \in Characters :
              Exists(rs[SessionKey(p, c)]) =>
                  rs[SessionKey(p, c)].value = SessionValue(p, c) /\ CharacterExists(rs, p, c)

\* Bootstrap accepts the records.
StartupAccepts(rs) ==
    /\ CatalogsAreReadable(rs)
    /\ ActiveProfileIsValid(rs)
    /\ ActiveCharacterIsValid(rs)
    /\ CheckpointsAreValid(rs)

-------------------------------------------------------------------------------
(* Process lifetime.                                                       *)

DecodedProfile(rs) ==
    IF Exists(rs[ActiveKey]) THEN rs[ActiveKey].value[2] ELSE None

\* Bootstrap opens the database, validates everything and remembers the
\* pointers with their revisions; the session starts empty.
Bootstrap ==
    /\ ~db.open
    /\ StartupAccepts(latest.records)
    /\ db' = [open |-> TRUE, usable |-> TRUE, snapshot |-> latest]
    /\ confirmed' =
          LET rs == latest.records
              pointer == rs[ActiveCharacterKey]
          IN  [profile |-> DecodedProfile(rs),
               profile_revision |-> rs[ActiveKey].revision,
               character_profile |-> IF Exists(pointer) THEN pointer.value[2] ELSE None,
               character |-> IF Exists(pointer) THEN pointer.value[3] ELSE None,
               character_revision |-> pointer.revision]
    /\ session' = NoSession
    /\ UNCHANGED <<store, latest, raw_writes>>

Stop ==
    /\ db' = Closed
    /\ confirmed' = NothingConfirmed
    /\ session' = NoSession

\* The program ends, in an orderly way or not.
CloseOrDie ==
    /\ db.open
    /\ Stop
    /\ UNCHANGED <<store, latest, raw_writes>>

\* An open commit reaches the disk.
Writeback ==
    /\ store # latest
    /\ store' = latest
    /\ UNCHANGED <<latest, db, confirmed, session, raw_writes>>

\* An open commit is taken back.
PowerLoss ==
    /\ store # latest
    /\ latest' = store
    /\ Stop
    /\ UNCHANGED <<store, raw_writes>>

-------------------------------------------------------------------------------
(* Commits.                                                                *)

Condition(kind, revision) == [kind |-> kind, revision |-> revision]
MustBeAbsent == Condition("MustBeAbsent", 0)
Unconditional == Condition("Unconditional", 0)
ExactRevision(n) == Condition("ExactRevision", n)

Put(k, v, condition) == [kind |-> "Put", key |-> k, schema_version |-> 1,
                         value |-> v, condition |-> condition]
Erase(k, condition) == [kind |-> "Erase", key |-> k, schema_version |-> 0,
                        value |-> NoBytes, condition |-> condition]

\* Replace what was observed, or create what was not there.
Observed(id, revision) == IF id = None THEN MustBeAbsent ELSE ExactRevision(revision)

\* A batch that Commit accepts, and how its publication ends.  Publishing
\* starts with a synchronization of the directory, which a definite failure
\* may or may not have reached.  A refused batch changes nothing.
Commit(batch, outcome) ==
    LET next == [generation |-> db.snapshot.generation + 1,
                 records |-> Candidate(batch, records, db.snapshot.generation + 1)]
    IN  /\ Usable
        /\ Accepts(batch, db.snapshot.generation, records, limits)
        /\ \/ /\ outcome = "committed"
              /\ store' = next /\ latest' = next
              /\ db' = [db EXCEPT !.snapshot = next]
           \/ /\ outcome = "failed"
              /\ store' \in {store, latest}
              /\ UNCHANGED <<latest, db>>
           \/ /\ outcome = "indeterminate"
              /\ store' = latest
              /\ latest' \in {latest, next}
              /\ db' = [db EXCEPT !.usable = FALSE]

Outcomes == {"committed", "failed", "indeterminate"}

-------------------------------------------------------------------------------
(* ProfileCatalog and CharacterCatalog.                                    *)

CreateProfile(p, t, outcome) ==
    /\ Commit(<<Put(ProfileKey(p), MetadataValue(t, t), MustBeAbsent)>>, outcome)
    /\ UNCHANGED <<confirmed, session, raw_writes>>

\* RequireParentProfile, then the marker of the character.
CreateCharacter(p, c, t, outcome) ==
    /\ ProfileExists(records, p)
    /\ Commit(<<Put(CharacterKey(p, c), MetadataValue(t, t), MustBeAbsent)>>, outcome)
    /\ UNCHANGED <<confirmed, session, raw_writes>>

\* Update of a marker at key k: the creation time is immutable, the
\* modification time does not move back.
UpdateMarker(k, t, outcome) ==
    LET marker == records[k]
    IN  /\ IsMetadata(marker)
        /\ t >= marker.value[3]
        /\ Commit(<<Put(k, MetadataValue(marker.value[2], t),
                        ExactRevision(marker.revision))>>, outcome)
        /\ UNCHANGED <<confirmed, session, raw_writes>>

UpdateProfile(p, t, outcome) == UpdateMarker(ProfileKey(p), t, outcome)

UpdateCharacter(p, c, t, outcome) ==
    /\ ProfileExists(records, p)
    /\ UpdateMarker(CharacterKey(p, c), t, outcome)

-------------------------------------------------------------------------------
(* NativePersistence, called by OmegaApp's front-end commands.             *)

\* A plausible error: the old character pointer is left in place.
ConfirmOnlyProfile(p, outcome) ==
    /\ Commit(<<Put(ActiveKey, ActiveValue(p),
                    Observed(confirmed.profile, confirmed.profile_revision))>>, outcome)
    /\ confirmed' = IF outcome = "committed"
                    THEN [NothingConfirmed EXCEPT !.profile = p,
                                                  !.profile_revision = db'.snapshot.generation]
                    ELSE confirmed

\* A plausible error: the pointer is replaced whatever it holds.
ConfirmUnconditionally(p, outcome) ==
    /\ Commit(<<Put(ActiveKey, ActiveValue(p), Unconditional),
                Erase(ActiveCharacterKey, Unconditional)>>, outcome)
    /\ confirmed' = IF outcome = "committed"
                    THEN [NothingConfirmed EXCEPT !.profile = p,
                                                  !.profile_revision = db'.snapshot.generation]
                    ELSE confirmed

\* A plausible error: the owner forgets to clear its character.
ConfirmKeepingCharacter(p, outcome) ==
    /\ Commit(<<Put(ActiveKey, ActiveValue(p),
                    Observed(confirmed.profile, confirmed.profile_revision)),
                Erase(ActiveCharacterKey,
                      Observed(confirmed.character, confirmed.character_revision))>>, outcome)
    /\ confirmed' = IF outcome = "committed"
                    THEN [confirmed EXCEPT !.profile = p,
                                           !.profile_revision = db'.snapshot.generation]
                    ELSE confirmed

\* ConfirmActiveProfile of another profile: one batch replaces the profile
\* pointer and erases the character pointer.
ConfirmOtherProfile(p, outcome) ==
    /\ Commit(<<Put(ActiveKey, ActiveValue(p),
                    Observed(confirmed.profile, confirmed.profile_revision)),
                Erase(ActiveCharacterKey,
                      Observed(confirmed.character, confirmed.character_revision))>>, outcome)
    /\ confirmed' = IF outcome = "committed"
                    THEN [NothingConfirmed EXCEPT !.profile = p,
                                                  !.profile_revision = db'.snapshot.generation]
                    ELSE confirmed

\* SetActiveProfile: the catalog of the profile is listed, the profile is
\* confirmed, and only then becomes the session's, without a character.
SetActiveProfile(p, outcome) ==
    /\ Usable
    /\ ProfileExists(records, p)
    /\ Cardinality(CharactersListed(records, p)) <= MaxCharacters
    /\ \A c \in CharactersListed(records, p) : CharacterExists(records, p, c)
    /\ \/ /\ confirmed.profile = p
          /\ ActiveIsObserved(records)
          /\ outcome = "committed"
          /\ UNCHANGED <<store, latest, db, confirmed>>
       \/ /\ confirmed.profile # p
          /\ ConfirmOtherProfile(p, outcome)
    /\ session' = IF outcome = "committed"
                  THEN [session EXCEPT !.profile = p, !.character = None]
                  ELSE session
    /\ UNCHANGED raw_writes

\* SetActiveCharacter through ConfirmActiveCharacter.
SetActiveCharacter(c, outcome) ==
    LET p == session.profile
    IN  /\ Usable
        /\ p # None
        /\ confirmed.profile = p
        /\ ActiveIsObserved(records)
        /\ CharacterExists(records, p, c)
        /\ \/ /\ confirmed.character_profile = p /\ confirmed.character = c
              /\ ActiveCharacterIsObserved(records)
              /\ outcome = "committed"
              /\ UNCHANGED <<store, latest, db, confirmed>>
           \/ /\ ~(confirmed.character_profile = p /\ confirmed.character = c)
              /\ Commit(<<Put(ActiveCharacterKey, ActiveCharacterValue(p, c),
                              Observed(confirmed.character, confirmed.character_revision))>>,
                        outcome)
              /\ confirmed' = IF outcome = "committed"
                              THEN [confirmed EXCEPT
                                       !.character_profile = p, !.character = c,
                                       !.character_revision = db'.snapshot.generation]
                              ELSE confirmed
        /\ session' = IF outcome = "committed" THEN [session EXCEPT !.character = c]
                      ELSE session
        /\ UNCHANGED raw_writes

\* A marker that exists and is valid is a success without a write.
PrepareMarker(k, v, outcome) ==
    \/ /\ records[k].value = v
       /\ outcome = "committed"
       /\ UNCHANGED <<store, latest, db>>
    \/ /\ ~Exists(records[k])
       /\ Commit(<<Put(k, v, MustBeAbsent)>>, outcome)

PrepareDiagnosticCampaignStart(p, outcome) ==
    /\ Usable
    /\ confirmed.profile = p
    /\ ActiveIsObserved(records)
    /\ ProfileExists(records, p)
    /\ PrepareMarker(CheckpointKey(p), CheckpointValue(p), outcome)
    /\ UNCHANGED <<confirmed, session, raw_writes>>

\* A plausible error: the mission is deployed whatever the preparation returned.
DeployedAnyway(outcome) == TRUE

\* StartDiagnosticCampaign: DeployDiagnosticMission runs only after
\* PrepareGameSessionStart succeeded.
Deployed(outcome) == outcome = "committed"

StartDiagnosticCampaign(outcome) ==
    LET p == session.profile
        c == session.character
    IN  /\ Usable
        /\ p # None /\ c # None
        /\ confirmed.profile = p
        /\ confirmed.character_profile = p /\ confirmed.character = c
        /\ ActiveIsObserved(records)
        /\ ActiveCharacterIsObserved(records)
        /\ CharacterExists(records, p, c)
        /\ PrepareMarker(SessionKey(p, c), SessionValue(p, c), outcome)
        /\ session' = IF Deployed(outcome)
                      THEN [session EXCEPT !.mission = <<p, c>>] ELSE session
        /\ UNCHANGED <<confirmed, raw_writes>>

\* Another user of database() replaces or removes a pointer.
RawWrite(outcome) ==
    /\ raw_writes < MaxRawWrites
    /\ \E p \in Profiles :
          \/ Commit(<<Put(ActiveKey, ActiveValue(p), Unconditional)>>, outcome)
          \/ Commit(<<Put(ActiveKey, Junk, Unconditional)>>, outcome)
          \/ Commit(<<Erase(ActiveKey, Unconditional),
                      Erase(ActiveCharacterKey, Unconditional)>>, outcome)
    /\ raw_writes' = raw_writes + 1
    /\ UNCHANGED <<confirmed, session>>

-------------------------------------------------------------------------------
Next ==
    \/ Bootstrap
    \/ CloseOrDie
    \/ Writeback
    \/ PowerLoss
    \/ \E outcome \in Outcomes :
          \/ \E p \in Profiles :
                \/ \E t \in Timestamps : CreateProfile(p, t, outcome)
                \/ \E t \in Timestamps : UpdateProfile(p, t, outcome)
                \/ SetActiveProfile(p, outcome)
                \/ PrepareDiagnosticCampaignStart(p, outcome)
                \/ \E c \in Characters, t \in Timestamps : CreateCharacter(p, c, t, outcome)
                \/ \E c \in Characters, t \in Timestamps : UpdateCharacter(p, c, t, outcome)
          \/ \E c \in Characters : SetActiveCharacter(c, outcome)
          \/ StartDiagnosticCampaign(outcome)
          \/ RawWrite(outcome)

Spec == Init /\ [][Next]_vars

-------------------------------------------------------------------------------
TypeOK ==
    /\ store \in Snapshots /\ latest \in Snapshots
    /\ db \in [open : BOOLEAN, usable : BOOLEAN, snapshot : Snapshots]
    /\ confirmed \in [profile : Profiles \cup {None}, profile_revision : 0..MaxCommits,
                      character_profile : Profiles \cup {None},
                      character : Characters \cup {None},
                      character_revision : 0..MaxCommits]
    /\ session \in [profile : Profiles \cup {None}, character : Characters \cup {None},
                    mission : (Profiles \X Characters) \cup {None}]
    /\ raw_writes \in 0..MaxRawWrites

\* Whatever snapshot the next start finds, the one before or after a commit
\* whose outcome was open, Bootstrap accepts it: no sequence of operations,
\* failures and restarts leaves a database the program refuses to start on.
NextStartIsAccepted ==
    raw_writes = 0 => StartupAccepts(latest.records) /\ StartupAccepts(store.records)

\* While the instance is usable and nobody wrote behind its back, what the
\* owner remembers as confirmed is exactly what the records say.
ConfirmedIsWhatIsStored ==
    Usable /\ raw_writes = 0 =>
        /\ confirmed.profile = DecodedProfile(records)
        /\ confirmed.profile_revision = records[ActiveKey].revision
        /\ Exists(records[ActiveCharacterKey]) <=> confirmed.character # None
        /\ confirmed.character # None => ActiveCharacterIsObserved(records)

\* A pointer that changed behind the owner's back is never overwritten by a
\* confirmation: when one is replaced, its value is the one observed.
ChangedPointersAreKept ==
    [][\A p \in Profiles, outcome \in Outcomes :
          SetActiveProfile(p, outcome) /\ db' # db =>
              \/ confirmed.profile = None /\ ~Exists(records[ActiveKey])
              \/ ActiveIsObserved(records)]_vars

\* The session never runs ahead of the database: its profile and character
\* are the confirmed ones, and a deployed mission has its checkpoint.
SessionIsConfirmed ==
    raw_writes = 0 =>
        /\ Usable /\ session.profile # None =>
              latest.records[ActiveKey].value = ActiveValue(session.profile)
        /\ Usable /\ session.character # None =>
              latest.records[ActiveCharacterKey].value =
                  ActiveCharacterValue(session.profile, session.character)
        /\ session.mission # None =>
              latest.records[SessionKey(session.mission[1], session.mission[2])].value =
                  SessionValue(session.mission[1], session.mission[2])

\* What the program believes after any sequence of outcomes, restarts and raw
\* writes is what the database holds: the identities the owner confirmed, and
\* the session the front end runs with.
MemoryAgreesWithDatabase == ConfirmedIsWhatIsStored /\ SessionIsConfirmed
===============================================================================
