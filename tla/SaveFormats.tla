----------------------------- MODULE SaveFormats -----------------------------
(***************************************************************************)
(* What the records of the save database look like: the keys under which   *)
(* profiles, characters, pointers and checkpoints are kept, the values     *)
(* that ProfileCatalog, CharacterCatalog and NativePersistence write under *)
(* them, and what a start makes of a database that holds them, damaged or  *)
(* not.                                                                    *)
(*                                                                         *)
(* A key is the sequence of the segments between its slashes, a segment a  *)
(* sequence of words and characters.  A value is a sequence of cells: one  *)
(* for each field of the header whatever its width, one for each byte of a *)
(* name or an identifier.                                                  *)
(***************************************************************************)
EXTENDS Integers, Sequences, SequencesExt, FiniteSetsExt

CONSTANTS
    Identifiers,     \* the identifiers of profiles and characters in play
    IdBytes,         \* bytes of an identifier
    NameBytes,       \* kProfileDisplayNameMaxBytes, kCharacterDisplayNameMaxBytes
    MaxTimestamp,    \* k*TimestampMaxUnixMilliseconds
    HardMaxKeyBytes, \* SaveDatabase::kHardMaxKeyBytes
    MaxListed,       \* kFrontEndMaximumProfiles, kFrontEndMaximumCharacters
    DisplayNames,    \* the byte sequences tried as a name
    MetadataSamples, \* the metadata tried
    KeySegments,     \* the segments of the keys tried
    CellDamage,      \* the cells that a damaged value may hold somewhere
    Stores           \* the databases tried, see WrittenStore

ASSUME SaveFormatsAssumption ==
    /\ Identifiers \subseteq [1..IdBytes -> 0..255]
    /\ {IdBytes, NameBytes, MaxTimestamp, HardMaxKeyBytes, MaxListed} \subseteq Nat

\* std::nullopt.
Nothing == <<>>

-----------------------------------------------------------------------------
(* Names of profiles and characters: UTF-8 without control characters.       *)

Continues(name, i, n) ==
    /\ i + n <= Len(name)
    /\ \A j \in i + 1 .. i + n : name[j] \in 128..191

\* The character of n bytes that begins at byte i, no surrogate and no longer
\* than it needs to be.
IsCharacter(name, i, n) ==
    /\ Continues(name, i, n - 1)
    /\ \/ n = 1 /\ name[i] \in 32..126
       \/ n = 2 /\ name[i] \in 194..223 /\ (name[i] = 194 => name[i + 1] > 159)
       \/ /\ n = 3 /\ name[i] \in 224..239
          /\ name[i] = 224 => name[i + 1] >= 160
          /\ name[i] = 237 => name[i + 1] <= 159
       \/ /\ n = 4 /\ name[i] \in 240..244
          /\ name[i] = 240 => name[i + 1] >= 144
          /\ name[i] = 244 => name[i + 1] <= 143

IsValidDisplayName(name) ==
    /\ Len(name) \in 1..NameBytes
    /\ LET valid[i \in 1..Len(name) + 1] ==
             \/ i = Len(name) + 1
             \/ \E n \in 1..4 : IsCharacter(name, i, n) /\ valid[i + n]
       IN  valid[1]

-----------------------------------------------------------------------------
(* Identifiers and their text of lower hexadecimal digits.                   *)

Hexadecimal == <<"0", "1", "2", "3", "4", "5", "6", "7",
                 "8", "9", "a", "b", "c", "d", "e", "f">>

LowerHexValue ==
    [character \in ToSet(Hexadecimal) |-> (CHOOSE n \in 1..16 : Hexadecimal[n] = character) - 1]

IdentifierText(id) ==
    [i \in 1..2 * IdBytes |->
        LET byte == id[(i + 1) \div 2] IN
        Hexadecimal[1 + (IF i % 2 = 1 THEN byte \div 16 ELSE byte % 16)]]

ParseIdentifier(text) ==
    IF Len(text) = 2 * IdBytes /\ ToSet(text) \subseteq DOMAIN LowerHexValue
    THEN [i \in 1..IdBytes |->
             16 * LowerHexValue[text[2 * i - 1]] + LowerHexValue[text[2 * i]]]
    ELSE Nothing

-----------------------------------------------------------------------------
(* The grammar of the database's keys.                                       *)

DefaultMaxKeyBytes == 96

\* DefaultNativePersistenceLimits: keys may be as long as the database allows.
NativeMaxKeyBytes == HardMaxKeyBytes

KeyCharacters ==
    {"profiles", "active", "active-character", "characters", "metadata", "campaigns",
     "sessions", "diagnostic", "checkpoint", "g", "z", "_", "-", "."}
        \cup ToSet(Hexadecimal)

\* A segment is one word, or characters.
SegmentBytes(segment) == IF Len(segment) = 1 THEN Len(segment[1]) ELSE Len(segment)

KeyBytes(key) ==
    LET bytes[n \in 0..Len(key)] == IF n = 0 THEN -1 ELSE bytes[n - 1] + 1 + SegmentBytes(key[n])
    IN  bytes[Len(key)]

HasInvalidSegment(key) ==
    \E i \in DOMAIN key : key[i] \in {<<>>, <<".">>, <<".", ".">>}

HasKeyBytesOnly(key) == \A i \in DOMAIN key : ToSet(key[i]) \subseteq KeyCharacters

IsValidKey(key, maximum) ==
    /\ KeyBytes(key) <= maximum
    /\ HasKeyBytesOnly(key)
    /\ ~HasInvalidSegment(key)

\* A prefix may end with a slash, that is with an empty segment.
IsValidPrefix(prefix, maximum) ==
    \/ prefix = <<<<>>>>
    \/ /\ KeyBytes(prefix) <= maximum
       /\ HasKeyBytesOnly(prefix)
       /\ prefix[1] # <<>>
       /\ ~HasInvalidSegment(IF Last(prefix) = <<>> THEN Front(prefix) ELSE prefix)

\* starts_with.
Begins(key, prefix) ==
    /\ Len(key) >= Len(prefix)
    /\ Front(prefix) = SubSeq(key, 1, Len(prefix) - 1)
    /\ IsPrefix(Last(prefix), key[Len(prefix)])

\* SaveDatabase::List, of a usable database.
ListedKeys(store, prefix) ==
    IF IsValidPrefix(prefix, NativeMaxKeyBytes)
    THEN {key \in DOMAIN store : Begins(key, prefix)} ELSE {}

-----------------------------------------------------------------------------
(* The keys of the program.  Parents are keys without their last slash.      *)

Profiles_ == <<<<"profiles">>>>
PersistedActiveProfileKey == Profiles_ \o <<<<"active">>>>
PersistedActiveCharacterKey == Profiles_ \o <<<<"active-character">>>>
DiagnosticSuffix == <<<<"campaigns">>, <<"diagnostic">>, <<"checkpoint">>>>
SessionSuffix == <<<<"sessions">>, <<"diagnostic">>, <<"checkpoint">>>>

CharactersParent(profile) ==
    Profiles_ \o <<IdentifierText(profile), <<"characters">>>>

MarkerKey(parent, id) == parent \o <<IdentifierText(id), <<"metadata">>>>

ProfileMarkerKey(profile) == MarkerKey(Profiles_, profile)
CharacterMarkerKey(profile, character) ==
    MarkerKey(CharactersParent(profile), character)

DiagnosticCheckpointKey(profile) ==
    Profiles_ \o <<IdentifierText(profile)>> \o DiagnosticSuffix

GameSessionCheckpointKey(profile, character) ==
    CharactersParent(profile) \o <<IdentifierText(character)>> \o SessionSuffix

\* starts_with a parent's slash, ends_with a suffix's slash.
IsBelow(key, parent) == Len(key) > Len(parent) /\ SubSeq(key, 1, Len(parent)) = parent
EndsBelow(key, suffix) == Len(key) > Len(suffix) /\ IsSuffix(suffix, key)

\* Where prefix and suffix share their slash there is no identifier at all, and
\* the key is a marker nevertheless.
IsDirectMarkerKey(parent, key) ==
    /\ IsBelow(key, parent)
    /\ EndsBelow(key, <<<<"metadata">>>>)
    /\ Len(key) - Len(parent) \in {1, 2}

ParseDirectMarkerId(parent, key) ==
    IF Len(key) = Len(parent) + 1 THEN Nothing
    ELSE ParseIdentifier(key[Len(parent) + 1])

\* Text with a slash in it is no identifier.
ParseSegments(segments) ==
    IF Len(segments) = 1 THEN ParseIdentifier(segments[1]) ELSE Nothing

IsDiagnosticCheckpointKeyCandidate(key) ==
    IsBelow(key, Profiles_) /\ EndsBelow(key, DiagnosticSuffix)

DiagnosticCheckpointProfileIdFromKey(key) ==
    ParseSegments(SubSeq(key, 2, Len(key) - Len(DiagnosticSuffix)))

IsGameSessionCheckpointKeyCandidate(key) ==
    /\ IsBelow(key, Profiles_)
    /\ EndsBelow(key, SessionSuffix)
    /\ \E i \in 2..Len(key) - 1 : key[i] = <<"characters">>

GameSessionCheckpointIdsFromKey(key) ==
    LET last   == Len(key) - Len(SessionSuffix)
        places == {i \in 3..last - 1 : key[i] = <<"characters">>}
        place  == Min(places)
        ids    == <<ParseSegments(SubSeq(key, 2, place - 1)),
                    ParseSegments(SubSeq(key, place + 1, last))>>
    IN  IF places = {} \/ (\E i \in places : i >= place + 2) \/ Nothing \in ToSet(ids)
        THEN Nothing ELSE ids

-----------------------------------------------------------------------------
(* The values.  The eight bytes of each magic are one cell.                  *)

ProfileMagic   == 101
CharacterMagic == 102
ActiveProfileMagic   == 103
ActiveCharacterMagic == 104
DiagnosticMagic      == 105
GameSessionMagic     == 106

SchemaVersion == 1

Written(value) == [schema_version |-> SchemaVersion, value |-> value]

HeaderCells == 6

\* Header of a metadata value: magic, version, flags, size of the name, times.
EncodeMetadata(magic, metadata) ==
    <<magic, 1, 0, Len(metadata.name), metadata.created, metadata.modified>>
        \o metadata.name

IsValidMetadata(metadata) ==
    /\ IsValidDisplayName(metadata.name)
    /\ metadata.created <= MaxTimestamp
    /\ metadata.modified <= MaxTimestamp
    /\ metadata.modified >= metadata.created

DecodedMetadata(value) ==
    [name |-> SubSeq(value, HeaderCells + 1, Len(value)),
     created |-> value[5], modified |-> value[6]]

\* A newer format is told apart from a damaged one.
MetadataVerdict(magic, record) ==
    LET value == record.value IN
    IF record.schema_version # SchemaVersion THEN "UnsupportedMetadata"
    ELSE IF Len(value) < HeaderCells \/ value[1] # magic THEN "CorruptMetadata"
    ELSE IF value[2] # 1 THEN "UnsupportedMetadata"
    ELSE IF \/ value[3] # 0
            \/ value[4] \notin 1..NameBytes
            \/ Len(value) # HeaderCells + value[4]
            \/ ~IsValidMetadata(DecodedMetadata(value))
         THEN "CorruptMetadata"
    ELSE "Ok"

\* Pointers and checkpoints: magic, version, flags, a reserved word, and the
\* identifiers they name.
EncodeReference(magic, ids) == <<magic, 1, 0, 0>> \o FlattenSeq(ids)

\* Mutant: only the bytes in front of the identifiers are looked at.
DecodePrefix(magic, count, record) ==
    IF /\ record.schema_version = SchemaVersion
       /\ Len(record.value) >= 4 + count * IdBytes
       /\ SubSeq(record.value, 1, 4) = <<magic, 1, 0, 0>>
    THEN [i \in 1..count |->
             SubSeq(record.value, 5 + (i - 1) * IdBytes, 4 + i * IdBytes)]
    ELSE Nothing

DecodeReference(magic, count, record) ==
    IF /\ record.schema_version = SchemaVersion
       /\ Len(record.value) = 4 + count * IdBytes
       /\ SubSeq(record.value, 1, 4) = <<magic, 1, 0, 0>>
    THEN [i \in 1..count |->
             SubSeq(record.value, 5 + (i - 1) * IdBytes, 4 + i * IdBytes)]
    ELSE Nothing

-----------------------------------------------------------------------------
(* Reading: what the catalogs and a start find in a database.                *)

ReadMarker(store, magic, key) ==
    IF ~IsValidKey(key, NativeMaxKeyBytes) THEN "StorageFailure"
    ELSE IF key \notin DOMAIN store THEN "Absent"
    ELSE MetadataVerdict(magic, store[key])

\* An error of the parent is reported under the same name.
RequireParentProfile(store, profile) ==
    LET read == ReadMarker(store, ProfileMagic, ProfileMarkerKey(profile))
    IN  IF read = "Absent" THEN "NotFound" ELSE read

ReadCharacter(store, profile, character) ==
    LET parent == RequireParentProfile(store, profile)
    IN  IF parent # "Ok" THEN parent
        ELSE ReadMarker(store, CharacterMagic, CharacterMarkerKey(profile, character))

MarkersBelow(store, parent) ==
    {key \in ListedKeys(store, Append(parent, <<>>)) : IsDirectMarkerKey(parent, key)}

IdentifiersBelow(store, parent) ==
    {ParseDirectMarkerId(parent, key) : key \in MarkersBelow(store, parent)}

CanBeListed(store, parent, magic) ==
    /\ Cardinality(MarkersBelow(store, parent)) <= MaxListed
    /\ \A key \in MarkersBelow(store, parent) :
          /\ ParseDirectMarkerId(parent, key) # Nothing
          /\ ReadMarker(store, magic, key) = "Ok"

ActiveProfileIn(store) ==
    IF PersistedActiveProfileKey \notin DOMAIN store THEN Nothing
    ELSE DecodeReference(ActiveProfileMagic, 1, store[PersistedActiveProfileKey])

PointsToProfile(store) ==
    PersistedActiveProfileKey \in DOMAIN store =>
        \E p \in IdentifiersBelow(store, Profiles_) : ActiveProfileIn(store) = <<p>>

PointsToCharacter(store) ==
    PersistedActiveCharacterKey \in DOMAIN store =>
        LET pair == DecodeReference(ActiveCharacterMagic, 2, store[PersistedActiveCharacterKey])
        IN  /\ pair # Nothing
            /\ ActiveProfileIn(store) = <<pair[1]>>
            /\ ReadCharacter(store, pair[1], pair[2]) = "Ok"

SessionIsSound(store, key) ==
    LET ids == GameSessionCheckpointIdsFromKey(key)
    IN  /\ ids # Nothing
        /\ IsValidKey(key, NativeMaxKeyBytes)
        /\ DecodeReference(GameSessionMagic, 2, store[key]) = ids
        /\ ReadCharacter(store, ids[1], ids[2]) = "Ok"

CampaignIsSound(store, key) ==
    LET id == DiagnosticCheckpointProfileIdFromKey(key)
    IN  /\ id # Nothing
        /\ DecodeReference(DiagnosticMagic, 1, store[key]) = <<id>>
        /\ id \in IdentifiersBelow(store, Profiles_)

CheckpointIsSound(store, key) ==
    IF IsGameSessionCheckpointKeyCandidate(key) THEN SessionIsSound(store, key)
    ELSE IsDiagnosticCheckpointKeyCandidate(key) => CampaignIsSound(store, key)

\* NativePersistence::Bootstrap, with one name for the errors of both kinds of
\* checkpoint.
StartupVerdict(store) ==
    IF ~CanBeListed(store, Profiles_, ProfileMagic) THEN "ProfileCatalogBootstrap"
    ELSE IF \E p \in IdentifiersBelow(store, Profiles_) :
                ~CanBeListed(store, CharactersParent(p), CharacterMagic)
         THEN "CharacterCatalogBootstrap"
    ELSE IF ~PointsToProfile(store) THEN "PersistedActiveProfile"
    ELSE IF ~PointsToCharacter(store) THEN "PersistedActiveCharacter"
    ELSE IF \E key \in ListedKeys(store, Append(Profiles_, <<>>)) : ~CheckpointIsSound(store, key)
         THEN "PersistedCheckpoint"
    ELSE "Ok"

-----------------------------------------------------------------------------
(* Databases as the program writes them.  The profiles and characters of a   *)
(* database, the one of each it calls active, its campaigns and sessions.    *)

ValidMetadata == {m \in MetadataSamples : IsValidMetadata(m)}

Marker(magic) == Written(EncodeMetadata(magic, CHOOSE m \in ValidMetadata : TRUE))

Entry(key, record) == [key |-> key, record |-> record]

WrittenEntries(s) ==
    UNION {
        {Entry(ProfileMarkerKey(p), Marker(ProfileMagic)) : p \in s.profiles},
        {Entry(CharacterMarkerKey(pair[1], pair[2]), Marker(CharacterMagic))
            : pair \in s.characters},
        {Entry(PersistedActiveProfileKey, Written(EncodeReference(ActiveProfileMagic, <<p>>)))
            : p \in s.active},
        {Entry(PersistedActiveCharacterKey, Written(EncodeReference(ActiveCharacterMagic, pair)))
            : pair \in s.character},
        {Entry(DiagnosticCheckpointKey(p), Written(EncodeReference(DiagnosticMagic, <<p>>)))
            : p \in s.campaigns},
        {Entry(GameSessionCheckpointKey(pair[1], pair[2]),
               Written(EncodeReference(GameSessionMagic, pair))) : pair \in s.sessions}}

WrittenStore(s) ==
    LET entries == WrittenEntries(s)
    IN  [key \in {e.key : e \in entries} |-> (CHOOSE e \in entries : e.key = key).record]

\* One cell wrong, one too few or too many, or a newer schema.
DamagedRecords(record) ==
    LET value == record.value IN
    {[record EXCEPT !.value[i] = cell] : i \in DOMAIN value, cell \in CellDamage}
        \cup {[record EXCEPT !.value = v] : v \in {Front(value), Append(value, 0)}}
        \cup {[record EXCEPT !.schema_version = 2]}

\* One segment of a key replaced, left out or inserted.
Misspelt(key) ==
    {ReplaceAt(key, i, s) : i \in DOMAIN key, s \in KeySegments}
        \cup {RemoveAt(key, i) : i \in DOMAIN key}
        \cup {InsertAt(key, i, s) : i \in 1..Len(key) + 1, s \in KeySegments}

Renamed(store, old, new) ==
    [key \in (DOMAIN store \ {old}) \cup {new} |-> IF key = new THEN store[old] ELSE store[key]]

DamagedStores(store) ==
    UNION {
        {[store EXCEPT ![key] = record] : record \in DamagedRecords(store[key])}
            \cup {[k \in DOMAIN store \ {key} |-> store[k]]}
            \cup {Renamed(store, key, new) : new \in Misspelt(key) \ DOMAIN store}
        : key \in DOMAIN store}

-----------------------------------------------------------------------------
(* What the formats promise.                                                 *)

Utf8(point) ==
    CASE point < 128   -> <<point>>
      [] point < 2048  -> <<192 + point \div 64, 128 + (point % 64)>>
      [] point < 65536 -> <<224 + point \div 4096, 128 + ((point \div 64) % 64),
                            128 + (point % 64)>>
      [] OTHER         -> <<240 + point \div 262144, 128 + ((point \div 4096) % 64),
                            128 + ((point \div 64) % 64), 128 + (point % 64)>>

\* The code point whose encoding the bytes would be.
CodePoint(bytes) ==
    LET low(i) == bytes[i] - 128 IN
    CASE Len(bytes) = 1 -> bytes[1]
      [] Len(bytes) = 2 -> 64 * (bytes[1] - 192) + low(2)
      [] Len(bytes) = 3 -> 4096 * (bytes[1] - 224) + 64 * low(2) + low(3)
      [] OTHER -> 262144 * (bytes[1] - 240) + 4096 * low(2) + 64 * low(3) + low(4)

\* Unicode's code points without controls and surrogates.
IsPrintable(point) == point \in 32..126 \/ point \in 160..55295 \/ point \in 57344..1114111

IsText(name) ==
    LET text[i \in 1..Len(name) + 1] ==
          \/ i = Len(name) + 1
          \/ \E n \in 1..4 :
                /\ i + n <= Len(name) + 1
                /\ LET bytes == SubSeq(name, i, i + n - 1)
                   IN  IsPrintable(CodePoint(bytes)) /\ Utf8(CodePoint(bytes)) = bytes
                /\ text[i + n]
    IN  Len(name) \in 1..NameBytes /\ text[1]

\* A name is accepted exactly if it is the UTF-8 text of printable characters.
NamesAreText ==
    \A name \in DisplayNames : IsValidDisplayName(name) <=> IsText(name)

\* Metadata is read back; what a damaged value gives would be written as that
\* value, and one kind of marker is never taken for the other.
MetadataIsReadBack ==
    \A metadata \in ValidMetadata, magic \in {ProfileMagic, CharacterMagic} :
        LET written == Written(EncodeMetadata(magic, metadata)) IN
        /\ MetadataVerdict(magic, written) = "Ok"
        /\ DecodedMetadata(written.value) = metadata
        /\ \A other \in {ProfileMagic, CharacterMagic} \ {magic} :
              MetadataVerdict(other, written) # "Ok"
        /\ \A record \in DamagedRecords(written) :
              LET read == DecodedMetadata(record.value)
              IN  MetadataVerdict(magic, record) = "Ok" =>
                      /\ IsText(read.name)
                      /\ read.created <= read.modified /\ read.modified <= MaxTimestamp
                      /\ record = Written(EncodeMetadata(magic, read))

\* So are pointers and checkpoints.
ReferencesAreReadBack ==
    \A count \in 1..2 : \A ids \in TupleOf(Identifiers, count),
                            magic \in ActiveProfileMagic..GameSessionMagic :
        LET written == Written(EncodeReference(magic, ids)) IN
        /\ DecodeReference(magic, count, written) = ids
        /\ \A record \in {written} \cup DamagedRecords(written),
              other \in ActiveProfileMagic..GameSessionMagic, n \in 1..2 :
              LET read == DecodeReference(other, n, record)
              IN  read # Nothing => record = Written(EncodeReference(other, read))

CharacterShape == <<<<"profiles">>, <<>>, <<"characters">>, <<>>, <<"metadata">>>>

\* The shapes of the program's keys, an empty segment for an identifier.
KeyShapes ==
    {<<<<"profiles">>, <<"metadata">>>>, <<<<"profiles">>, <<>>, <<"metadata">>>>,
     CharacterShape,
     <<<<"profiles">>, <<"active">>>>, <<<<"profiles">>, <<"active-character">>>>,
     <<<<"profiles">>, <<>>>> \o DiagnosticSuffix,
     <<<<"profiles">>, <<>>, <<"characters">>, <<>>>> \o SessionSuffix}

HasShape(key, shape) ==
    Len(key) = Len(shape) /\ \A i \in DOMAIN key : shape[i] \in {<<>>, key[i]}

IsMarked(store, key) == key \in DOMAIN store

\* What the program reads is sound, and refers to nothing that is not there.
IsWhole(store) ==
    \A key \in DOMAIN store :
        \/ \A shape \in KeyShapes : ~HasShape(key, shape)
        \/ \E p \in Identifiers :
              \/ key = ProfileMarkerKey(p) /\ MetadataVerdict(ProfileMagic, store[key]) = "Ok"
              \/ /\ key \in {PersistedActiveProfileKey, DiagnosticCheckpointKey(p)}
                 /\ IsMarked(store, ProfileMarkerKey(p))
                 /\ \E magic \in {ActiveProfileMagic, DiagnosticMagic} :
                       store[key] = Written(EncodeReference(magic, <<p>>))
        \/ \E p, c \in Identifiers :
              \/ /\ key = CharacterMarkerKey(p, c)
                 /\ MetadataVerdict(CharacterMagic, store[key]) = "Ok"
              \/ /\ key \in {PersistedActiveCharacterKey, GameSessionCheckpointKey(p, c)}
                 /\ IsMarked(store, ProfileMarkerKey(p))
                 /\ IsMarked(store, CharacterMarkerKey(p, c))
                 /\ \E magic \in {ActiveCharacterMagic, GameSessionMagic} :
                       store[key] = Written(EncodeReference(magic, <<p, c>>))
                 /\ key = PersistedActiveCharacterKey =>
                       /\ IsMarked(store, PersistedActiveProfileKey)
                       /\ store[PersistedActiveProfileKey]
                             = Written(EncodeReference(ActiveProfileMagic, <<p>>))
        \* Characters of a profile that is not there are not looked at.
        \/ /\ HasShape(key, CharacterShape)
           /\ ~IsMarked(store, <<<<"profiles">>, key[2], <<"metadata">>>>)

\* A database is started from as it was written, under keys that the grammar
\* allows; and a start that a damaged one does not prevent finds it whole.
StoresAreReadBack ==
    \A s \in Stores :
        LET store == WrittenStore(s) IN
        /\ \A key \in DOMAIN store : IsValidKey(key, NativeMaxKeyBytes)
        /\ StartupVerdict(store) = "Ok" <=> Cardinality(s.profiles) <= MaxListed
        /\ \A damaged \in DamagedStores(store) :
              StartupVerdict(damaged) = "Ok" => IsWhole(damaged)

\* A key is taken for one of the program's exactly if it is the one the
\* program would write for the identifiers read from it.
KeysAreCanonical ==
    \A p, c \in Identifiers :
        \A key \in UNION {Misspelt(k) : k \in {ProfileMarkerKey(p), CharacterMarkerKey(p, c),
                            DiagnosticCheckpointKey(p), GameSessionCheckpointKey(p, c)}} :
            LET profile == ParseDirectMarkerId(Profiles_, key)
                character == ParseDirectMarkerId(CharactersParent(p), key)
                campaign == DiagnosticCheckpointProfileIdFromKey(key)
                session == GameSessionCheckpointIdsFromKey(key)
            IN  /\ IsDirectMarkerKey(Profiles_, key) /\ profile # Nothing
                      <=> \E id \in Identifiers : key = ProfileMarkerKey(id)
                /\ IsDirectMarkerKey(CharactersParent(p), key) /\ character # Nothing
                      <=> \E id \in Identifiers : key = CharacterMarkerKey(p, id)
                /\ IsDiagnosticCheckpointKeyCandidate(key) /\ campaign # Nothing
                      <=> \E id \in Identifiers : key = DiagnosticCheckpointKey(id)
                /\ IsGameSessionCheckpointKeyCandidate(key) /\ session # Nothing
                      <=> \E ids \in Identifiers \X Identifiers :
                              key = GameSessionCheckpointKey(ids[1], ids[2])

WrittenRecordsAreReadBack ==
    /\ NamesAreText
    /\ MetadataIsReadBack
    /\ ReferencesAreReadBack
    /\ KeysAreCanonical
    /\ StoresAreReadBack

=============================================================================
