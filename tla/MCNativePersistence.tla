-------------------------- MODULE MCNativePersistence --------------------------
(* Instances of NativePersistence for TLC, of the formats of its records, and  *)
(* of the memory cards whose saves the program knows beside its own.           *)
EXTENDS NativePersistence, SaveFormats, MemoryCard, TLC

\* Profiles and characters are interchangeable.
Symmetry == Permutations(Profiles) \cup Permutations(Characters)

-----------------------------------------------------------------------------
(* The cards: a save directory of up to three files.  Two names of the same    *)
(* file, an empty file, one that fills its clusters, one with a byte more, and *)
(* the first that are too large.                                               *)

CardFile(name, mode, size) == [name |-> name, mode |-> mode, size |-> size]
PlainFile(name, size) == CardFile(name, {"exists", "file"}, size)

CardFiles ==
    {PlainFile(name, size) : name \in {"a", "b"}, size \in {0, 1, 3, 4}}
        \cup {PlainFile("c", 5), PlainFile("d", 6), PlainFile("a?b", 1),
              CardFile("a", {"exists", "directory"}, 1)}

MCCardDirectories == SeqOf(CardFiles, 3)

MCDamagedDirectories ==
    {<<PlainFile("a", 3), PlainFile("b", 3)>>,
     <<PlainFile("a", 4), PlainFile("b", 0), PlainFile("c", 5)>>}

\* Clusters of the card, and of the allocation table with and without its bit.
MCCardDamage == 0..21 \cup {63, 127} \cup 64..74

-----------------------------------------------------------------------------
(* The records.  Three identifiers, one the other with its first digits        *)
(* swapped; bytes at the borders of UTF-8's ranges; times at theirs; and       *)
(* segments that are almost an identifier.                                     *)

Identifier(first, last) ==
    [i \in 1..IdBytes |-> IF i = 1 THEN first ELSE IF i = IdBytes THEN last ELSE 171]

id1 == Identifier(15, 160)
id2 == Identifier(240, 160)
id3 == Identifier(15, 0)

MCIdentifiers == {id1, id2, id3}

LeadingBytes ==
    {0, 31, 32, 65, 126, 127, 128, 143, 144, 159, 160, 191, 192, 193, 194, 195, 223, 224,
     225, 237, 238, 239, 240, 241, 244, 245, 255}
LaterBytes == {127, 128, 143, 144, 159, 160, 191, 192}
LastBytes == LaterBytes \cup {65}

Repeated(byte, n) == [i \in 1..n |-> byte]

MCDisplayNames ==
    UNION {SeqOf(LeadingBytes, 2),
           {<<a, b, c>> : a \in LeadingBytes, b \in LaterBytes, c \in LastBytes},
           {<<a, b, c, d>> : a \in LeadingBytes, b, c \in LaterBytes, d \in LastBytes},
           {Repeated(65, NameBytes), Repeated(65, NameBytes + 1)}}

MCMetadata ==
    [name : {<<65>>, <<195, 160>>, Repeated(65, NameBytes), <<>>, <<10>>},
     created : {0, 3, MaxTimestamp}, modified : {2, MaxTimestamp, MaxTimestamp + 1}]

MCKeySegments ==
    {<<"profiles">>, <<"metadata">>, <<"characters">>, <<"sessions">>, <<"diagnostic">>,
     <<"active">>, <<>>, <<".">>}
        \cup {IdentifierText(id) : id \in {id1, id2}}
        \cup {Front(IdentifierText(id1)), Append(IdentifierText(id1), "0"),
              ReplaceAt(IdentifierText(id1), 2, "g"), ReplaceAt(IdentifierText(id1), 2, "F")}

\* Profiles, characters, the active ones, campaigns and sessions.
Save(profiles, characters, active, character, campaigns, sessions) ==
    [profiles |-> profiles, characters |-> characters, active |-> active,
     character |-> character, campaigns |-> campaigns, sessions |-> sessions]

MCStores ==
    {Save({}, {}, {}, {}, {}, {}),
     Save(MCIdentifiers, {}, {id1}, {}, {}, {}),
     Save({id1}, {<<id1, id2>>}, {id1}, {<<id1, id2>>}, {id1}, {<<id1, id2>>}),
     Save({id1, id2}, {<<id1, id1>>, <<id2, id1>>, <<id2, id2>>}, {id2}, {<<id2, id1>>},
          {id1, id2}, {<<id2, id1>>, <<id2, id2>>})}

\* Records and memory cards are read back as they were written; a single wrong
\* cell, key or bit is found, or leaves what the program could have written.
\* A formula about the formats, required of the first start.
SavesAreReadBack ==
    [][Init => WrittenRecordsAreReadBack /\ WrittenCardsAreReadBack]_vars

=============================================================================
