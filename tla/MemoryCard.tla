------------------------------ MODULE MemoryCard ------------------------------
(***************************************************************************)
(* A PlayStation 2 memory card, as the port writes and reads it            *)
(* (src/compat/ps2_memory_card_*.cpp): a superblock, an indirect table of  *)
(* the clusters that hold the allocation table, and in the area it         *)
(* allocates the root directory, one save directory and its files.         *)
(*                                                                         *)
(* The card is a small one: what the code fixes as the standard geometry   *)
(* is fixed here.  Words of the allocation table have WordLimit values     *)
(* instead of 2^32, clusters are counted from zero, and a byte is a value  *)
(* that tells where it was written.                                        *)
(***************************************************************************)
EXTENDS Integers, Sequences, SequencesExt, FiniteSetsExt

CONSTANTS
    CardDirectories,    \* the directories to be written: the files of each
    DamagedDirectories, \* those among them whose cards are damaged
    CardDamage          \* the words that a damaged card may hold somewhere

ASSUME MemoryCardAssumption ==
    DamagedDirectories \subseteq CardDirectories /\ CardDamage \subseteq Nat

-----------------------------------------------------------------------------
(* The standard card.                                                        *)

WordLimit == 128
EndOfChain == WordLimit - 1
AllocatedBit == WordLimit \div 2
FreeCluster == AllocatedBit - 1

ClusterBytes == 2
EntriesPerCluster == 2
FatEntriesPerCluster == 4
ClustersPerBlock == 2
ClustersPerCard == 22
IfcListEntries == 2
BadBlockEntries == 2

IfcCluster == 2
FirstFatCluster == 3
AllocationOffset == 6
AllocationEnd == 11
MaximumDataClusters == 10

CardClusters == 0..(ClustersPerCard - 1)

CeilingDivide(value, divisor) == (value + divisor - 1) \div divisor

\* An entry of a directory; info stands for attributes and times, which are
\* copied.  A byte is a pair, <<0, n>> when no file's contents are there.
EmptyEntry == [mode |-> {}, length |-> 0, first |-> 0, parent |-> 0, info |-> 0, name |-> ""]
ErasedEntry == [EmptyEntry EXCEPT !.mode = {"exists", "file", "directory"}]

\* A cluster as each of its readers would see it.
Cluster(c, words, entries) ==
    [words |-> words, entries |-> entries,
     bytes |-> [i \in 1..ClusterBytes |-> <<0, c * ClusterBytes + i>>]]

Words(word) == [i \in 1..FatEntriesPerCluster |-> word]

ErasedCluster(c) ==
    Cluster(c, Words(EndOfChain), [i \in 1..EntriesPerCluster |-> ErasedEntry])

-----------------------------------------------------------------------------
(* Writing a card.                                                           *)

\* The mode of an entry says that it exists and is of exactly this type.
HasType(mode, type) == mode \cap {"exists", "file", "directory"} = {"exists", type}

IsLegalName(name) == name \notin {"", ".", "..", "a?b"}

SaveEntryCount(directory) == Len(directory.files) + 2
SaveClusterCount(directory) == CeilingDivide(SaveEntryCount(directory), EntriesPerCluster)
FileClusterCount(file) == CeilingDivide(Len(file.bytes), ClusterBytes)

RequiredClusters(files, save_clusters) ==
    2 + save_clusters + FoldLeft(LAMBDA n, f : n + FileClusterCount(f), 0, files)

\* ValidateInput.
ValidateInput(directory, limits) ==
    LET files == directory.files
        sizes == [i \in DOMAIN files |-> Len(files[i].bytes)]
    IN  /\ IsLegalName(directory.name) /\ HasType(directory.mode, "directory")
        /\ \A i \in DOMAIN files :
              /\ IsLegalName(files[i].name) /\ HasType(files[i].mode, "file")
              /\ sizes[i] <= limits.file_bytes
        /\ IsInjective([i \in DOMAIN files |-> files[i].name])
        /\ Len(files) <= limits.files
        /\ FoldLeft(+, 0, sizes) <= limits.total_bytes
        /\ RequiredClusters(files, SaveClusterCount(directory)) <= MaximumDataClusters

\* AllocateChain: clusters are handed out in order.
AllocateChain(next, count) == [i \in 1..count |-> next + i - 1]

SaveChain(directory) == AllocateChain(2, SaveClusterCount(directory))

FileChain(directory, i) ==
    AllocateChain(RequiredClusters(SubSeq(directory.files, 1, i - 1),
                                   SaveClusterCount(directory)),
                  FileClusterCount(directory.files[i]))

\* A plausible error: the last cluster of a chain is left as it was.
LinkChainOpen(table, chain) ==
    [c \in DOMAIN table |->
        LET i == SelectInSeq(chain, LAMBDA d : d = c)
        IN  IF i \in 1..(Len(chain) - 1) THEN AllocatedBit + chain[i + 1] ELSE table[c]]

\* LinkChain and SetFat.
LinkChain(table, chain) ==
    [c \in DOMAIN table |->
        LET i == SelectInSeq(chain, LAMBDA d : d = c)
        IN  IF i = 0 THEN table[c]
            ELSE IF i = Len(chain) THEN EndOfChain ELSE AllocatedBit + chain[i + 1]]

\* The allocation table by cluster; it starts with every cluster free.
WrittenTable(directory) ==
    FoldLeft(LinkChain, [c \in 0..(AllocationEnd - 1) |-> FreeCluster],
             <<AllocateChain(0, 2), SaveChain(directory)>>
                 \o [i \in DOMAIN directory.files |-> FileChain(directory, i)])

\* WriteSuperblock.
WrittenSuperblock ==
    [standard |-> TRUE, offset |-> AllocationOffset, end |-> AllocationEnd, root |-> 0,
     backup1 |-> 10, backup2 |-> 9,
     ifc |-> [i \in 1..IfcListEntries |-> IF i = 1 THEN IfcCluster ELSE EndOfChain],
     bad |-> [i \in 1..BadBlockEntries |-> EndOfChain]]

DirectoryMode == {"exists", "directory"}

Dot(name, length, parent) ==
    [EmptyEntry EXCEPT !.mode = DirectoryMode, !.name = name, !.length = length,
                       !.parent = parent]

\* WriteDirectoryEntry, for the save directory and for its files.
RootEntries(directory) ==
    <<Dot(".", 3, 0), Dot("..", 0, 0),
      [mode |-> directory.mode, length |-> SaveEntryCount(directory),
       first |-> SaveChain(directory)[1], parent |-> 0, info |-> directory.info,
       name |-> directory.name]>>

FileEntry(directory, i) ==
    LET file == directory.files[i]
        chain == FileChain(directory, i)
    IN  [mode |-> file.mode, length |-> Len(file.bytes),
         first |-> IF chain = <<>> THEN EndOfChain ELSE chain[1], parent |-> 0,
         info |-> file.info, name |-> file.name]

SaveEntries(directory) ==
    <<Dot(".", 0, 2), Dot("..", 0, 0)>>
        \o [i \in DOMAIN directory.files |-> FileEntry(directory, i)]

\* The entries in cluster i of a directory, with nothing after the last.
EntriesAt(entries, i) ==
    [k \in 1..EntriesPerCluster |->
        LET n == (i - 1) * EntriesPerCluster + k
        IN  IF n <= Len(entries) THEN entries[n] ELSE EmptyEntry]

\* What cluster c of the allocated area holds: a directory, a part of a file,
\* or what was there.
AllocatedCluster(directory, c) ==
    LET fresh == ErasedCluster(c + AllocationOffset)
        save == SelectInSeq(SaveChain(directory), LAMBDA d : d = c)
        part(i) == SelectInSeq(FileChain(directory, i), LAMBDA d : d = c)
        filled(bytes, from) ==
            [k \in 1..ClusterBytes |->
                IF from + k <= Len(bytes) THEN bytes[from + k] ELSE fresh.bytes[k]]
    IN  IF c < 2 THEN Cluster(c + AllocationOffset, Words(0),
                              EntriesAt(RootEntries(directory), c + 1))
        ELSE IF save > 0 THEN Cluster(c + AllocationOffset, Words(0),
                                      EntriesAt(SaveEntries(directory), save))
        ELSE IF \E i \in DOMAIN directory.files : part(i) > 0
             THEN LET i == CHOOSE i \in DOMAIN directory.files : part(i) > 0
                  IN  [fresh EXCEPT !.bytes = filled(directory.files[i].bytes,
                                                     (part(i) - 1) * ClusterBytes)]
             ELSE fresh

\* WriteAllocationTables: cluster i of the table, and the table's own index.
FatCluster(table, i) ==
    Cluster(FirstFatCluster + i,
            [k \in 1..FatEntriesPerCluster |->
                LET c == i * FatEntriesPerCluster + k - 1
                IN  IF c \in DOMAIN table THEN table[c] ELSE EndOfChain],
            <<ErasedEntry, ErasedEntry>>)

FatClusterCount == CeilingDivide(AllocationEnd, FatEntriesPerCluster)

IndexCluster ==
    Cluster(IfcCluster,
            [k \in 1..FatEntriesPerCluster |->
                IF k <= FatClusterCount THEN FirstFatCluster + k - 1 ELSE EndOfChain],
            <<EmptyEntry, EmptyEntry>>)

\* CreatePs2MemoryCardLogicalImage, of a directory that ValidateInput accepts.
CreateLogicalImage(directory) ==
    LET table == WrittenTable(directory)
        content(c) ==
            IF c = IfcCluster THEN IndexCluster
            ELSE IF c \in FirstFatCluster..(FirstFatCluster + FatClusterCount - 1)
            THEN FatCluster(table, c - FirstFatCluster)
            ELSE IF c \in AllocationOffset..(AllocationOffset + AllocationEnd - 1)
            THEN AllocatedCluster(directory, c - AllocationOffset)
            ELSE ErasedCluster(c)
    IN  [layout |-> "logical", super |-> WrittenSuperblock, spare |-> <<>>,
         clusters |-> [c \in CardClusters |-> content(c)]]

-----------------------------------------------------------------------------
(* The image.                                                                *)

\* The bad blocks before the first unused place.
BadBlocks(super) == SelectSeq(super.bad, LAMBDA b : b # EndOfChain)

\* InspectPs2MemoryCardImage: the layout is told by the size; "standard" is
\* the magic, the version, the geometry and the type of the card.
InspectImage(card) ==
    LET super   == card.super
        end     == super.offset + super.end
        blocks  == ClustersPerCard \div ClustersPerBlock
        ifcs    == CeilingDivide(CeilingDivide(super.end, FatEntriesPerCluster),
                                 FatEntriesPerCluster)
        backups == {super.backup1, super.backup2}
        bad     == BadBlocks(super)
    IN  /\ card.layout \in {"logical", "raw"} /\ super.standard
        /\ super.offset \in 1..(ClustersPerCard - 1)
        /\ super.end > 0 /\ end <= ClustersPerCard
        /\ super.root = 0
        /\ super.backup1 # super.backup2
        /\ \A b \in backups : b < blocks /\ b * ClustersPerBlock >= end
        /\ ifcs \in 1..IfcListEntries
        /\ \A i \in 1..ifcs : super.ifc[i] \in ClustersPerBlock..(super.offset - 1)
        /\ \A i \in (ifcs + 1)..IfcListEntries : super.ifc[i] \in {0, EndOfChain}
        /\ bad = SubSeq(super.bad, 1, Len(bad)) /\ IsInjective(bad)
        /\ \A i \in DOMAIN bad : bad[i] < blocks /\ bad[i] \notin backups

\* ConvertPs2MemoryCardImageToLogical: the spare bytes are dropped.
ConvertToLogical(card) == [card EXCEPT !.layout = "logical", !.spare = <<>>]

-----------------------------------------------------------------------------
(* The code in the spare bytes: Hamming over a quarter of a page.  A byte is   *)
(* the set of its bits that are one; a quarter has QuarterBytes of them.       *)

ByteBits == 4
QuarterBytes == 8
IndexBits == 0..2       \* of the index of a byte, and of a bit with one to spare

BitsOf(n) == {b \in IndexBits : (n \div 2 ^ b) % 2 = 1}

\* The exclusive or of a mask with what f yields for each member.
Xor(mask, f(_), set) == FoldSet(LAMBDA x, sum : SymDiff(f(x), sum), mask, set)

\* ColumnParityMask: a bit contributes its index and the index it has from the
\* other end, in two halves of the mask.
ColumnParityMask(byte) ==
    Xor({}, LAMBDA bit : (BitsOf(bit) \X {"high"})
                             \cup (BitsOf(ByteBits - 1 - bit) \X {"low"}), byte)

\* CalculatePageQuarterEcc.
CalculateEcc(quarter) ==
    LET odd == {i \in DOMAIN quarter : Cardinality(quarter[i]) % 2 = 1}
        line(i) == BitsOf(i - 1)
    IN  [column |-> Xor(IndexBits \X {"high", "low"},
                        LAMBDA i : ColumnParityMask(quarter[i]), DOMAIN quarter),
         even |-> Xor(IndexBits, LAMBDA i : IndexBits \ line(i), odd),
         odd |-> Xor(IndexBits, line, odd)]

\* ConvertPs2MemoryCardImageToRaw: the codes of what each cluster holds are
\* written anew, also when the card is raw already; a code is known by the
\* bytes it was calculated from.
ConvertToRaw(card) ==
    [ConvertToLogical(card) EXCEPT
        !.layout = "raw", !.spare = card.clusters]

-----------------------------------------------------------------------------
(* Reading a card.                                                           *)

Refused == [ok |-> FALSE]

\* ReadAllocationTable: the clusters of the index, and those it names, lie
\* before the allocated area and are all different.
AllocationTable(card) ==
    LET super  == card.super
        fats   == CeilingDivide(super.end, FatEntriesPerCluster)
        index  == SubSeq(super.ifc, 1, CeilingDivide(fats, FatEntriesPerCluster))
        Metadata(c) == c \in ClustersPerBlock..(super.offset - 1)
        WordsOf(list) == FlattenSeq([i \in DOMAIN list |-> card.clusters[list[i]].words])
        named  == WordsOf(index)
        list   == SubSeq(named, 1, fats)
    IN  IF /\ \A i \in DOMAIN index : Metadata(index[i])
           /\ \A i \in DOMAIN list : Metadata(list[i])
           /\ IsInjective(index \o list)
           /\ \A i \in (fats + 1)..Len(named) : named[i] \in {0, EndOfChain}
        THEN [ok |-> TRUE, table |-> SubSeq(WordsOf(list), 1, super.end)]
        ELSE Refused

\* A plausible error: only the clusters of the chain itself are remembered.
ReadExactChainShared(reader, first, count) ==
    LET extend(walk, i) ==
            IF ~walk.ok \/ walk.current >= Len(reader.table)
                  \/ walk.current \in ToSet(walk.chain)
            THEN [walk EXCEPT !.ok = FALSE]
            ELSE LET next == reader.table[walk.current + 1]
                 IN  [ok |-> IF i = count THEN next = EndOfChain
                             ELSE next # EndOfChain /\ next >= AllocatedBit,
                      chain |-> Append(walk.chain, walk.current),
                      current |-> next % AllocatedBit]
    IN  FoldLeft(extend, [ok |-> count > 0 \/ first = EndOfChain, chain |-> <<>>,
                          current |-> first],
                 [i \in 1..count |-> i])

\* ReadExactChain: exactly count clusters, each allocated, none of which was
\* read before.  A reader is [ok, table, claimed].
ReadExactChain(reader, first, count) ==
    LET extend(walk, i) ==
            IF ~walk.ok \/ walk.current >= Len(reader.table)
                  \/ walk.current \in ToSet(walk.chain) \cup reader.claimed
            THEN [walk EXCEPT !.ok = FALSE]
            ELSE LET next == reader.table[walk.current + 1]
                 IN  [ok |-> IF i = count THEN next = EndOfChain
                             ELSE next # EndOfChain /\ next >= AllocatedBit,
                      chain |-> Append(walk.chain, walk.current),
                      current |-> next % AllocatedBit]
        start == [ok |-> IF count = 0 THEN first = EndOfChain
                         ELSE count <= Len(reader.table) /\ first # EndOfChain,
                  chain |-> <<>>, current |-> first]
    IN  IF start.ok THEN FoldLeft(extend, start, [i \in 1..count |-> i]) ELSE start

Claim(reader, walk) == [reader EXCEPT !.claimed = @ \cup ToSet(walk.chain)]

EntryExists(entry) == "exists" \in entry.mode
Is(entry, type) == EntryExists(entry) /\ type \in entry.mode

\* DecodeEntry: an entry that exists is a file or a directory and has a name.
IsDecodable(entry) ==
    EntryExists(entry) => /\ Is(entry, "file") # Is(entry, "directory")
                     /\ entry.name \notin {"", "a?b"}

\* ReadDirectory.
ReadDirectory(card, reader, first, count, maximum) ==
    LET walk == ReadExactChain(reader, first, CeilingDivide(count, EntriesPerCluster))
        entries == SubSeq(FlattenSeq([i \in DOMAIN walk.chain |->
                              card.clusters[card.super.offset + walk.chain[i]].entries]),
                          1, count)
    IN  IF /\ count \in 2..maximum /\ count <= card.super.end * EntriesPerCluster
           /\ walk.ok /\ \A i \in DOMAIN entries : IsDecodable(entries[i])
        THEN [ok |-> TRUE, entries |-> entries, reader |-> Claim(reader, walk)]
        ELSE Refused

\* HasDotEntries.
HasDotEntries(entries, length, parent) ==
    LET dot == entries[1]
        dots == entries[2]
    IN  /\ Is(dot, "directory") /\ dot.name = "."
        /\ Is(dots, "directory") /\ dots.name = ".."
        /\ dots.length = 0 /\ dots.first = 0 /\ dots.parent = 0
        /\ dot.length = length /\ dot.first = 0 /\ dot.parent = parent

\* The entries beside "." and "..", none of which has such a name.
Members(entries) == {i \in 3..Len(entries) : EntryExists(entries[i])}
MembersAreNamed(entries) ==
    \A i \in Members(entries) : entries[i].name \notin {".", ".."}

\* ReadFile: the bytes of exactly the clusters the length needs.
ReadFile(card, reader, entry) ==
    LET walk == ReadExactChain(reader, entry.first,
                               CeilingDivide(entry.length, ClusterBytes))
        bytes == FlattenSeq([i \in DOMAIN walk.chain |->
                     card.clusters[card.super.offset + walk.chain[i]].bytes])
    IN  IF walk.ok
        THEN [ok |-> TRUE, bytes |-> SubSeq(bytes, 1, entry.length),
              reader |-> Claim(reader, walk)]
        ELSE Refused

\* The loop over the entries of the save directory.
ReadFiles(card, reader, entries, limits) ==
    LET total(files) == FoldLeft(LAMBDA n, f : n + Len(f.bytes), 0, files)
        one(state, i) ==
            LET entry == entries[i]
                file == ReadFile(card, state.reader, entry)
            IN  IF ~state.ok \/ ~EntryExists(entry) THEN state
                ELSE IF \/ ~Is(entry, "file")
                        \/ Len(state.files) >= limits.files
                        \/ entry.length > limits.file_bytes
                        \/ entry.length > limits.total_bytes - total(state.files)
                        \/ \E f \in ToSet(state.files) : f.name = entry.name
                        \/ ~file.ok
                THEN [state EXCEPT !.ok = FALSE]
                ELSE [ok |-> TRUE, reader |-> file.reader,
                      files |-> Append(state.files,
                                       [name |-> entry.name, mode |-> entry.mode,
                                        info |-> entry.info, bytes |-> file.bytes])]
    IN  FoldLeft(one, [ok |-> TRUE, reader |-> reader, files |-> <<>>],
                 [i \in 1..(Len(entries) - 2) |-> i + 2])

\* CardReader::Read: the root, the one directory of that name in it, and the
\* files in that; nested directories are refused.
ReadSelected(card, name, table, limits) ==
    LET reader == [table |-> table, claimed |-> {}]
        dot == card.clusters[card.super.offset + card.super.root].entries[1]
        root == ReadDirectory(card, reader, 0, dot.length, limits.root_entries)
        named == {i \in Members(root.entries) : root.entries[i].name = name}
        selected == root.entries[CHOOSE i \in named : TRUE]
        save == ReadDirectory(card, root.reader, selected.first, selected.length,
                              limits.save_entries)
        read == ReadFiles(card, save.reader, save.entries, limits)
    IN  IF /\ IsDecodable(dot) /\ Is(dot, "directory") /\ dot.name = "."
           /\ root.ok /\ HasDotEntries(root.entries, Len(root.entries), 0)
           /\ MembersAreNamed(root.entries)
           /\ Cardinality(named) = 1 /\ Is(selected, "directory")
           /\ save.ok
           /\ HasDotEntries(save.entries, 0, (CHOOSE i \in named : TRUE) - 1)
           /\ MembersAreNamed(save.entries)
           /\ read.ok
        THEN [ok |-> TRUE,
              directory |-> [name |-> selected.name, mode |-> selected.mode,
                             info |-> selected.info, files |-> read.files]]
        ELSE Refused

\* ReadPs2MemoryCardSaveDirectory.
ReadSaveDirectory(card, name, limits) ==
    LET allocation == AllocationTable(ConvertToLogical(card))
    IN  IF IsLegalName(name) /\ InspectImage(card) /\ allocation.ok
        THEN ReadSelected(ConvertToLogical(card), name, allocation.table, limits)
        ELSE Refused

-----------------------------------------------------------------------------
(* What a card's owner relies on.                                            *)

AmpleLimits == [files |-> 3, file_bytes |-> 5, total_bytes |-> 9,
                root_entries |-> 8, save_entries |-> 8]

\* A directory of these files, each with bytes of its own.
WrittenDirectory(files) ==
    [name |-> "save", mode |-> DirectoryMode, info |-> 9,
     files |-> [i \in DOMAIN files |->
                   [name |-> files[i].name, mode |-> files[i].mode, info |-> i,
                    bytes |-> [j \in 1..files[i].size |-> <<i, j>>]]]]

ReadsAs(card, directory) ==
    ReadSaveDirectory(card, "save", AmpleLimits) = [ok |-> TRUE, directory |-> directory]

\* A directory that is accepted is read back from the card written for it, from
\* the raw card with its codes or with any others, and takes just the room that
\* it was said to need.
CardIsReadBack(files) ==
    LET directory == WrittenDirectory(files)
        card      == CreateLogicalImage(directory)
        raw       == ConvertToRaw(card)
        foreign   == [raw EXCEPT !.spare = <<>>]
        used      == {c \in 0..(AllocationEnd - 1) :
                         WrittenTable(directory)[c] # FreeCluster}
    IN  ValidateInput(directory, AmpleLimits) =>
            /\ ReadsAs(card, directory) /\ ReadsAs(raw, directory)
            /\ ReadsAs(foreign, directory) /\ ConvertToRaw(foreign) = raw
            /\ Cardinality(used)
                  = RequiredClusters(directory.files, SaveClusterCount(directory))

\* A card with any one word of its superblock, of its tables or of an entry of a
\* directory changed.
DamagedCards(card) ==
    LET fields   == {"offset", "end", "root", "backup1", "backup2"}
        lists    == {"ifc", "bad"}
        tables   == IfcCluster..(AllocationOffset - 1)
        entries  == AllocationOffset..(AllocationOffset + 4)
    IN  {[card EXCEPT !.super[f] = w] : f \in fields, w \in CardDamage}
          \cup {[card EXCEPT !.super[f][i] = w] : f \in lists, i \in 1..2, w \in CardDamage}
          \cup {[card EXCEPT !.clusters[c].words[k] = w] :
                    c \in tables, k \in 1..FatEntriesPerCluster, w \in CardDamage}
          \cup {[card EXCEPT !.clusters[c].entries[k][f] = w] :
                    c \in entries, k \in 1..EntriesPerCluster,
                    f \in {"length", "first", "parent"}, w \in CardDamage}
          \cup {[card EXCEPT !.clusters[c].entries[k].mode = m] :
                    c \in entries, k \in 1..EntriesPerCluster,
                    m \in SUBSET {"exists", "file", "directory"}}
          \cup {[card EXCEPT !.clusters[c].entries[k].name = n] :
                    c \in entries, k \in 1..EntriesPerCluster,
                    n \in {"", ".", "..", "save", "a", "a?b"}}

\* What is read from a damaged card is no byte twice, whatever the table says,
\* and files of different names within the limits.
ReadsAreSound(card) ==
    LET read  == ReadSaveDirectory(card, "save", AmpleLimits)
        files == read.directory.files
        bytes == FlattenSeq([i \in DOMAIN files |-> files[i].bytes])
    IN  read.ok => /\ IsInjective(bytes)
                   /\ IsInjective([i \in DOMAIN files |-> files[i].name])
                   /\ Len(files) <= AmpleLimits.files
                   /\ Len(bytes) <= AmpleLimits.total_bytes

\* The code tells any two errors of one bit apart, and each from none.
SingleErrorsAreLocated(quarter) ==
    LET bits == (1..QuarterBytes) \X (0..(ByteBits - 1))
        flipped(p) == [quarter EXCEPT ![p[1]] = SymDiff(@, {p[2]})]
        codes == {CalculateEcc(quarter)} \cup {CalculateEcc(flipped(p)) : p \in bits}
    IN  Cardinality(codes) = Cardinality(bits) + 1

Quarters == {[i \in 1..QuarterBytes |-> byte] : byte \in {{}, {0, 2, 3}}}

WrittenCardsAreReadBack ==
    /\ \A files \in CardDirectories : CardIsReadBack(files)
    /\ \A files \in DamagedDirectories :
          \A card \in DamagedCards(CreateLogicalImage(WrittenDirectory(files))) :
              ReadsAreSound(card)
    /\ \A quarter \in Quarters : SingleErrorsAreLocated(quarter)

=============================================================================
