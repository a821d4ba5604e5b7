------------------------------- MODULE Archives -------------------------------
(***************************************************************************)
(* The tables of the containers that the virtual file system mounts: the   *)
(* directory of a HOG archive (src/archive/hog_archive.cpp), the           *)
(* directories of an ISO 9660 image and the game's paths                   *)
(* (src/vfs/virtual_file_system.cpp).                                      *)
(*                                                                         *)
(* A text is a sequence of characters in ASCII.  An archive is a sequence  *)
(* of cells, each a byte or a word that the code reads at once; an image   *)
(* is made of sectors of SectorSlots slots, and a slot holds a directory's *)
(* record, a piece of a file, or zeros.  What the code refuses, with       *)
(* whatever message, is Refused.                                           *)
(***************************************************************************)
EXTENDS Integers, Sequences, SequencesExt, FiniteSetsExt

CONSTANTS
    MaxNodes,           \* nodes of a tree
    PathLimit,          \* kMaximumGamePathLength
    NameLimit,          \* kMaximumNameLength of a HOG
    EntryLimit,         \* kMaximumEntryCount
    PrefixLimit,        \* kMaximumDirectorySize
    IsoLimits,          \* kMaximumIso9660Directories and the others, a record
    GamePaths,          \* texts that are taken for paths
    ArchiveLayouts,     \* archives to be written: members, padding of names, tail
    ImageTrees,         \* images to be written: files and directories in a tree
    DamagedTrees,       \* those whose images are damaged
    DamagedWords        \* what a damaged word of a table may be

ASSUME ArchivesAssumption ==
    /\ {MaxNodes, PathLimit, NameLimit, EntryLimit, PrefixLimit} \subseteq Nat
    /\ DamagedTrees \subseteq ImageTrees /\ DamagedWords \subseteq Nat

Refused == [ok |-> FALSE]

-----------------------------------------------------------------------------
(* The game's paths.                                                         *)

Slash == 47
Separators == {Slash, 92}
Dot == 46
Letters == (65..90) \cup (97..122)
Printable == 32..126

\* std::toupper.
Upper(c) == IF c \in 97..122 THEN c - 32 ELSE c

\* The components of a path in upper case; empty ones do not count.
Components(path) ==
    LET step(parts, c) ==
            IF c \in Separators THEN Append(parts, <<>>)
            ELSE [parts EXCEPT ![Len(parts)] = Append(@, Upper(c))]
    IN  SelectSeq(FoldLeft(step, <<(<<>>)>>, path), LAMBDA part : part # <<>>)

Joined(parts) ==
    IF parts = <<>> THEN <<>>
    ELSE FoldLeft(LAMBDA path, part : path \o <<Slash>> \o part, Head(parts), Tail(parts))

IsAbsolute(path) ==
    \/ path[1] \in Separators
    \/ Len(path) >= 2 /\ path[1] \in Letters /\ path[2] = 58

\* NormalizeGamePath; no path is empty, so the empty one says that it is refused.
NormalizeGamePath(path) ==
    IF /\ Len(path) \in 1..PathLimit
       /\ ~IsAbsolute(path)
       /\ \A i \in DOMAIN path : path[i] \in Printable
       /\ \A part \in ToSet(Components(path)) : part \notin {<<Dot>>, <<Dot, Dot>>}
    THEN Joined(Components(path)) ELSE <<>>

-----------------------------------------------------------------------------
(* The directory of a HOG archive: tag, count, where the offsets, the names    *)
(* and the payload begin; count + 1 offsets; the names, each ended by zero.    *)

HeaderCells == 5

\* The first count names of an area; all that follows them is zero.
ReadNames(area, count) ==
    LET step(read, c) ==
            IF Len(read.names) = count THEN [read EXCEPT !.ok = @ /\ c = 0]
            ELSE IF c # 0
            THEN [read EXCEPT !.ok = @ /\ c \in Printable, !.name = Append(@, c)]
            ELSE [ok |-> read.ok /\ Len(read.name) \in 1..NameLimit,
                  names |-> Append(read.names, read.name), name |-> <<>>]
    IN  FoldLeft(step, [ok |-> TRUE, names |-> <<>>, name |-> <<>>], area)

\* A plausible error: the offsets are not compared with each other.
ParseDirectoryUnsorted(cells, size) ==
    IF Len(cells) <= HeaderCells THEN Refused
    ELSE LET count   == cells[2]
             names_offset == cells[4]
             data    == cells[5]
             offsets == SubSeq(cells, HeaderCells + 1, HeaderCells + 1 + count)
             read    == ReadNames(SubSeq(cells, names_offset + 1, data), count)
         IN  IF /\ cells[3] = HeaderCells /\ count <= EntryLimit /\ data <= PrefixLimit
                /\ names_offset = HeaderCells + count + 1
                /\ names_offset <= data /\ data <= Len(cells) /\ data <= size
                /\ offsets[1] = 0 /\ data + offsets[count + 1] <= size
                /\ read.ok /\ Len(read.names) = count
             THEN [ok |-> TRUE, data |-> data, logical |-> data + offsets[count + 1],
                   entries |-> [i \in 1..count |->
                       [name |-> read.names[i], offset |-> data + offsets[i],
                        size |-> offsets[i + 1] - offsets[i]]]]
             ELSE Refused

\* ParseDirectory, of the cells that are known of an archive of this size.
ParseDirectory(cells, size) ==
    IF Len(cells) <= HeaderCells THEN Refused
    ELSE LET count   == cells[2]
             names_offset == cells[4]
             data    == cells[5]
             offsets == SubSeq(cells, HeaderCells + 1, HeaderCells + 1 + count)
             read    == ReadNames(SubSeq(cells, names_offset + 1, data), count)
         IN  IF /\ cells[3] = HeaderCells /\ count <= EntryLimit /\ data <= PrefixLimit
                /\ names_offset = HeaderCells + count + 1
                /\ names_offset <= data /\ data <= Len(cells) /\ data <= size
                /\ offsets[1] = 0 /\ IsSorted(offsets, <=)
                /\ data + offsets[count + 1] <= size
                /\ read.ok /\ Len(read.names) = count
             THEN [ok |-> TRUE, data |-> data, logical |-> data + offsets[count + 1],
                   entries |-> [i \in 1..count |->
                       [name |-> read.names[i], offset |-> data + offsets[i],
                        size |-> offsets[i + 1] - offsets[i]]]]
             ELSE Refused

\* ReadDirectoryFromRange: a file or a source gives the header first, and then
\* no more than the header says.
ReadDirectoryFromRange(range) ==
    IF \/ Len(range) <= HeaderCells
       \/ range[5] \notin (HeaderCells + 1)..Len(range)
       \/ range[5] > PrefixLimit
    THEN Refused
    ELSE ParseDirectory(SubSeq(range, 1, range[5]), Len(range))

ZeroTail(cells, from) == \A i \in (from + 1)..Len(cells) : cells[i] = 0

\* HogIndex::Open and OpenRange: the directory alone; the archive ends with its
\* payload, or with zeros after it when it is a range of a larger file.
OpenIndex(cells, exact) ==
    LET parsed == ReadDirectoryFromRange(cells)
    IN  IF /\ parsed.ok
           /\ IF exact THEN parsed.logical = Len(cells) ELSE ZeroTail(cells, parsed.logical)
        THEN parsed ELSE Refused

\* HogArchive::Open, FromBytes (exact), OpenRange and FromSpan: all is read.
OpenArchive(cells, exact, maximum) ==
    LET parsed == ParseDirectory(cells, Len(cells))
    IN  IF /\ Len(cells) <= maximum
           /\ parsed.ok
           /\ IF exact THEN parsed.logical = Len(cells) ELSE ZeroTail(cells, parsed.logical)
        THEN parsed ELSE Refused

\* find: the first of a name.
FindEntry(parsed, name) ==
    LET i == SelectInSeq(parsed.entries, LAMBDA e : e.name = name)
    IN  IF i = 0 THEN Refused ELSE [ok |-> TRUE, entry |-> parsed.entries[i]]

\* HogArchive::payload.
Payload(cells, parsed, entry) ==
    IF /\ entry.offset \in parsed.data..parsed.logical
       /\ entry.size <= parsed.logical - entry.offset
    THEN SubSeq(cells, entry.offset + 1, entry.offset + entry.size) ELSE <<>>

\* HogMount::Create, MountedHogMount::Create and, without a root,
\* BuildArchiveDirectory: the entries by path, no two of which are one.
MountEntries(root, parsed) ==
    LET prefix == IF root = <<>> THEN <<>> ELSE Append(root, Slash)
        paths  == [i \in DOMAIN parsed.entries |-> NormalizeGamePath(parsed.entries[i].name)]
        full   == [i \in DOMAIN paths |-> prefix \o paths[i]]
    IN  IF /\ \A i \in DOMAIN paths : paths[i] # <<>> /\ Len(full[i]) <= PathLimit
           /\ IsInjective(full)
        THEN [ok |-> TRUE, files |-> [path \in ToSet(full) |->
                 parsed.entries[SelectInSeq(full, LAMBDA f : f = path)]]]
        ELSE Refused

-----------------------------------------------------------------------------
(* The directories of an ISO 9660 image.                                       *)

SectorSlots == 3
FirstDescriptorSector == 1

\* A slot; what is written twice, in both byte orders, is a pair.  plain: no
\* attributes, interleaving, further extents or volumes, and padded as it should.
ZeroSlot == [kind |-> "zero", width |-> 1, plain |-> FALSE, directory |-> FALSE,
             extent |-> <<0, 0>>, length |-> <<0, 0>>, name |-> <<>>]
DataSlot == [ZeroSlot EXCEPT !.kind = "data"]

\* A record with a longer name takes two slots.
RecordWidth(name) == IF Len(name) > 1 THEN 2 ELSE 1

\* ParseIso9660DirectoryRecord, with ReadBothEndianU32.
IsRecord(slot) ==
    /\ slot.kind = "record" /\ slot.plain /\ slot.name # <<>>
    /\ RecordWidth(slot.name) <= slot.width
    /\ slot.extent[1] = slot.extent[2] /\ slot.length[1] = slot.length[2]

\* ValidateIso9660Extent.
ExtentIsValid(sector, length, volume, image) ==
    sector * SectorSlots + length <= Min({volume, Len(image.slots)})

\* IsSpecialIso9660Identifier.
SpecialNames == {<<0>>, <<1>>}

\* NormalizeIso9660Identifier: one component, a file's without its version.
NormalizeIdentifier(name, directory) ==
    LET version  == <<59, 49>>
        stripped == IF ~directory /\ Len(name) > 2 /\ IsSuffix(version, name)
                    THEN SubSeq(name, 1, Len(name) - 2) ELSE name
    IN  IF \A i \in DOMAIN name : name[i] \in Printable \ Separators
        THEN NormalizeGamePath(stripped) ELSE <<>>

\* JoinIso9660Path.
JoinPath(parent, component) ==
    LET path == IF parent = <<>> THEN component ELSE parent \o <<Slash>> \o component
    IN  IF component # <<>> /\ Len(path) <= PathLimit THEN path ELSE <<>>

\* ReadIso9660PrimaryVolume: one primary descriptor before the end of the set,
\* nothing unknown among them; a volume within the image and a root within it.
ReadPrimaryVolume(image) ==
    LET all     == image.descriptors
        last    == SelectInSeq(all, LAMBDA d : d.type = 255)
        set     == SubSeq(all, 1, last)
        primary == SelectSeq(set, LAMBDA d : d.type = 1)
        volume  == primary[1].sectors[1] * SectorSlots
        root    == primary[1].root
        end     == (FirstDescriptorSector + last) * SectorSlots
    IN  IF /\ last \in 1..IsoLimits.descriptors
           /\ end <= Len(image.slots)
           /\ \A i \in DOMAIN set : set[i].plain /\ set[i].type \in {0, 1, 2, 3, 255}
           /\ Len(primary) = 1
           /\ primary[1].sectors[1] = primary[1].sectors[2] /\ volume > 0
           /\ volume <= Len(image.slots) /\ end <= volume
           /\ IsRecord(root) /\ root.directory /\ root.name = <<0>> /\ root.length[1] > 0
           /\ ExtentIsValid(root.extent[1], root.length[1], volume, image)
        THEN [ok |-> TRUE, volume |-> volume, root |-> root]
        ELSE Refused

\* A directory to be read: where it is, and where its parent is.
DirectoryTask(path, slot, parent, depth) ==
    [path |-> path, extent |-> slot.extent[1], length |-> slot.length[1],
     parent |-> <<parent.extent, parent.length>>, depth |-> depth]

SumLengths(directories) == FoldLeft(LAMBDA n, d : n + d.length, 0, directories)

\* "." and "..": first in their directory, and where the hierarchy has them.
SpecialIsSound(index, task, slot) ==
    /\ slot.directory /\ index.ordinal <= 1 /\ slot.name = <<index.ordinal>>
    /\ <<slot.extent[1], slot.length[1]>>
          = IF index.ordinal = 0 THEN <<task.extent, task.length>> ELSE task.parent

\* A plausible error: a directory may be where another one is.
DirectoryIsSoundAliased(index, task, slot) ==
    /\ slot.length[1] \in 1..IsoLimits.directory
    /\ task.depth < IsoLimits.depth
    /\ Len(index.directories) < IsoLimits.directories
    /\ SumLengths(index.directories) + slot.length[1] <= IsoLimits.all_directories

\* A directory within the budgets, where no other one is: there are no cycles.
DirectoryIsSound(index, task, slot) ==
    /\ slot.length[1] \in 1..IsoLimits.directory
    /\ task.depth < IsoLimits.depth
    /\ Len(index.directories) < IsoLimits.directories
    /\ SumLengths(index.directories) + slot.length[1] <= IsoLimits.all_directories
    /\ \A d \in ToSet(index.directories) : d.extent # slot.extent[1]

\* The record at a slot of a directory.
AddRecord(index, image, volume, task, slot) ==
    LET path  == JoinPath(task.path, NormalizeIdentifier(slot.name, slot.directory))
        taken == DOMAIN index.files \cup {d.path : d \in ToSet(index.directories)}
        next  == [index EXCEPT !.ordinal = @ + 1, !.records = @ + 1]
        named == [next EXCEPT !.names = @ + Len(slot.name)]
    IN  IF \/ ~IsRecord(slot) \/ index.records >= IsoLimits.records
           \/ ~ExtentIsValid(slot.extent[1], slot.length[1], volume, image)
        THEN [index EXCEPT !.ok = FALSE]
        ELSE IF slot.name \in SpecialNames
        THEN [next EXCEPT !.ok = SpecialIsSound(index, task, slot)]
        ELSE IF \/ index.ordinal < 2 \/ named.names > IsoLimits.names
                \/ path = <<>> \/ path \in taken
        THEN [index EXCEPT !.ok = FALSE]
        ELSE IF slot.directory
        THEN [named EXCEPT !.ok = DirectoryIsSound(index, task, slot),
                           !.directories = Append(@, DirectoryTask(path, slot, task,
                                                                   task.depth + 1))]
        ELSE [named EXCEPT !.files =
                 (path :> [offset |-> slot.extent[1] * SectorSlots,
                           size |-> slot.length[1]]) @@ @]

\* One directory, sector by sector: its records, then zeros to the sector's end;
\* no record crosses that end.
ReadIsoDirectory(index, image, volume, task) ==
    LET at(k) == image.slots[task.extent * SectorSlots + k + 1]
        end(k) == Min({task.length, (k \div SectorSlots + 1) * SectorSlots})
        step(read, k) ==
            IF ~read.ok \/ k < read.next THEN read
            ELSE IF at(k).kind = "zero"
            THEN [read EXCEPT !.ok = \A j \in k..(end(k) - 1) : at(j).kind = "zero",
                              !.next = end(k)]
            ELSE IF k + at(k).width > end(k) THEN [read EXCEPT !.ok = FALSE]
            ELSE [AddRecord(read, image, volume, task, at(k)) EXCEPT !.next = k + at(k).width]
        read == FoldLeft(step, [index EXCEPT !.ordinal = 0, !.next = 0],
                         [k \in 1..task.length |-> k - 1])
    IN  [read EXCEPT !.ok = @ /\ read.ordinal >= 2]

\* BuildIso9660Index: the directories in the order they are found.
BuildIndex(image) ==
    LET primary == ReadPrimaryVolume(image)
        root    == DirectoryTask(<<>>, primary.root,
                       [extent |-> primary.root.extent[1], length |-> primary.root.length[1]], 0)
        empty   == [ok |-> root.length <= IsoLimits.directory, directories |-> <<root>>,
                    files |-> <<>>, ordinal |-> 0, next |-> 0, records |-> 0, names |-> 0]
        step(index, i) ==
            IF ~index.ok \/ i > Len(index.directories) THEN index
            ELSE ReadIsoDirectory(index, image, primary.volume, index.directories[i])
    IN  IF primary.ok
        THEN FoldLeft(step, empty, [i \in 1..IsoLimits.directories |-> i])
        ELSE Refused

-----------------------------------------------------------------------------
(* What is written, for the readers above to read.                             *)

Sum(numbers) == FoldLeft(+, 0, numbers)
Zeros(n) == [i \in 1..n |-> 0]

\* The contents of a member: cells that are found nowhere else, and not zero.
Contents(layout, i) == [k \in 1..layout.members[i].size |-> 1000 * i + k]

\* An archive of these members, slack cells after the names and a tail of zeros.
WrittenArchive(layout) ==
    LET members == layout.members
        names   == FlattenSeq([i \in DOMAIN members |-> Append(members[i].name, 0)])
        first   == HeaderCells + Len(members) + 1
        offsets == [i \in 1..(Len(members) + 1) |->
                       Sum([k \in 1..(i - 1) |-> members[k].size])]
    IN  <<7, Len(members), HeaderCells, first, first + Len(names) + layout.slack>>
            \o offsets \o names \o Zeros(layout.slack)
            \o FlattenSeq([i \in DOMAIN members |-> Contents(layout, i)])
            \o Zeros(layout.tail)

\* The archive with one cell changed, or cut short.
DamagedArchives(cells) ==
    {[cells EXCEPT ![i] = word] : i \in DOMAIN cells, word \in DamagedWords}
        \cup {SubSeq(cells, 1, n) : n \in 0..(Len(cells) - 1)}

\* An archive of at most as many entries as there may be is read as it was
\* written, exactly if nothing follows it, and mounted if its paths differ.
ArchiveIsReadBack(layout) ==
    LET cells   == WrittenArchive(layout)
        members == layout.members
        read    == OpenIndex(cells, FALSE)
        mounted == MountEntries(<<>>, read)
        paths   == [i \in DOMAIN members |-> NormalizeGamePath(members[i].name)]
    IN  /\ read.ok = (/\ Len(members) <= EntryLimit /\ cells[5] <= PrefixLimit
                      /\ \A i \in DOMAIN members : Len(members[i].name) <= NameLimit)
        /\ read.ok =>
            /\ OpenIndex(cells, TRUE).ok = (layout.tail = 0)
            /\ ~OpenIndex(Append(cells, 1), FALSE).ok
            /\ \A i \in DOMAIN members :
                /\ read.entries[i].name = members[i].name
                /\ Payload(cells, read, read.entries[i]) = Contents(layout, i)
                /\ LET first == CHOOSE k \in 1..i : /\ members[k].name = members[i].name
                                                    /\ \A j \in 1..(k - 1) :
                                                          members[j].name # members[i].name
                   IN  FindEntry(read, members[i].name).entry = read.entries[first]
            /\ mounted.ok = (<<>> \notin ToSet(paths) /\ IsInjective(paths))
            /\ mounted.ok => \A i \in DOMAIN paths :
                   Payload(cells, read, mounted.files[paths[i]]) = Contents(layout, i)

\* Both readers take the same archives; in what they take, the entries follow
\* each other and fill the payload.
ArchiveIsSound(cells) ==
    LET read == OpenIndex(cells, FALSE)
        n    == Len(read.entries)
    IN  /\ read = OpenArchive(cells, FALSE, Len(cells))
        /\ read.ok =>
            /\ \A i \in 1..n :
                /\ Len(Payload(cells, read, read.entries[i])) = read.entries[i].size
                /\ read.entries[i].offset = IF i = 1 THEN read.data
                      ELSE read.entries[i - 1].offset + read.entries[i - 1].size
            /\ read.logical = read.data + Sum([i \in 1..n |-> read.entries[i].size])

\* An image holds a tree: nodes that name their parents, 0 for the root.
FirstDirectorySector == FirstDescriptorSector + 2

NodeChildren(tree, n) == SelectSeq([i \in DOMAIN tree |-> i], LAMBDA i : tree[i].parent = n)
IsNodeDirectory(tree, n) == IF n = 0 THEN TRUE ELSE tree[n].directory

\* Zeros up to the end of the sector.
Padded(slots) ==
    LET over == Len(slots) % SectorSlots
    IN  IF over = 0 THEN slots ELSE slots \o [i \in 1..(SectorSlots - over) |-> ZeroSlot]

\* No record crosses a sector's end.
DirectorySlots(records) ==
    LET add(slots, record) ==
            (IF (Len(slots) % SectorSlots) + record.width > SectorSlots THEN Padded(slots) ELSE slots)
                \o <<record>> \o [i \in 1..(record.width - 1) |-> DataSlot]
    IN  Padded(FoldLeft(add, <<>>, records))

NamedRecord(name) ==
    [ZeroSlot EXCEPT !.kind = "record", !.plain = TRUE, !.name = name, !.width = RecordWidth(name)]

NodeLength(tree, n) ==
    IF ~IsNodeDirectory(tree, n) THEN tree[n].size
    ELSE Len(DirectorySlots(<<NamedRecord(<<0>>), NamedRecord(<<1>>)>>
                \o [i \in DOMAIN NodeChildren(tree, n) |->
                       NamedRecord(tree[NodeChildren(tree, n)[i]].name)]))

NodeSectors(tree, n) == (NodeLength(tree, n) + SectorSlots - 1) \div SectorSlots

NodeExtent(tree, n) ==
    FirstDirectorySector + Sum([i \in 1..n |-> NodeSectors(tree, i - 1)])

NodeRecord(tree, n, name) ==
    [NamedRecord(name) EXCEPT !.directory = IsNodeDirectory(tree, n),
                              !.extent = <<NodeExtent(tree, n), NodeExtent(tree, n)>>,
                              !.length = <<NodeLength(tree, n), NodeLength(tree, n)>>]

NodeSlots(tree, n) ==
    LET children == NodeChildren(tree, n)
        up       == IF n = 0 THEN 0 ELSE tree[n].parent
    IN  IF IsNodeDirectory(tree, n)
        THEN DirectorySlots(<<NodeRecord(tree, n, <<0>>), NodeRecord(tree, up, <<1>>)>>
                 \o [i \in DOMAIN children |->
                        NodeRecord(tree, children[i], tree[children[i]].name)])
        ELSE Padded([i \in 1..tree[n].size |-> DataSlot])

WrittenImage(tree) ==
    LET sectors == NodeExtent(tree, Len(tree) + 1)
        descriptor(type) == [type |-> type, plain |-> TRUE, sectors |-> <<sectors, sectors>>,
                             root |-> NodeRecord(tree, 0, <<0>>)]
    IN  [descriptors |-> <<descriptor(1), descriptor(255)>>,
         slots |-> [i \in 1..(FirstDirectorySector * SectorSlots) |-> ZeroSlot]
                       \o FlattenSeq([i \in 1..(Len(tree) + 1) |-> NodeSlots(tree, i - 1)])]

\* The path of a node, if its parents have one.
NodePath[tree \in ImageTrees, n \in 0..MaxNodes] ==
    IF n = 0 THEN <<>>
    ELSE JoinPath(NodePath[tree, tree[n].parent], NormalizeIdentifier(tree[n].name, tree[n].directory))

NodeDepth[tree \in ImageTrees, n \in 0..MaxNodes] ==
    IF n = 0 THEN 0 ELSE 1 + NodeDepth[tree, tree[n].parent]

\* A tree that the code has room for.
TreeFits(tree) ==
    LET nodes       == DOMAIN tree
        directories == {n \in nodes : tree[n].directory}
        lengths     == [n \in {0} \cup directories |-> NodeLength(tree, n)]
    IN  /\ \A n \in nodes : NodePath[tree, n] # <<>>
        /\ \A n, k \in nodes : n # k => NodePath[tree, n] # NodePath[tree, k]
        /\ \A n \in directories : NodeDepth[tree, n] <= IsoLimits.depth
        /\ \A n \in DOMAIN lengths : lengths[n] <= IsoLimits.directory
        /\ Cardinality(directories) + 1 <= IsoLimits.directories
        /\ SumFunction(lengths) <= IsoLimits.all_directories
        /\ Len(tree) + 2 * (Cardinality(directories) + 1) <= IsoLimits.records
        /\ Sum([n \in nodes |-> Len(tree[n].name)]) <= IsoLimits.names

\* An image of a tree is read if the tree fits, and then as it was written.
ImageIsReadBack(tree) ==
    LET index == BuildIndex(WrittenImage(tree))
        files == {n \in DOMAIN tree : ~tree[n].directory}
    IN  /\ index.ok = TreeFits(tree)
        /\ index.ok =>
            /\ DOMAIN index.files = {NodePath[tree, n] : n \in files}
            /\ \A n \in files :
                  index.files[NodePath[tree, n]] =
                      [offset |-> NodeExtent(tree, n) * SectorSlots, size |-> tree[n].size]

\* What a damaged slot may hold instead: one field of its record is another, or
\* it is zero; a number is changed in one byte order or in both.
DamagedSlots(image, slot) ==
    LET words    == 0..(Len(image.slots) \div SectorSlots)
        pairs(p) == {<<w, w>> : w \in words} \cup {<<w, p[2]>> : w \in words}
    IN  {ZeroSlot, DataSlot, [slot EXCEPT !.plain = FALSE], [slot EXCEPT !.directory = ~@]}
        \cup {[slot EXCEPT !.width = w] : w \in 1..2}
        \cup {[slot EXCEPT !.extent = p] : p \in pairs(slot.extent)}
        \cup {[slot EXCEPT !.length = p] : p \in pairs(slot.length)}
        \cup {[slot EXCEPT !.name = other.name] : other \in ToSet(image.slots)}

\* The image with one record damaged, or cut short.
DamagedImages(image) ==
    UNION {{[image EXCEPT !.slots[i] = slot] : slot \in DamagedSlots(image, image.slots[i])} :
              i \in {k \in DOMAIN image.slots : image.slots[k].kind = "record"}}
        \cup {[image EXCEPT !.slots = SubSeq(@, 1, n)] : n \in 0..(Len(image.slots) - 1)}

\* Of whatever image is taken: every file lies within it, no file is a directory
\* of another one, and no record is listed twice.
ImageIsSound(image) ==
    LET index   == BuildIndex(image)
        records == {i \in DOMAIN image.slots : image.slots[i].kind = "record"
                                                   /\ ~image.slots[i].directory}
    IN  index.ok =>
            /\ \A path \in DOMAIN index.files :
                /\ index.files[path].offset + index.files[path].size <= Len(image.slots)
                /\ \A other \in DOMAIN index.files : ~IsStrictPrefix(Append(path, Slash), other)
            /\ Cardinality(DOMAIN index.files) <= Cardinality(records)

-----------------------------------------------------------------------------
(* Properties.                                                                 *)

\* A path that was made normal stays as it is, and no part of it leads out of
\* the mount.
PathsAreNormal ==
    \A path \in GamePaths :
        LET normal == NormalizeGamePath(path)
        IN  normal # <<>> =>
                /\ NormalizeGamePath(normal) = normal
                /\ Len(normal) <= Len(path)
                /\ Joined(Components(path)) = normal

\* Archives and images are read as they were written, and refused when they hold
\* what cannot be told apart or exceeds a limit; damaged ones are refused, or give
\* nothing from outside the container and nothing twice.
WrittenContainersAreReadBack ==
    /\ PathsAreNormal
    /\ \A layout \in ArchiveLayouts :
          LET cells == WrittenArchive(layout)
          IN  /\ ArchiveIsReadBack(layout)
              /\ \A damaged \in {cells} \cup DamagedArchives(cells) : ArchiveIsSound(damaged)
    /\ \A tree \in ImageTrees : ImageIsReadBack(tree)
    /\ \A tree \in DamagedTrees :
          \A damaged \in DamagedImages(WrittenImage(tree)) : ImageIsSound(damaged)

=============================================================================
