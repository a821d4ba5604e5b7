---------------------------- MODULE MountedSource ----------------------------
(***************************************************************************)
(* The virtual file system over one retail source: a directory tree or an  *)
(* ISO 9660 image that somebody else may replace, rewrite or remove at any *)
(* moment.  An image mount remembers the identity of the file it indexed   *)
(* and compares it around every read; a directory mount resolves its files *)
(* again at every read.  The archive of opening movies is mounted through  *)
(* the mount that holds it.                                                *)
(*                                                                         *)
(* A call of the file system is the list of the system calls it has left.  *)
(* What is read is represented by the version of the source it came from.  *)
(***************************************************************************)
EXTENDS Naturals, Sequences

CONSTANTS
    Services,       \* the services that may be opened, each at most once
    MaxVersion,     \* bound on the versions the source path ever holds
    ArchiveBytes    \* version |-> size of the movie archive in that version

VARIABLES
    disk,           \* what is at the source path now
    mounts,         \* service |-> its frozen mounts
    io              \* the file system call in progress

sourceVars == <<disk, mounts, io>>

Versions == 1..MaxVersion

NoMount == [identity |-> 0, archive_bytes |-> 0]
NoCall  == [left |-> <<>>, identity |-> 0, size |-> 0, stream |-> 0, seen |-> {}]

-----------------------------------------------------------------------------
(* The source.  Versions are never repeated: a file that was replaced or     *)
(* rewritten has another size or another time of modification.               *)

Replace ==
    /\ disk.version < MaxVersion
    /\ disk' = [disk EXCEPT !.present = TRUE, !.version = @ + 1]
    /\ UNCHANGED <<mounts, io>>

Withdraw ==
    /\ disk.present
    /\ disk' = [disk EXCEPT !.present = FALSE]
    /\ UNCHANGED <<mounts, io>>

-----------------------------------------------------------------------------
(* The calls, as the system calls they make.                                 *)

IsImage == disk.kind = "image"

\* A plausible error: one comparison, before the image is opened by its name.
ImageReadUnchecked == <<"identify", "open", "read">>

\* Iso9660Mount::ReadFileRange: the identity of the image is compared with the
\* mounted one before the stream is opened and after the bytes were read.
ImageRead == <<"identify", "open", "read", "identify">>

\* DirectoryMount::Read and ReadFileRange: path and size are resolved, then
\* the file is opened and read; nothing compares it with what was enumerated.
TreeRead == <<"resolve", "open", "read">>

ReadFile == IF IsImage THEN ImageRead ELSE TreeRead
FileSize == IF IsImage THEN <<"identify">> ELSE <<"resolve">>

\* The volume descriptors and the tree of directories.
ReadVolume == <<"read">>
ReadIndex  == <<"read">>

\* Iso9660Mount::Create: the path and its canonical form name the same file,
\* and the file is still that one after it was read.
MountImage == <<"query", "compare", "open">> \o ReadVolume \o ReadIndex \o <<"compare">>

MountTree == <<"enumerate">>

\* HogIndex: the header of an archive, then its entries and names.
IndexArchive == ReadFile \o ReadFile

\* MountedHogMount::Create: the size of the archive, then its index.
MountArchive == <<"measure">> \o IndexArchive

\* MountedHogMount::FileSize and ReadFileRange: the archive must have the size
\* it had when it was indexed, then the range is read from the mount below it.
MemberSize == <<"same size">>
ReadMember == <<"same size">> \o ReadFile

-----------------------------------------------------------------------------
(* The steps of a call.  s is the service whose mounts are used.             *)

\* What earlier calls of the same load have read stays noted.
Begin(calls) == io' = [NoCall EXCEPT !.left = calls, !.seen = io.seen]

InCall == io.left # <<>>

At(call) == InCall /\ Head(io.left) = call

\* The current file is the one the image mount indexed.
Mounted(s) == disk.present /\ disk.version = mounts[s].identity

\* QueryIso9660ImageIdentity, remembered by Create.
Query ==
    /\ At("query") /\ disk.present
    /\ io' = [io EXCEPT !.left = Tail(@), !.identity = disk.version]

Compare ==
    /\ At("compare") /\ disk.present /\ disk.version = io.identity
    /\ io' = [io EXCEPT !.left = Tail(@)]

Identify(s) ==
    /\ At("identify") /\ Mounted(s)
    /\ io' = [io EXCEPT !.left = Tail(@)]

Resolve ==
    /\ At("resolve") /\ disk.present
    /\ io' = [io EXCEPT !.left = Tail(@)]

Enumerate ==
    /\ At("enumerate") /\ disk.present
    /\ io' = [io EXCEPT !.left = Tail(@), !.identity = disk.version]

Measure(s) ==
    /\ At("measure") /\ disk.present /\ (IsImage => Mounted(s))
    /\ io' = [io EXCEPT !.left = Tail(@), !.size = ArchiveBytes[disk.version]]

SameSize(s) ==
    /\ At("same size") /\ disk.present /\ (IsImage => Mounted(s))
    /\ ArchiveBytes[disk.version] = mounts[s].archive_bytes
    /\ io' = [io EXCEPT !.left = Tail(@)]

OpenStream ==
    /\ At("open") /\ disk.present
    /\ io' = [io EXCEPT !.left = Tail(@), !.stream = disk.version]

\* A source that was rewritten in place shows its new bytes to a stream opened
\* before, one that was renamed over keeps its old ones.
ReadBytes ==
    /\ At("read")
    /\ \E version \in {io.stream, disk.version} :
          io' = [io EXCEPT !.left = Tail(@), !.seen = @ \cup {version}]

FileSystemStep(s) ==
    /\ \/ Query \/ Compare \/ Enumerate \/ Resolve \/ OpenStream \/ ReadBytes
       \/ Identify(s) \/ Measure(s) \/ SameSize(s)
    /\ UNCHANGED <<disk, mounts>>

=============================================================================
