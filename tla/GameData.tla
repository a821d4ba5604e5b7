------------------------------- MODULE GameData -------------------------------
(***************************************************************************)
(* GameDataService and LevelTextureStore over the mounted source, and the  *)
(* budgets their loads run under.  A load is the list of what it has left  *)
(* to do: reads of the source, debits against its allowance, workspaces    *)
(* held until the end of a block, decodes.  Each may fail, which ends the  *)
(* load without a result.                                                  *)
(*                                                                         *)
(* Two accounts are kept: the budget the code keeps, and what the load     *)
(* really spent and holds.  Input bytes, items and output bytes are        *)
(* debited alike: one number stands for the three.                         *)
(***************************************************************************)
EXTENDS MountedSource, SequencesExt, FiniteSetsExt

CONSTANTS
    Allowance,      \* the limit on a load's input, items and output
    Scratch,        \* the limit on its scratch memory
    Amounts,        \* the sizes of what it reads and builds
    MaxParts        \* bound on the cells, sources, scopes and fonts of a load

VARIABLES
    services,       \* service |-> whether it is open, and its movie archive
    store,          \* the level texture store, when there is one
    load,           \* the load in progress
    budget,         \* the account the code keeps of it
    resolver,       \* the account of its ResolveSourceLocator in progress
    actual,         \* what it really spent and holds
    result          \* the load that succeeded last

loadVars == <<load, budget, resolver, actual>>
vars == <<disk, mounts, io, services, store, load, budget, resolver, actual, result>>

NewService == [state |-> "new", movie |-> "Missing"]
NoStore    == [source |-> "none", seen |-> {}]
NoLoad     == [op |-> "none", service |-> "none", todo |-> <<>>]
NoResult   == [service |-> "none", seen |-> {}]

\* What an operation starts with: its limits, and nothing used.
FullBudget == [left |-> Allowance, scratch |-> Scratch, retained |-> 0, marks |-> <<>>]
NoResolver == [input |-> 0, terminal |-> 0, locator |-> 0, directory |-> 0, peak |-> 0]
NothingYet == [spent |-> 0, held |-> <<>>, blocks |-> <<>>, high |-> 0]

Parts(n, steps) == FlattenSeq([i \in 1..n |-> steps])

-----------------------------------------------------------------------------
(* What each load does, in the order of the code.                            *)

\* GameDataService::Open.
OpenPlan == <<"mount", "mounted", "mount archive", "archive mounted", "file", "validate">>

\* ResolveSourceLocator of a file, or of a member below n archives.
ResolvePlan(n) == <<"locator", "file">> \o Parts(n, <<"ancestor", "index">>) \o <<"terminal">>

\* The one component that names an opening movie: its size against the limit,
\* then the member.
ResolveMovie == <<"locator", "member size", "terminal", "member">>

\* LoadLevelManifest: the two texture sources are debited before the reads.
ManifestPlan == <<"debit", "file", "file", "decode">>

\* The level archive and the cells in it; decoders is the number of members
\* each cell has decoded.
LevelPlan(nested, cells, decoders) ==
    <<"debit", "file", "debit">> \o Parts(nested, <<"debit">>)
        \o Parts(cells, <<"debit">> \o Parts(decoders, <<"decode">>))

\* LevelTextureStore::Open: the workspace of the source list stays resident
\* while every source is resolved and inventoried.
StorePlan(sources, textures) ==
    <<"debit", "observe", "hold">>
        \o Parts(sources, ResolvePlan(0) \o <<"resolved", "input", "observe">>
                              \o Parts(textures, <<"debit">>))

\* LevelTextureStore::Load.
TexturePlan == ResolvePlan(1) \o <<"resolved", "decode", "input">>

\* read_direct: the size against what is left, then the file.
ReadDirect == <<"size">> \o ResolvePlan(0) \o <<"resolved">>

\* CommitFrontEndArchiveInput and BuildFrontEndArchiveDirectory.
FrontEndArchive == <<"input", "hold">>

\* The copy of the screen's archive, its directory, its GUI and its visuals.
ScreenDocuments == <<"hold", "debit", "hold", "decode", "decode">>

\* What the documents refer to: textures, fonts and the resources of scopes.
References == <<"hold", "hold", "hold">>

\* The textures of the screen, and its own scope.
ScreenTextures(textures) == Parts(textures, <<"decode">>) \o <<"debit">>

\* A plausible error: the checkpoint is taken after the archive was copied.
ScopePlanMarkingLate(textures) ==
    <<"enter", "hold", "mark", "debit", "hold", "decode", "hold">>
        \o Parts(textures, <<"decode">>) \o <<"debit", "leave">>

\* One more visual scope: the copy of its archive, its directory, its visuals
\* and its textures; the workspaces are given back at the end of the loop's body.
ScopePlan(textures) ==
    <<"enter", "mark", "hold", "debit", "hold", "decode", "hold">>
        \o Parts(textures, <<"decode">>) \o <<"debit", "leave">>

\* The font archive, its fonts and their atlases, in a block of their own.
FontPlan(fonts) ==
    <<"enter", "mark">> \o ReadDirect \o FrontEndArchive
        \o Parts(fonts, <<"decode">>) \o <<"hold">> \o Parts(fonts, <<"decode">>)
        \o <<"leave">>

\* The sorting of its keys needs memory beside what is held.
StringTable == ReadDirect \o <<"observe", "input">>

\* LoadFrontEndScreen.
FrontEndPlan(textures, scopes, fonts) ==
    <<"debit">> \o ReadDirect \o FrontEndArchive \o ScreenDocuments \o References
        \o ScreenTextures(textures) \o Parts(scopes, ScopePlan(textures))
        \o (IF fonts = 0 THEN <<>> ELSE FontPlan(fonts)) \o StringTable

-----------------------------------------------------------------------------
(* The calls of the program.                                                 *)

Idle == load.op = "none"

Start(op, s, plan) ==
    /\ Idle
    /\ load' = [op |-> op, service |-> s, todo |-> plan]
    /\ budget' = FullBudget
    /\ resolver' = NoResolver
    /\ actual' = NothingYet
    /\ io' = NoCall
    /\ result' = NoResult
    /\ UNCHANGED <<disk, mounts, services, store>>

IsOpen(s) == services[s].state = "open"

Open(s) == services[s].state = "new" /\ Start("Open", s, OpenPlan)

\* The service is destroyed with its mounts; every binding to it expires.
Close(s) ==
    /\ Idle /\ IsOpen(s)
    /\ services' = [services EXCEPT ![s] = [NewService EXCEPT !.state = "closed"]]
    /\ mounts' = [mounts EXCEPT ![s] = NoMount]
    /\ result' = NoResult
    /\ UNCHANGED <<disk, io, store, loadVars>>

LoadLevelManifest(s) == IsOpen(s) /\ Start("LoadLevelManifest", s, ManifestPlan)

LoadLevelSpatial(s) ==
    /\ IsOpen(s)
    /\ \E nested \in 0..1, cells \in 0..MaxParts :
          Start("LoadLevelSpatial", s, LevelPlan(nested, cells, 1))

LoadLevelMaterialCatalogs(s) ==
    /\ IsOpen(s)
    /\ \E nested \in 0..1, cells \in 0..MaxParts :
          Start("LoadLevelMaterialCatalogs", s, LevelPlan(nested, cells, 1))

LoadLevelContent(s) ==
    /\ IsOpen(s)
    /\ \E nested \in 0..1, cells \in 0..MaxParts :
          Start("LoadLevelContent", s, LevelPlan(nested, cells, 2))

LoadFrontEndScreen(s) ==
    /\ IsOpen(s)
    /\ \E textures \in 0..1, scopes \in 0..MaxParts, fonts \in 0..1 :
          Start("LoadFrontEndScreen", s, FrontEndPlan(textures, scopes, fonts))

\* Without a mounted movie archive the locator is refused before any read.
LoadOpeningMovieSource(s) ==
    /\ IsOpen(s) /\ services[s].movie = "Ready"
    /\ Start("LoadOpeningMovieSource", s, ResolveMovie)

OpenStore(s) ==
    /\ IsOpen(s)
    /\ \E sources \in 1..MaxParts, textures \in 0..1 :
          Start("OpenStore", s, StorePlan(sources, textures))

\* The service must be the very one the store was opened with, and alive.
SourceBound(s) == store # NoStore /\ store.source = s /\ IsOpen(s)

LoadTexture(s) == SourceBound(s) /\ Start("LoadTexture", s, TexturePlan)

-----------------------------------------------------------------------------
(* The steps of a load.                                                      *)

UpNext(step) == load.todo # <<>> /\ Head(load.todo) = step

\* The next thing to do, once the file system has answered.
Doing(step) == UpNext(step) /\ ~InCall

Done == load' = [load EXCEPT !.todo = Tail(@)]

\* The accounts after amount was debited, or a workspace was held, for what
\* was really spent or allocated.
Debit(amount)  == budget' = [budget EXCEPT !.left = @ - amount]
Spends(amount) == [actual EXCEPT !.spent = @ + amount]

Total(sizes) == FoldLeft(LAMBDA a, b : a + b, 0, sizes)

\* The scratch really in use, with more of it.
Live(more) == Total(actual.held) + resolver.locator + resolver.directory + more
Highest(more) == Max({actual.high, Live(more)})

UnchangedOutside == UNCHANGED <<disk, mounts, services, store, result>>

\* A file system call begins; every other step waits for its end.
BeginCall ==
    /\ \/ Doing("mount")         /\ Begin(IF IsImage THEN MountImage ELSE MountTree)
       \/ Doing("mount archive") /\ Begin(MountArchive)
       \/ Doing("file")          /\ Begin(ReadFile)
       \/ Doing("size")          /\ Begin(FileSize)
       \/ Doing("member size")   /\ Begin(MemberSize)
       \/ Doing("member")        /\ Begin(ReadMember)
    /\ Done
    /\ UNCHANGED <<budget, resolver, actual>> /\ UnchangedOutside

\* The first mount of the service.
SourceMounted ==
    /\ Doing("mounted") /\ Done
    /\ mounts' = [mounts EXCEPT ![load.service].identity = io.identity]
    /\ UNCHANGED <<disk, io, services, store, budget, resolver, actual, result>>

\* The movie archive is mounted, or it is malformed; the mounts are frozen.
ArchiveMounted ==
    /\ Doing("archive mounted") /\ Done
    /\ \/ /\ mounts' = [mounts EXCEPT ![load.service].archive_bytes = io.size]
          /\ services' = [services EXCEPT ![load.service].movie = "Ready"]
       \/ /\ services' = [services EXCEPT ![load.service].movie = "Unavailable"]
          /\ UNCHANGED mounts
    /\ UNCHANGED <<disk, io, store, budget, resolver, actual, result>>

\* A missing or unreadable movie archive does not fail Open.
ArchiveNotMounted ==
    /\ \/ /\ Doing("mount archive")
          /\ load' = [load EXCEPT !.todo = Tail(Tail(@))]
          /\ UNCHANGED services
       \/ /\ UpNext("archive mounted") /\ InCall
          /\ Done
          /\ services' = [services EXCEPT ![load.service].movie = "Unavailable"]
    /\ io' = [io EXCEPT !.left = <<>>]
    /\ UNCHANGED <<disk, mounts, store, budget, resolver, actual, result>>

\* Input bytes, items or output bytes: what was just built, or read and not
\* yet debited.
DebitBuilt ==
    /\ Doing("debit") /\ Done
    /\ \E amount \in Amounts :
          /\ amount <= budget.left
          /\ Debit(amount)
          /\ actual' = Spends(amount)
    /\ UNCHANGED <<io, resolver>> /\ UnchangedOutside

\* Debits the file that was resolved, with the items its header announces.
DebitInput ==
    /\ Doing("input") /\ Done
    /\ \E items \in Amounts :
          /\ resolver.terminal + items <= budget.left
          /\ Debit(resolver.terminal + items)
          /\ actual' = Spends(items)
    /\ resolver' = NoResolver
    /\ UNCHANGED io /\ UnchangedOutside

\* CommitRetained: a workspace that lives until the end of its block.
Hold ==
    /\ Doing("hold") /\ Done
    /\ \E amount \in Amounts :
          /\ amount <= budget.scratch
          /\ budget' = [budget EXCEPT !.scratch = @ - amount, !.retained = @ + amount]
          /\ actual' = [actual EXCEPT !.held = Append(@, amount), !.high = Highest(amount)]
    /\ UNCHANGED <<io, resolver>> /\ UnchangedOutside

\* ObserveScratch: a workspace of this step alone, beside what is held.
Observe ==
    /\ Doing("observe") /\ Done
    /\ \E amount \in Amounts :
          /\ amount <= budget.scratch
          /\ actual' = [actual EXCEPT !.high = Highest(amount)]
    /\ UNCHANGED <<io, budget, resolver>> /\ UnchangedOutside

\* A decoder runs with what is left as its limits, then its result is debited; what a
\* texture is decoded from counts against them, and is debited with it.
Decode ==
    /\ Doing("decode") /\ Done
    /\ \E amount, scratch \in Amounts :
          /\ resolver.terminal + amount <= budget.left /\ scratch <= budget.scratch
          /\ Debit(amount)
          /\ actual' = [Spends(amount) EXCEPT !.high = Highest(scratch)]
    /\ UNCHANGED <<io, resolver>> /\ UnchangedOutside

\* A block begins whose locals will be destroyed at its end.
Enter ==
    /\ Doing("enter") /\ Done
    /\ actual' = [actual EXCEPT !.blocks = Append(@, Len(actual.held))]
    /\ UNCHANGED <<io, budget, resolver>> /\ UnchangedOutside

\* MakeRetainedScratchCheckpoint.
Mark ==
    /\ Doing("mark") /\ Done
    /\ budget' = [budget EXCEPT !.marks = Append(@, budget.retained)]
    /\ UNCHANGED <<io, resolver, actual>> /\ UnchangedOutside

\* The locals are destroyed, and with them the checkpoint.
Leave ==
    /\ Doing("leave") /\ Done
    /\ budget' = [budget EXCEPT !.marks = Front(@), !.retained = Last(budget.marks),
                                !.scratch = Scratch - Last(budget.marks)]
    /\ actual' = [actual EXCEPT !.held = SubSeq(@, 1, Last(actual.blocks)),
                                !.blocks = Front(@)]
    /\ UNCHANGED <<io, resolver>> /\ UnchangedOutside

-----------------------------------------------------------------------------
(* ResolveSourceLocator runs with the limits its caller has left.            *)

\* The normalized locator.
Locator ==
    /\ Doing("locator") /\ Done
    /\ \E amount \in Amounts :
          /\ amount <= budget.scratch
          /\ resolver' = [NoResolver EXCEPT !.locator = amount, !.peak = amount]
          /\ actual' = [actual EXCEPT !.high = Max({@, amount + Total(actual.held)})]
    /\ UNCHANGED <<io, budget>> /\ UnchangedOutside

\* SourceResolveBudget::ConsumeAncestorArchive.
Ancestor ==
    /\ Doing("ancestor") /\ Done
    /\ \E amount \in Amounts :
          /\ resolver.input + amount <= budget.left
          /\ resolver' = [resolver EXCEPT !.input = @ + amount, !.directory = 0]
          /\ actual' = Spends(amount)
    /\ UNCHANGED <<io, budget>> /\ UnchangedOutside

\* BuildMeasuredArchiveDirectory.
Index ==
    /\ Doing("index") /\ Done
    /\ \E amount \in Amounts :
          /\ resolver.locator + amount <= budget.scratch
          /\ resolver' = [resolver EXCEPT !.directory = amount,
                             !.peak = Max({@, resolver.locator + amount})]
          /\ actual' = [actual EXCEPT !.high = Highest(amount)]
    /\ UNCHANGED <<io, budget>> /\ UnchangedOutside

\* SourceResolveBudget::CheckTerminal, and the member that is returned.
Terminal ==
    /\ Doing("terminal") /\ Done
    /\ \E amount \in Amounts :
          /\ resolver.input + amount <= budget.left
          /\ resolver' = [resolver EXCEPT !.terminal = amount]
          /\ actual' = Spends(amount)
    /\ UNCHANGED <<io, budget>> /\ UnchangedOutside

\* The caller takes over the resolver's usage; its workspaces are gone.
Resolved ==
    /\ Doing("resolved") /\ Done
    /\ resolver.peak <= budget.scratch /\ resolver.input <= budget.left
    /\ Debit(resolver.input)
    /\ resolver' = [NoResolver EXCEPT !.terminal = resolver.terminal]
    /\ UNCHANGED <<io, actual>> /\ UnchangedOutside

-----------------------------------------------------------------------------
(* The end of a load.                                                        *)

Ended ==
    /\ load' = NoLoad
    /\ budget' = FullBudget
    /\ resolver' = NoResolver
    /\ actual' = NothingYet
    /\ io' = NoCall

\* SYSTEM.CNF is the expected one, and the executable it names is there.
Opened ==
    /\ Doing("validate")
    /\ services' = [services EXCEPT ![load.service].state = "open"]
    /\ result' = [service |-> load.service, seen |-> io.seen]
    /\ Ended
    /\ UNCHANGED <<disk, mounts, store>>

LoadSucceeds ==
    /\ ~Idle /\ load.todo = <<>> /\ ~InCall
    /\ LET seen == IF load.op = "LoadTexture" THEN io.seen \cup store.seen ELSE io.seen
       IN  /\ result' = [service |-> load.service, seen |-> seen]
           /\ store' = IF load.op = "OpenStore"
                          THEN [source |-> load.service, seen |-> seen] ELSE store
    /\ Ended
    /\ UNCHANGED <<disk, mounts, services>>

\* A read fails, a limit is exceeded, what was read is malformed: at any step.
\* A service that was being opened is destroyed with its mounts.
LoadFails ==
    /\ ~Idle
    /\ IF load.op = "Open"
          THEN /\ mounts' = [mounts EXCEPT ![load.service] = NoMount]
               /\ services' = [services EXCEPT ![load.service] = NewService]
          ELSE UNCHANGED <<mounts, services>>
    /\ Ended
    /\ UNCHANGED <<disk, store, result>>

-----------------------------------------------------------------------------
Init ==
    /\ disk \in [kind : {"image", "tree"}, present : {TRUE}, version : {1}]
    /\ mounts = [s \in Services |-> NoMount]
    /\ services = [s \in Services |-> NewService]
    /\ store = NoStore
    /\ load = NoLoad
    /\ budget = FullBudget /\ resolver = NoResolver /\ actual = NothingYet
    /\ io = NoCall
    /\ result = NoResult

Calls(s) ==
    \/ Open(s) \/ Close(s) \/ OpenStore(s) \/ LoadTexture(s)
    \/ LoadLevelManifest(s) \/ LoadLevelSpatial(s) \/ LoadLevelMaterialCatalogs(s)
    \/ LoadLevelContent(s) \/ LoadFrontEndScreen(s) \/ LoadOpeningMovieSource(s)

Steps ==
    \/ BeginCall \/ SourceMounted \/ ArchiveMounted \/ ArchiveNotMounted
    \/ DebitBuilt \/ DebitInput \/ Hold \/ Observe \/ Decode
    \/ Enter \/ Mark \/ Leave
    \/ Locator \/ Ancestor \/ Index \/ Terminal \/ Resolved
    \/ Opened \/ LoadSucceeds \/ LoadFails

\* The file system at work, and whoever else may touch the source.
SourceSteps ==
    /\ \/ ~Idle /\ FileSystemStep(load.service)
       \/ Replace
       \/ Withdraw
    /\ UNCHANGED <<services, store, load, budget, resolver, actual, result>>

Next == (\E s \in Services : Calls(s)) \/ Steps \/ SourceSteps

Spec == Init /\ [][Next]_vars

-----------------------------------------------------------------------------
(* What a caller may rely on.                                                *)

\* Whatever was replaced or rewritten meanwhile, all that a successful load
\* returns was read from the very image its service was opened on, what the
\* texture store read when it was opened included.  (A directory tree gives no
\* such promise, and the code makes none for it.)
LoadsComeFromTheMountedImage ==
    IsImage /\ result # NoResult => result.seen = {mounts[result.service].identity}

\* However its workspaces nest, a load never holds more scratch memory than
\* its limit nor spends more than its allowance, and what its budget says is
\* retained is what it holds: scratch taken back is really free, and nothing
\* given back stays taken.
LoadsStayWithinTheirAllowance ==
    /\ actual.high <= Scratch
    /\ actual.spent <= Allowance
    /\ budget.retained = Total(actual.held)
    /\ budget.scratch + budget.retained = Scratch

=============================================================================
