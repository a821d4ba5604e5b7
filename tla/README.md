# OpenOmega in TLA+

A verification development for the native port (`src/native`): TLA+ modules translated from
its C++ sources, TLC instances that check them, and proofs that TLAPS checks for every value
of the constants. `PROJECT.json` lists the runs, the mutated definitions that show what each
property can detect, the source lines of every definition, the hazards and the theorems; this
file explains them. All paths below are relative to `src/native` unless they say otherwise.

Contents: [1 Components](#1-components), [2 Modules](#2-modules),
[3 Correspondence](#3-correspondence-to-the-code), [4 Runs](#4-runs),
[5 Fairness](#5-fairness), [6 Proofs](#6-proofs), [7 Findings](#7-findings),
[8 Limits of the models](#8-limits-of-the-models), [9 Plan](#9-plan).

## 1 Components

The program is one process with a game thread (the SDL main loop), a pool of worker threads,
and an audio thread that SDL owns; the GPU works on what the game thread submitted. The state
that lasts lives in one save directory; the rest is owned by services the game thread creates
at startup and destroys in reverse order.

    main / OmegaApp (game thread)
      |-- NativePersistence --> profile and character catalogs --> SaveDatabase --> disk
      |-- AssetService --> JobService (worker threads)
      |-- GameDataService, LevelTextureStore --> VirtualFileSystem --> image or directory
      |-- opening movie player --> movie file, decoder
      |-- SdlAudioService <--(SDL audio thread)-- ring of PCM frames <-- opening movie player
      |-- SdlInputService --> InputTracker; FrameScheduler; run capture, replayed by main
      |-- SimulationWorld, the diagnostic gameplay systems
      |-- front-end reducer and presentations --> SdlGpuHost --> render pools, GPU

### Modelled

**Save database** (`src/persistence/save_database.cpp`). State: a directory, a lock file, two
snapshot slots, and in each owner the active slot, the generation, the records and a usable
flag. Operations: `Open` (create and synchronize the directory, lock, read both slots, create
or repair the genesis, choose a slot), `Commit` (judge a batch, publish a whole new snapshot
over the inactive slot), `Read` and `List` (of the in-memory snapshot), destruction.
Hard: a crash or a power loss between any two system calls; an error from the one call after
which nobody knows whether the file was replaced; a second process; damage to one slot.
Correct when an acknowledged commit survives whatever happens, what an instance serves is
what the disk holds, and nothing but a whole valid batch ever changes the snapshot.

**Profile and character catalogs, native persistence** (`src/profiles/*.cpp`,
`apps/openomega/native_persistence.cpp`, the profile commands of `omega_app.cpp`). State: typed
records (markers, `profiles/active`, `profiles/active-character`, checkpoints), the owner's
cache of the confirmed pointers with their revisions, the identities of the session. The records'
keys and bytes are formats of their own: names in UTF-8, identifiers, magic numbers, versions. Hard: records that must agree with each other are written by different operations, any commit
may fail or end open, and another user of `database()` may write behind the owner's back.
Correct when the program never writes what its next start refuses, the cache agrees with the
records, the session never claims what the database does not hold, and a start accepts a database
exactly if every record in it is one the program could have written.

**Memory card compatibility** (`src/compat/*.cpp`). No state: a save directory is laid out on a card
with its allocation table, a card is checked, converted with and without its error correction,
and its directories and files are read back. Hard: chains that are crossed, cyclic, short or long;
limits that are reached by one; damage of a single bit. Correct when every card written is read
back, and whatever is read from a damaged one lies within it and belongs to one file.

**Job service** (`src/runtime/job_service.cpp`). State: a bounded FIFO, counters, the accepting
and stopping flags, two condition variables, the threads. Hard: lost wakeups, jobs that throw or
submit, destruction of a partly created pool. Correct when every accepted job runs once in
order, nobody sleeps while there is work for it, and waiting ends.

**Asset service** (`src/runtime/asset_service.cpp`). State: slots with generations, a free list,
counters, a byte budget; the jobs it has in the pool. Hard: the lock is dropped around the
submission; loads finish together at the edge of the budget; generations run out. Correct when
its guards never terminate the process, the counters are those of the slots, a reference stays
valid until its handle is released and a handle is never reused.

**Opening movie** (`apps/openomega/opening_movie_player.cpp`, `opening_movie_audio_clock.h`,
`opening_movie_audio_fault.h`, `boot_sequence.h`, and the movie's part of `omega_app.cpp`), with
its **audio service** (`sdl_audio_service.cpp`), **picture decoder**
(`src/media/media_foundation_h262_decoder.cpp`) and **parsers** (`src/media/mpeg_*.cpp`,
`pss_pcm_audio_stream.cpp`, `opening_movie_safety.cpp`). State: a file cut into packets, the
player's queue of pictures and PCM cursor, the decoder's clock, a ring with two sequences, the
audio clock that drives the player, the boot sequence. Hard: three parties that fail or stall
independently; a callback that reads several atomics one after the other; containment by four
SDL calls; a PCM cursor that moved before the ring answered; rounding at three rates; packets
that end anywhere. Correct when a file is read as it was written, the movie is heard and shown
in order, whole and in time, its faults end the movie and never the session, and the menu is
always reached.

**Run loop, capture and replay** (`omega_app.cpp`: `Run`, `RunWithCapture`, `RunLoop`;
`front_end.h`; `src/runtime/frame_scheduler.cpp`, `input_trace.cpp`,
`scheduler_elapsed_trace.cpp`, `run_capture_*.cpp`; `src/gameplay/*.cpp`;
`run_replay_session.cpp`). State: the menu, the confirmed identities, the mission with its
objective and target, accumulated time, two traces that must stay in step; in the replay a
mirror of all of it, without a store behind it. Hard: a frame may be left between any two of
its parts; commands are refused, carried out, or carried out and reported as failed. Correct
when play is authorized, the menu shows what is stored, no time is lost or invented, and a
replay of a capture is the run again.

**Input** (`src/runtime/input_tracker.cpp`, `apps/openomega/sdl_input_service.cpp`). State:
controls that are down, holders per action, edges, the primary pad, SDL's queue. Hard: events
over the budget, lost focus and unplugged pads each swallow a release. Correct when nothing stays
down by itself and the edges tell every change.

**Render pools, GPU host, presentations** (`src/runtime/render_*_pool.cpp`,
`apps/openomega/sdl_gpu_host.cpp`, the presentations of `omega_app.cpp`, with the decoded preview
and screenshots). State: slots reserved, resident and retired; the SDL object behind each;
command buffers in flight; the pictures the application holds, and what they show. Hard:
uploads, swaps and releases each fail half-way while the GPU still uses the old objects;
generations run out. Correct when what is shown is current, work in flight keeps its objects
and nothing is leaked.

**Simulation** (`src/simulation`, `component_store.h`). State: entity slots with generations and
a free list, a sparse store of positions, a clock. Hard: two stores kept in step by hand, each
with a capacity. Correct when it is what a caller sees through identities alone.

**Virtual file system, game data, level textures** (`src/vfs`, `src/content`). State: mounts with
the identity of the image they indexed, services and stores opened over them, a load with its
allowance and its scratch account. Hard: the source may be replaced between any two system
calls; workspaces are given back by scope; the tables of archives and images are somebody
else's bytes. Correct when a load never mixes two images and never exceeds its limits, a table
is read as it was written, and what is read from a damaged one stays inside its file.

**Startup, settings and command line** (`src/runtime/launch_options.cpp`, `config_service.cpp`,
`runtime_settings.cpp`, `apps/openomega/main.cpp`, `OmegaApp::Create` and its destructor,
`content_startup.cpp`, `startup_failure_dialog.cpp`, with `sdl_platform_service.cpp`). State: the
arguments, the settings file, the merged launch, the owners that are alive, the dialog.
Operations: parse and judge the command line, read and override the settings, merge the content
they select, build a dozen owners, run, tear down, report. Hard: three sources of settings with
rules across them; every step may fail, and what was built goes in reverse; a failure is shown
to the user before or after that. Correct when every owner outlives what uses it, nothing is left
of a process that ended, and a process that fails says so once.

**Launcher** (`apps/openomega_launcher`). State: a window, the preferences it shows, whether
their data was opened, the settings file it shares with the game and with an editor, the game's
process. Operations: remember, validate, save atomically, start, hide, wait, return. Hard: each
step between the button and the hidden window may fail; the game's end is reported by a thread of
the system; a crash while saving. Correct when the settings file is always one the game accepts,
what is not the launcher's stays in it, and the launcher never goes away from a game it should
report on.

### Partly modelled

- *Audio service*: opening and destroying the stream, calls from a wrong thread and statistics
  that decide nothing are left out.
- *Application*: the main loop, the commands, the presentations and the replay of `main` are
  modelled in five modules and its construction in `Startup`; the reports it prints are not.
- *Settings, configuration and logging*: what is accepted, merged and in force, not the text; of
  the log only that it is built first and goes last.
- *Platform glue*: when SDL is started and stopped and when the dialog is shown, not the calls.
- *Launcher*: all it does with files, processes and messages; not the drawing of the window.
- *GPU host*: shaders, the contents of passes and test-only readbacks are left out.
- *Screenshots*: when one is taken and the readback it needs, not the file that is written.
- *Game data and level content*: every check and account, not the formats of the content, whose
  decoding may fail.
- *Media decoders and parsers*: the calls around the platform's transform, and the movie's file
  in cells instead of bits; the conversion of pixels is left out.
- *Retail format decoders*: string tables and fonts, which say what a screen tells its player. The
  other formats are pure parsers whose properties are about single values of fields, which unit
  tests and fuzzing reach and a model would only repeat.
- *Front-end presentation*: the layout of a text in a rectangle, and the texts of a screen's visible
  widgets in a frame with its budget of triangles; not the elements below them, the timeline, the
  rasterization.

### Not modelled

| component | why |
|---|---|
| native save path (`src/persistence/native_save_path.cpp`) | a pure choice of a directory from the platform's answer; no state |
| scene building and debug images (`src/runtime/canonical_level_scene.cpp`, ...) | pure geometry |
| command-line tools (`apps/omega_tool`), analysis tools (`src/tools`) | one-shot reports; the latter are no part of the program |

These are most of the lines of the repository, which is why the share of lines that the modules
cover is far smaller than the share of the program's decisions.

## 2 Modules

| module | what it is | extends or instantiates |
|---|---|---|
| `SaveRecords` | records, conditions, the verdict on a batch, limits, what decoding a file yields | |
| `SaveDatabase` | the two slots, the lock, every system call of `Open` and `Commit`, failures | `SaveRecords`, instance of `SaveStore` (refinement) |
| `SaveStore` | abstract: one durable snapshot and at most one open commit | |
| `SaveDatabaseProofs` | durability, view agreement, the refinement of `SaveStore`, containment of damage | `SaveDatabase` |
| `NativePersistence` | catalogs, native persistence, session commands over an abstract store | `SaveRecords` |
| `NativePersistenceProofs` | what a start finds, what the owner remembers and what it may replace | `NativePersistence` |
| `SaveFormats` | operators: names, identifiers, keys, encoded values, the verdict of a start on a database | |
| `MemoryCard` | operators: a card is written, checked, converted, read; damaged cards | |
| `JobPool` | abstract: a job is queued, runs once, finishes | |
| `JobService` | threads, mutex sections, condition variables | instance of `JobPool` (refinement) |
| `JobServiceProofs` | the pool's guarantees for any number of workers and jobs | `JobService` |
| `AssetService` | slots, budget, load jobs, destruction | actions of `JobPool` |
| `AssetServiceProofs` | accounts, references and destruction for any slots, requests and budgets | `AssetService` |
| `MovieStreams` | operators: packets, video stream, PCM frames, deadline; a reference writer | |
| `H262Decoder` | operators: `Push`, `Drain`, the pulls between them, the clock that dates frames | |
| `OpeningMoviePlayer` | operators: the player's queue, feeding, clock, PCM cursor | `H262Decoder`, `MovieStreams` |
| `OpeningMovie` | the movie's part of the main loop, boot sequence, faults, SDL's thread | `OpeningMoviePlayer` |
| `MovieAudio` | the ring, containment and SDL's callback, call by call | |
| `MovieAudioProofs` | playback in order and silence for every capacity | `MovieAudio` |
| `FrontEnd`, `Gameplay`, `RunCapture` | operators: the menu's reducer; scheduler, simulation steps and mission rules; traces and sessions | |
| `RunLoop` | `OmegaApp`'s run, frame by frame | `FrontEnd`, `Gameplay`, `RunCapture` |
| `RunReplay` | the replay session beside the run it repeats | `RunLoop` |
| `RunReplayProofs` | the replay repeats the run, the gate of play, complete captures, no time lost, for any catalogs, inputs and times | `RunReplay` |
| `SdlInput` | the tracker's controls, holders, edges and budget; the event pump over it, keys, pads and focus | |
| `SdlInputProofs` | nothing stays down and edges are exact, for any bindings | `SdlInput` |
| `GpuHost` | operators: a pool's reserve, publish, roll back, release, retire; over two pools, the host's uploads, updates, releases, frames, with every way SDL may let them go | |
| `Presentations` | what the application shows, replaces and releases, over the host, with the decoded preview | `GpuHost` |
| `EntityPositions` | abstract: identities with at most one position, a clock | |
| `SimulationWorld` | registry, store and world | instance of `EntityPositions` (refinement) |
| `SimulationWorldProofs` | the world implements `EntityPositions` for every capacity | `SimulationWorld` |
| `MountedSource` | mounts and reads as lists of system calls, over a source others replace | |
| `Archives` | operators: HOG directories, ISO 9660 directories, the game's paths; reference writers, damage | |
| `FrontEndTexts` | operators: string tables, fonts, the layout of a text, the texts of a frame; reference writers | `Archives` |
| `GameData` | services, loads, budgets, scratch, locators, texture store | `MountedSource` |
| `LaunchOptions` | operators: the command line, the settings file, the content they select | |
| `Startup` | the game's process, from its command line to its exit | `GameData`, `LaunchOptions` |
| `Launcher` | the launcher, and the sessions it composes: a tool, a command line, a launcher with its game | `Startup` |
| `MC*` | the instances TLC checks (`JobService`, `AssetService`, `MovieAudio` and `SimulationWorld` are run as they are) | the module they name |

Layers are composed through an abstract specification where one exists, rather than
multiplied. `SaveDatabase` implements `SaveStore`, and `NativePersistence` keeps the same two
snapshots (`store`, `latest`) and changes them only in the ways `SaveStore` allows. `JobService`
implements `JobPool`, and `AssetService` starts and finishes its load jobs with the actions of
`JobPool`. `SimulationWorld` implements `EntityPositions`. What a client proves or checks rests
on a contract the layer below is checked to keep. Components without a thread of their own
(decoder, player, menu, scheduler, tracker, pools, host) are modules of pure operators on a
record, so that two callers share one definition: the live loop and the replay call the same
`FrontEnd`, `Gameplay` and `RunCapture`.

## 3 Correspondence to the code

### SaveDatabase

`visible[s]` is what the directory entry of slot `s` shows to running processes; `durable[s]`
is what a power loss now would leave. `fsync` of the directory makes every visible entry
durable; `Writeback` lets the kernel do so on its own for one slot. A file whose data was not
synchronized before its entry reached the disk may come back torn (`Persisted`), which is why
`WriteTemporary` is a step of its own. `impl` and `publish` are `SaveDatabase::Impl` and the
locals of `PublishSnapshot`; `pc` says which system call comes next.

| action | code |
|---|---|
| `EnsureDirectory`, `SynchronizeCreatedDirectoryChain` | `EnsureDirectory`: an existing directory returns at once |
| `AcquireLock`, `OpenFails` | `DatabaseLock::Acquire`, the early error returns of `Open` |
| `OpenReadSlots`, `OpenReadRestored` | `ReadSlot` twice, the case analysis of `Open`, genesis and restore |
| `Commit` | the checks of `SaveDatabase::Commit` (`Accepts`) up to `PublishSnapshot` |
| `PrepareDirectory` .. `SyncReplacement` | the system calls of `PublishSnapshot` in their order |
| `PublishFails`, `RenameOverSlot` (failing disjuncts), `SyncReplacementFails` | the error returns, definite or indeterminate |
| `CloseOrDie`, `PowerLoss`, `Writeback`, `Damage` | the world: death, power, kernel, a torn, deleted or newer slot |

A batch is judged and its candidate map built in one step: up to `PublishSnapshot` the code
touches only the instance, which one thread uses.

### NativePersistence

Keys and values are tuples whose first element is the magic of the encoding, so a pointer read
where a marker is expected fails as it does in the code. `Commit(batch, outcome)` is the
database seen from outside: committed, failed (the directory may have been synchronized
first), or indeterminate, after which the instance answers nothing until it is reopened.
`Bootstrap` is enabled only when the validation passes; a refused start ends the program,
which is the reason its configuration does not check deadlock. `RawWrite` is another user of
`database()`; invariants about records that only this owner writes assume `raw_writes = 0`.

### SaveFormats, MemoryCard, Archives, FrontEndTexts

Formats, in cells rather than bits, each as the code's writer, its reader, and a description of
the damaged. `SaveFormats` has `IsValidDisplayName`, `ProfileId::Parse` and `ToString`, the key
grammar, the codecs of metadata and of the four kinds of pointers and checkpoints
(`EncodeReference`, `DecodeReference`), and `StartupVerdict`, which is `Bootstrap` on a database of
encoded records. `MemoryCard` has `CreateLogicalImage`, `InspectImage`, both conversions,
`ReadExactChain`, `ReadSaveDirectory` under the code's names or close to them. `Archives` reads a
HOG's prefix and an image's directories as `HogArchive::Open` and the volume's index do
(`BuildIndex`); no writer exists in the code, so `WrittenArchive` and `WrittenImage` are the
reference they are compared with.

`FrontEndTexts` reads a string table (`ReadEntries` is `Preflight`) and a font (`IsFont`,
`DecodeFont`), lays a text out (`LayNext` is the loop of `LayoutRetailText` over code points,
`ApplyEllipsis` and `MeasureItems` are under the code's names) and draws the texts of a screen
(`Reached` is the recursion's guard, `DrawWidget` one call of `AppendGuiTextTriangles`,
`AppendGlyphQuad` both triangles of a glyph). A frame is given whole or refused: for a root that is
hidden or no container (`IsDrawableRoot`), a widget, even a hidden one, that is too deep for
`CollectVisualNodeClaims` (`ClaimsAreComplete`), or triangles beyond the budget. That the root is
bound to a visual, and the visuals' own depth, are taken for granted.

### JobService and AssetService

One action is one critical section, or one notification made outside of one. A thread inside
`wait(lock, predicate)` alternates between evaluating the predicate and sleeping; a
notification picks any sleeper, and `SpuriousWakeup` may wake one at any time. Jobs may submit
jobs. A job ends by returning or by an exception, which the worker counts and swallows.

In `AssetService`, `Reserve`, `SubmitAccepted`/`SubmitRejected` and `Rollback` are the three
parts of `Request`; `JobStarts`, `BeginLoad`, `PublishFailure`/`PublishLoaded` and `JobReturns`
the parts of a load; `terminated` records any guard of the code that would call
`std::terminate`. A request's number stands for the texture it decodes to, so that a reference
to another tenant's texture is visible.

### The opening movie

`MovieStreams` reads a file of cells: a byte, or a field the code reads at once (a start code's
prefix, a length, a timestamp, a word of the audio framing). `InspectMpegProgramStream`,
`BuildMpegVideoElementaryStreamPlan`, `InspectH262SequenceHeaderFacts`,
`BuildPssPcmAudioStreamPlan`, `DecodePssPcm16Interleaved` and
`CalculateOpeningMovieSafetyDurationTicks` bear the code's names; `Open` is
`OpeningMoviePlayer::Create` up to the decoder. `Written` is the reference they are compared
with: it writes a movie's two streams, cut anywhere and mixed in any order, with or without
lengths, stuffing, padding and an end.

`OpeningMoviePlayer` plays `MovieFile`: its payloads, PCM frames and deadline are constants that
`MovieAssumption` ties to what `Open` makes of that file (`Create`). `Advance` is cut at its feeding loop (`StartAdvance`, `Feed`, `FinishAdvance`), each
pass of which asks the decoder, whose transform answers as it likes.

`OpeningMovie` is `RunLoop` with the movie on: `app.pc` is the place in the frame, and every
atomic that the callback writes is loaded in a step of its own, in the order in which
`Snapshot` loads it. The ring is a count there and a containment one step with the set of calls
that failed; `MovieAudio` has both in detail: `FillRing` writes samples outside the stream's
lock, `LockToPublish`, `Publish`, `UnlockPublished` make them visible, `Resume` starts the
device; `Pause`, `Exclude`, `Clear`, `Reset`, `UnlockReset`, `Contained` are the calls of
`ContainOpeningMovieAudio`. The callback is `LoadExtent`, `CopyAndPut`, `GiveBack`, `Count`,
repeated by chunk while SDL holds the stream's lock. The histories `accepted`, `heard`, `quiet`
and `gaps` (and `sent`, `played`) exist only for the properties.

### The run, its capture and its replay

A frame of `RunLoop` is a few actions between which a return is possible: begin and host
events, input and its capture, the menu and its command, elapsed time and the scheduler, the
steps of play, rendering. `loop` holds the frame's locals, `app` the members of `OmegaApp`,
`stored` what the catalogs hold, `cards` what the GPU host holds. The replay consumes each
captured frame as soon as the run is done with it: it reads the traces strictly in order and
never past the frame it plays, so that the two can be compared after every frame, of runs that
later fail too. `main` compares them once, at the end.

### SdlInput

`PumpEvents` is one step per event, so that keys, pads and focus change while the queue is
drained. The tracker's operations (`InputTracker` in the code) are operators on a record; an event
over the budget of the frame is rejected there.

### Presentations and GpuHost

A call of the host is an operator that yields the hosts it may leave behind, one for each way
SDL can let it go. `submitted` holds what each unfinished command buffer uses; `GpuFinishes`
drops the oldest at any time. In `Presentations` a step is a part of a command between two calls
of the host: build, upload, confirm, publish, release. Pictures are a texture's handle and the
list drawn to show it; what a texture shows is the numbers that tell its versions apart, so that
a stale picture is visible. `orphans` are handles whose release failed.

### SimulationWorld

One action per call of the world, for every handle ever given out. `Used` in the refinement is
the set of identities that the generations and the free list say were given out.

### MountedSource and GameData

A call of the file system is the list of system calls it has left (`io`), a load the list of
reads, debits, workspaces and decodes it has left (`load`); `Replace` and `Withdraw` change the
source between any two of them. The budget the code keeps (`budget`) and what the load really
spent and holds (`actual`) are separate variables, which the property compares.

### Startup and Launcher

`Configure` is `main` up to the effective launch: it reads the file as it is then, applies the
overrides and judges everything. What follows is the list of steps left (`process.todo`), in
the order in which `main` and `OmegaApp::Create` take them: `ServicesPlan`, `ControlsPlan`,
`WorldPlan`, `HostPlan` and `PicturesPlan` are that function. Steps that load content are loads
of `GameData`, through the service `Game`. `owners` is what is alive, oldest first, so that
`Unwind` can destroy the youngest only; `dialog` tells a failure that is shown while `main` still
holds what it has from one shown at the very end.

In `Launcher` the parts of `SaveAndLaunch` are steps (`launcher.work`): `Save`, `WriteTemporary`,
`ReplaceFile`, `StartGame`, `WatchGame`; `GameWaitCallback` is the thread that waits for the game and
`OnGameExited` the message it posts. A game that has ended stays so until then: the wait is on its
process, and a watch that begins late ends at once. Between any two the launcher may crash or the source be replaced.

## 4 Runs

For each property a mutated definition (in the same module, next to the one it distorts) makes
the property fail under the same configuration. Bounds that exist only for TLC are constants
with that comment.

| run | what it shows |
|---|---|
| `save_database` | `AcknowledgedCommitSurvives`: at every instant, whichever pending entries a power loss keeps, the next `Open` succeeds and finds the last acknowledged commit or a later one. `UsableViewIsNewest`: an instance that answers agrees with the disk, after failed commits too. `DamageIsContained`: one torn slot costs at most one generation, and a snapshot of a newer format is never overwritten. `ImplementsSaveStore`: while the directory is durable and nobody damaged a slot, every step maps to a step of `SaveStore` or a stutter, so recovery only ever sees whole batches. |
| `missing_slot_rolls_back` | a counterexample, see [7](#7-findings) |
| `native_persistence` | `NextStartIsAccepted`: no sequence of operations, failures, restarts and power losses leaves a database the program refuses to start on. `MemoryAgreesWithDatabase`: cache, session and records agree. `ChangedPointersAreKept`: a pointer changed by somebody else is not overwritten. `SavesAreReadBack`: records and memory cards are read back as they were written; after any single wrong cell, key or bit, a start that succeeds finds a whole database and a card that is read gives sound files. A formula about the formats, required of the first start. |
| `job_service` | `AcceptedJobsAreKept`: order, and nothing abandoned. `NoLostWakeups`: sleepers leave no job waiting, the owner sleeps only on a busy pool. `WaitForIdleIsExact`. `CallsReturn`: shutdown and `WaitForIdle`. `ImplementsJobPool`: refinement with fairness. |
| `asset_service` | `AccountsAreExact`: slots, counters and resident bytes. `LifetimeIsClean`: no guard terminates, no load outlives the service. `ReferencesStayValid`: references and handles. `CallsReturn`: `WaitForIdle` and the destructor. |
| `movie_audio` | `PlaybackInOrder`: what is heard is what was accepted, once, in order, gaps are exactly the underruns and the timeline covers what was consumed. `SilenceIsKept`: a contained session is silent, and a new one begins with an empty ring. `QueuedFramesAreConsumed`: liveness. |
| `opening_movie` | `MovieRunsItsCourse`: a movie that completes by itself lost no picture and no sample, no fault of the movie ends the session, and a return leaves a contained device silent. `PictureKeepsTimeWithSound`: the player's time is the device's demand exactly, pictures are the newest due and in order. `MovieEnds`: liveness. `MoviesAreReadWhole`: both streams are read back from over a thousand layouts of packets, from every frame on, and of a file cut short either nothing is taken or all of the sound; a formula about the constants, evaluated where a movie is about to play. |
| `run_replay` | `ReplayReproducesTheRun`: after every frame the replay is where the run is. `MenuIsTruthful`: play is authorized, and the menu shows what is stored. `CaptureKeepsStep`: the two traces end together. `TimeIsPlayedOrDropped`: no time is invented or lost. |
| `input` | `NothingStaysDown`: a control stays down only while it is held, or its last event was rejected. `EdgesTellChanges`: edges account for every change between two frames. |
| `graphics` | `PicturesAreCurrent`: whatever can be put on the screen resolves and shows what its models say. `InFlightWorkIsKept`: what an unfinished command buffer uses exists, with pipelines of its target's format. `NothingIsLeaked`: every resident texture and mesh has an owner, pools agree with themselves. |
| `simulation` | `ImplementsEntityPositions` |
| `content` | `LoadsComeFromTheMountedImage`: a load succeeds only with data of the one image its service was opened on. `LoadsStayWithinTheirAllowance`: the accounts are true and the limits kept. `StartsAreOrderly`: what an owner uses outlives it, in every start and every teardown; a process that failed said so, and leaves nothing. `LauncherStandsByItsGame`: a hidden launcher watches a game that plays the data it validated, with the settings it showed; once the game has ended, even before the watch began, the launcher can always learn of it and come back or go. `SettingsAreKept`: whatever fails or crashes, the settings file is the old or the new one, whole, with every entry that is not the launcher's. `ContentIsReadBack`: paths, archives and images are read as they were written, and a damaged table yields nothing that overlaps or lies outside; string tables and fonts likewise; and a text that is laid out is shown whole, in order and within its rectangle where it may be broken, an ellipsis takes the end of a line only, and a screen shows the texts of all its visible widgets or is not drawn at all: over the budget, with a widget too deep, even a hidden one, or with a root that is hidden or no container. A formula about the formats, required of the step that begins a tool's first opening of an image: TLC evaluates it on few steps instead of every one. |

Bounds and why they are enough:

- *Save database*: two processes (an owner and a rival or a successor), two keys, two values of
  different size, four batches (create, replace what was observed, move, an illegal repeat),
  `MaxGeneration` 3. A commit replaces the slot two generations back, so three commits turn
  each slot over at least once and reach the refusal at the last generation. One damage per
  behaviour, of each kind, to either slot.
- *Native persistence*: two profiles with two characters (symmetric); `MaxCommits` 6 is the
  least that lets a second profile be confirmed after a character of the first one (three
  creations, then profile, character and second profile confirmed); one raw write.
  `MaxRecords` 6 is never reached within six commits: a batch refused by a limit changes
  nothing, and `SaveDatabase` has the limits.
- *Records*: three identifiers that differ in one digit, 18,000 names from bytes at the borders of
  UTF-8's ranges, keys with one segment wrong, missing or too many, four databases with
  every cell, key and schema of every record damaged. *Cards*: 22 clusters, up to three files
  from empty to one that is too large, every word of two cards replaced by every interesting value.
- *Job service*: three workers, three jobs, a queue of two. Two sleepers and an awake worker are
  the least in which a notification can reach the wrong sleeper, and the queue can be full
  while a job submits. The proofs cover every other size.
- *Asset service*: two slots, generations 1 and 2, four requests: each slot is reused and then
  retired. Sizes 1 and 2 against a budget of 3 let two loads fit alone and not together.
- *Movie audio*: a ring of two frames, chunks of two, demands of up to three, so that a
  callback needs two passes and the ring wraps; three frames in all; two failing SDL calls, so
  that a containment may fail in one call and a later one in another; two frames of silence.
- *Opening movie*: a file with an empty video payload and one of a slice and two thirds, whose
  timestamps wrap, and three PCM frames, so that the ring of two is refilled; eight answers of
  the transform (nothing, untimed, early and late pictures, format changes, no progress, failure,
  end of stream); rates 3/2 and units of 2, so that every conversion leaves a remainder; two
  failing SDL calls. The files that are read back have two sequence headers with a matrix and an
  extension, four frames in blocks of two, and a cut at every cell of either stream.
- *Run and replay*: nine frames, catalogs of zero, one and three profiles with zero, one and
  three characters against two visible slots; ten inputs, elapsed times below, above and beyond a
  step and the clamp. Nine frames reach from the title through a creation and both
  confirmations into a mission, and out of it.
- *Input*: one key, one mouse button and one pad button, two of which share an action; two pads
  (symmetric); two events in the queue and in the budget of a frame.
- *Graphics*: eleven texture slots, of which up to ten are taken between two steps and one is left for
  a replacement; generations 1 and 2, so that slots retire; one failing SDL call at any place, one
  unfinished command buffer; catalogs of none, one and two profiles.
- *Simulation*: three slots and two positions, generations 1 and 2, two-bit coordinates, a
  translation that overflows in one coordinate only, two steps of the clock.
- *Content*: three kinds of session: a tool with two services (symmetric), a game started from a
  command line, a launcher with its game; one replacement of the source; amounts of one against
  an allowance of 15 (what the content of a level takes whole is 16) and a scratch of 9, so that both
  limits are met and also refused. Every pair of two dozen arguments is a command line, and the
  longer ones that capture, replay and probe need; six settings files, legal, linked, with a
  repeated key and with settings that contradict each other; one edit behind the launcher. Archives
  of up to four members and trees of up to eight nodes, among them one at each limit and one over it;
  every word of two images replaced by every interesting value. Tables of up to two entries, and
  those that cannot be written; four fonts, with and without the dot, with a space that goes back and
  with glyphs of two heights; every text of up to four of two letters, a space and a line break, in
  twelve layouts; screens of up to four widgets, visible or not, nested or beside each other, as deep as
  the limit and deeper, seen or hidden, under a container or a button, with a budget for one to ten glyphs.

## 5 Fairness

Safety runs assume none. The liveness properties assume only weak fairness of what the code or
the system schedules:

- `JobService`: a thread that is inside the service takes its next step, and every job returns.
  Nothing is assumed of the client (it may never submit, wait or shut down) nor of spurious
  wakeups. A fair scheduler and jobs that terminate are what `std::jthread` and the decoders
  give; a thread waiting for a notification is not made to run by fairness.
- `AssetService`: the same for the game thread inside a call and for the body of a load, plus
  the fairness of `JobPool`, which `job_service` shows that the pool provides.
- `MovieAudio`: the game thread finishes the call it is in, a running callback finishes, and SDL
  keeps asking a device that is not paused. The property excuses a session that is contained,
  a control call that failed, and a failed unlock that may keep the lock for good.
- `OpeningMovie`: the game thread takes its steps and a callback that was called returns.
  Nothing is assumed of the device (it may never ask), the decoder or the player. A frame is
  taken to last at least one tick of the boot sequence: the deadline counts elapsed time, and
  frames of no time at all would never reach it.

The other specifications are safety: their operations are synchronous calls that the system
may refuse forever, or loops that the player ends.

## 6 Proofs

TLAPS checks every theorem for all values of the constants, from the named assumptions in the
modules and nothing else. The assumptions say what the code fixes: batches, limits and budgets
are what their types hold, markers such as `NoProc`, `NoJob`, `NoPad` and `None` are none of the
things they stand beside, capacities are not zero, there are finitely many workers, positions are
representable (`PositionAssumption`), a run has a frame limit that is not zero (`FrameLimitAssumption`:
`PlanFiniteRunCapture`), and its catalogs, inputs and times are lists of counts, frames and integers
(`RunAssumption`).
`IdentitiesAssumption` is the one that says something about the program's use of the code: it
creates no more profiles and characters than `Bootstrap` accepts (one of each,
`kFirstProfileId` and `kFirstCharacterId`), for the catalogs themselves would not refuse them
(see [7](#7-findings)). Every inductive invariant below was checked by TLC on the instance of its
run before it was proved.

Almost no property of the runs is inductive: each is proved from an invariant that says what
else has to hold for its steps to keep it.

### Save database (`SaveDatabaseProofs`)

`TypeCorrect`, `DatabaseInvariantHolds`, `Durability` (`AcknowledgedCommitSurvives`),
`ViewAgreement` (`UsableViewIsNewest`), `StoreImplemented` (`ImplementsSaveStore`) and
`DamageContained` (`DamageIsContained`, with its halves `TornSlotContained` and
`ForeignContained`). All but the type invariant and `ForeignContained` assume `OneConfig`, that
all openers use one set of limits: with two sets the properties are false (see
[7](#7-findings)), and the one production caller always passes the same.

`DatabaseInvariant` is, on a disk nobody damaged:

- `LockOwner`: only the holder of the lock is past `DatabaseLock::Acquire`, so the argument
  about the disk is about one process.
- `DiskSound`: every file, visible or durable, was flushed and decodes; the durable entry of a
  slot is never newer than the visible one; and *each of the four* combinations of a visible
  or durable slot A with a visible or durable slot B keeps the acknowledged snapshot
  (`KeepsAcked`). The four combinations are what a power loss can produce. The generations of a
  pair are neighbours (`Succeeds`).
- `OwnerSound`: the owner's view is the newest visible snapshot, and while it publishes, the
  file it is about to rename is flushed, decodable, one generation newer and aimed at the
  other slot, with both entries synchronized before the rename. This is why the
  synchronization that *precedes* the temporary is needed and not only the one that follows
  the rename: without it two pending entries could reach the disk in the wrong order.

The main steps are `ReplaceIsSound` (the rename), `SyncIsSound` and `HardenedIsSound` (the
synchronization), `IndeterminateIsSound` (the poisoned instance), `PairSurvives` and
`SelectedIsNewest` (what `Open` adopts).

The refinement adds two facts (`StoreInvariant`): the file about to be renamed is the result of
one batch on what the instance holds (`PendingFollows`), and at most one entry is on its way to
the disk (`OnePending`). With them a rename is `SaveStore`'s commit, a synchronization or a
writeback its settling, a power loss its loss, and every other step a stutter; `RecoveredIsNewest`
says that what `Open` would recover is the newer of the two slots.

A torn slot breaks `DiskSound`. `TornInvariant` is the weaker picture that the same steps keep: a
file is readable or torn, a readable one is at most one generation behind (`TornDisk`), and the
instance that works on holds the successor of the other slot, so that its next commit lands on
the torn one or follows a readable one (`TornOwner`). A snapshot of a newer format needs no
picture of the disk: whoever reads it stops before its first write (`ForeignStopsAll`).

### Native persistence (`NativePersistenceProofs`)

`PersistenceInvariantHolds`, `StartHolds` (`NextStartIsAccepted`), `MemoryHolds`
(`MemoryAgreesWithDatabase`) and `PointersHold` (`ChangedPointersAreKept`).

The argument has a half about records and a half about memory. `RecordsAreSound` is stronger than
`StartupAccepts`, which is not inductive: a start lists only profiles with a marker, so it accepts
a record at the key of a character whose profile is not there, and the creation of that profile
would uncover it. Sound records have markers at every marker's key. What each batch of the
program makes of sound records is sound (`MarkerKeepsSound`, `ProfileKeepsSound`,
`CharacterKeepsSound`, `CheckpointKeepsSound`); the second is where the erased character pointer
is needed. Memory is compared with the newest snapshot, which a usable instance has in hand
(`LatestIsInHand`); an indeterminate commit ends its use.

Raw writes void both halves, and `ChangedPointersAreKept` must hold after them. It rests on
`RevisionTellsProfile`: no revision is of the future (`WellFormed`), a commit stamps a new one,
and so a pointer that still has the revision the owner remembers has the value it confirmed.

### Asset service (`AssetServiceProofs`)

`AssetInvariantHolds`, `AccountsHold` (`AccountsAreExact`), `ReferencesHold`
(`ReferencesStayValid`), `LifetimeHolds` (`LifetimeIsClean`). `AssetInvariant` says where a slot can be
(`FreeListOK`: free once, occupied, or retired), which counter counts what (`CountsOK`), that no
handle is ahead of its slot and one as new as its slot still has it (`HandlesOK`), that every job
which has not published has its slot in the state it expects (`JobsOK`), and that a ready slot holds the
texture of the one request whose handle names it (`ContentsOK`). `JobsOK` is why no guard of the
jobs ends the process; `HandlesOK` is why a slot that runs out of generations must retire
instead of beginning again. A sum over slots would need induction: the resident bytes are stated
as the cardinality of the set of pairs of a slot and a byte of it (`HeldBytes`), which the
model's property uses too.

### Movie audio (`MovieAudioProofs`)

`AudioInvariantHolds`, `PlaybackHolds` (`PlaybackInOrder`), `SilenceHolds` (`SilenceIsKept`), for
every capacity, chunk and demand. `Extent` and `RingHolds` are the ring: the frames published and
not given back are in their places, and so are those of a span that is copied and not yet
published, for the two do not meet (`PlacesDiffer` of sequence numbers less than the capacity
apart). `Pass` says that what a callback loaded stays true until it gives back, because only it
consumes and only the lock's owner resets (`LockExcludes`). `Sessions` and `Containing` follow the
containment through its calls: one that has not failed so far has done what it has passed, and
only a contained service is `Silenced`. `GapsArePaid` adds to the property what is needed to keep
it: silence that nobody counted has no frame of the movie after it.

### Input (`SdlInputProofs`)

`InputInvariantHolds`, `NothingHangs` (`NothingStaysDown`), `EdgesHold` (`EdgesTellChanges`), for any
bindings, pads and budgets. `NothingStaysDown` speaks of the moment when the queue is empty; the
invariant looks into the queue. A control the player does not hold *settles* (`GoesUp`): if it is
down, and its last event was not rejected, an event that waits will take it up, and each waiting
press is followed by such an event. What waits may name a pad that has been replaced: `QueueOK` says that
buttons in the queue are the primary pad's, and `PadIsOpen` that without one none is down. The
tracker's counters are the cardinalities of the holders of an action (`TrackerOK`).

### Simulation (`SimulationWorldProofs`)

`WorldInvariantHolds` and `EntitiesImplemented` (`ImplementsEntityPositions`), for every capacity.
`FreeList`: what is free is dead and listed once, and only a slot at its last generation is neither
alive nor listed. `StoreInStep`: a stored position is of the entity that lives in its slot.
`CountsAreExact`: the counters are cardinalities. From these the two `std::terminate` calls
of the world are unreachable, and each call changes the set of living identities, the set of
used ones and their positions as one action of `EntityPositions` does. The abstract module
takes the set of possible handles as a constant (`Handles`): with one generation per slot an identity that was used
and one that never was are told apart only by it.

### Job service (`JobServiceProofs`)

`PoolInvariant` says that the jobs accepted are the jobs taken followed by the queue, that each
of them is queued, held by a worker or counted exactly once (`Accounting`, `JobsAreHeld`), and
which phases of the owner and the workers go together (`Phases`). From it follow `TypeCorrect`,
`AcceptedJobsAreKeptHolds`, `WaitForIdleIsExactHolds` and the half of `NoLostWakeupsHold` about
the owner.

The half about workers (`SleepersLeaveNoJobWaiting`) is a payment argument: while a worker
sleeps, every queued job is paid for by a worker in front of its predicate or a thread about to
notify. `Enqueue` adds a job and its notifier; a notification turns the notifier into an awake
worker; taking a job uses up one of each; a worker falls asleep only on an empty queue
(`EmptyQueueIsPaidFor`). It is an invariant of its own beside `PoolInvariant`.

`PoolStepsImplemented` is the safety half of `ImplementsJobPool`: with `InOnePlace` (a job is in
one of queue, worker and finished set), every step maps to a step of `JobPool` or to a
stutter.

### Run and replay (`RunReplayProofs`)

`RunInvariantHolds`, `ReplayHolds` (`ReplayReproducesTheRun`), `MenuHolds` (`MenuIsTruthful`),
`CaptureHolds` (`CaptureKeepsStep`) and `TimeHolds` (`TimeIsPlayedOrDropped`), for any catalogs,
inputs, times (negative ones too), frame limit, scheduler configuration, objective, extent of the
world and number of visible slots.

`RunInvariant` has six parts. `RunTypes` gives each place of the loop its locals; a menu that waits
to be applied is the reduction of the state it was reduced from. `SessionIsStored` is
`ShownIsStored` with what its steps need: a confirmed profile is shown, its list is the stored one
and its empty list has a card more. `PlayIsAuthorized` is the gate between two frames and inside
one: a menu that left play is still to report the abort (`aborted_now`), and only until then is a
mission active outside of play. `FramesAreCounted` and `TracesAreInStep` compare the counters with
the traces at every place, the frame in hand being unread. `ReplayFollows` makes the equality
inductive: while the frame in hand is unread the replay is still behind, so what is compared there
is what it *will* come to: once the command is applied, the session it will mirror (`IsApplied`), and
once the frame is played, the whole result of `Replayed` (`IsPlayed`).

The step of the argument that is not bookkeeping is that two different mechanisms agree. The
replay asks a mirror for confirmations the session reads from identities, and offers the reducer
other capabilities than the session does: `SameReduction` says which of them the reducer looks at, and
`SessionOffers` that these are the same without a diagnostic start. `MirrorIsTrue` takes each
command. A mission deployed in this frame begins at the origin in the run, and wherever the actor
was in the replay, which puts it back only behind the steps: `SameFrameInReplay` shows that a frame that was
not playing when it began stands still, so that the order cannot be seen. `ReductionIsSound` is the
menu's own theorem: only the briefing starts play, and only if it is permitted. The steps that can be taken
(`StepsTaken`, `StandingStill`) are a least number below which all positions are representable, from
the well-foundedness of the naturals.

### Only model-checked

Liveness and the fairness half of `ImplementsJobPool`: the prover has no `ENABLED`. What the folds
of `MovieStreams`, `H262Decoder`, `SaveFormats`, `MemoryCard`, `Archives` and `FrontEndTexts` compute for every input
(`SavesAreReadBack`, `MoviesAreReadWhole`, `ContentIsReadBack`) needs induction over data, which is
out of the prover's reach, as a `RECURSIVE` operator would be; no module here declares one. Some more
safety is checked and not proved:

- `GameData` (`LoadsComeFromTheMountedImage`, `LoadsStayWithinTheirAllowance`) and `Presentations`
  (`PicturesAreCurrent`, `InFlightWorkIsKept`, `NothingIsLeaked`): the accounts of a load and of a pool are
  sums over the parts and slots they charge, and a release goes over a list of handles; what these folds
  come to, for lists of any length, is induction over data again.
- `Startup` and `Launcher` (`StartsAreOrderly`, `LauncherStandsByItsGame`, `SettingsAreKept`): a start works
  off one of a few dozen lists of steps, fixed by its command line and settings, of which the instance
  has every kind. A theorem would add only the parameters of `GameData` to it.
- `OpeningMovie` (`MovieRunsItsCourse`, `PictureKeepsTimeWithSound`): what is in the player's queue is what
  the decoder's folds returned for the bytes of the movie.

## 7 Findings

`missing_slot_rolls_back`: after exactly one commit, the sibling of the active slot is the empty
genesis. If the newest slot is then deleted, `Open` cannot tell the state from an interrupted
creation, rebuilds the genesis and reports no error, although `docs/04-Native-Persistence.md`
says that a missing slot in any established database fails closed.

Further disagreements were met that no run exhibits, because the program cannot reach them or
because the property would only restate the line. Values over an opener's byte limits are
classed as a corrupt snapshot, so that an opener with tighter limits falls back to the older
sibling; the one production caller always passes the same limits. Only the call that creates
the directory synchronizes its ancestors, so that an opener that finds it already created may
publish and acknowledge in a directory the disk can still lose; `save_database` therefore begins
with a directory that is absent or durable, and `AcknowledgedCommitSurvives` and
`ImplementsSaveStore` excuse one that is neither. A profile pointer written by a commit that
ended open counts as confirmed after a restart, although a power loss can still take it back.
The catalogs create without a limit while `Bootstrap` refuses more than
`kFrontEndMaximumProfiles` profiles.

The texts: a comment of `retail_front_end_frame.cpp` (line 648) says that a text reference without
an entry falls back to the reference itself; such a widget is left empty. Of two
spaces at an automatic break, the second indents the next line when it is the first that made the
line too wide, and is dropped otherwise; and a space that goes back at the beginning can leave a line wider than its rectangle,
which is why `LinesFit` speaks of fonts whose space moves on.

The launcher showed some more. After its settings could not be read, its next save writes the
preferences shown, which drops the movie the user had named and turns the gamepad off. A relative
path that it remembers is validated against the launcher's own directory and opened by the game
against another. A settings file that is a link is accepted by the launcher and refused by the
game, until a save replaces the link. The button stays enabled while the window is hidden, so
that an input queued before could start a second game; and an edit of the file between its last
reading and its replacement is lost. The model assumes that a hidden window gets no input and
that nobody edits the file during a save.

## 8 Limits of the models

- *Save database*: the POSIX path. Keys, values, checksums and byte layout are abstracted to the
  verdict they lead to; a corrupt file is one that fails its checksum, never one that passes
  it with wrong content. A successful `fsync` is taken at its word. At most one slot is damaged
  from outside.
- *Native persistence*: display names, identifiers and time stamps are small sets. The model's
  sets of profiles and characters stay within the limits of `Bootstrap`. `SaveFormats` is where the
  bytes are, and is not composed with it: its values stand for what decodes.
- *Formats*: a field is one cell whatever its width. The card's geometry is the standard one scaled
  down. The memory an index takes is not counted apart from its records and names.
- *Texts*: measures are even integers, floats neither rounded nor too large. The bytes of a layout
  are not counted. All widgets of a screen share one font; a missing font or atlas is a font that was
  refused. The geometry below the texts has taken its part of the budget before.
- *Job service*: one owning thread calls `WaitForIdle` and the destructor, as the program does. A
  rejected submission changes nothing and is not an action. `Submit` by other threads than the
  owner and the jobs does not occur.
- *Asset service*: decoding is a choice of success with a size, or failure.
- *Movie streams*: cells instead of bits. A field that the code checks bit by bit is one cell with
  a legal and other values, so a start code that would begin inside a field does not occur. The
  facts of a sequence header are the pair of header and extension, not the rates and sizes
  computed from them. The callers' byte and item budgets are left out but for the counts that
  are fixed in the code. Sums are unbounded; the code saturates or refuses.
- *Decoder*: the Windows build; elsewhere `Create` fails and there is no movie. The transform is
  external and may answer anything, except a negative time. The rate of frames is one across
  format changes. Copying pixels, limits on output bytes and allocation are "failure" answers.
- *Opening movie*: times are scaled (`ClockNs`, `ClockRate`, `UnitNs`). The sum of a 63-bit time and
  a duration cannot overflow and is not checked. Reaching the frame limit is one of the ways the
  loop ends. The menu behind the movie is that of `RunLoop`.
- *Movie audio*: a failed unlock may or may not leave the stream locked. The player queues nothing
  after the last span of a movie.
- *Run and replay*: what the store does with a command is `NativePersistence`'s; here a command is
  refused, carried out, or carried out and reported as failed. Entries of the catalogs are named
  by position. The movie is over and the preview off. A profile is chosen once per session: the
  mode that would stage another one is not reachable from the title. Coordinates and times are
  scaled; the scheduler's totals are sums of the plans that are compared. An audio fault found
  after the loop may fail a run that was quit. Trace lengths stand for the encoded bytes.
- *Input*: keys, pads and SDL are external; releases are reported without the focus, pad
  identifiers are not reused while the program runs. Counters of rejected events and the flags
  that `PumpEvents` returns are left out.
- *Graphics*: objects that do not outlive a call are left out, their guards release them on every
  path; a mesh's two buffers are one object. The menu's state is left out, so any order of menus
  and commands is allowed, which includes those of the reducer. A draw list of valid handles is
  created without failure. A failed release is a failed wait for the idle GPU; the destructor
  ignores one. The application draws with the fill pipeline only.
- *Simulation*: moved-from worlds, the validation of `Create`'s configuration and the store's
  `Clear` are left out; time is a number of steps.
- *Content*: a source that was replaced or rewritten never has the size and time of modification
  of an earlier one: the code compares nothing else. A directory tree gives no promise across
  files, and the code makes none. Input bytes, items and output bytes are debited alike and are
  one number; peaks are statistics. One load is in flight: loads are const and share no mutable
  state. Services and store may be closed for good, which is why deadlock is not checked.
- *Command line, settings, startup*: a setting with bounds of its own is one key, in range or
  not; durations are ordered values. Which message refuses a command line, help and the reports
  of the console are left out. The owners are what `Startup` builds and destroys; what they do in
  between is in their modules. `main`'s handler of exceptions is a failed step.
- *Launcher*: the window's layout and text are left out. Validation is not interrupted by a crash. The temporary file's name is never taken.
- Atomics are sequentially consistent in the models; the orders the code asks for between the
  ring's sequences (release and acquire) give the same outcomes for the pairs it reads.

## 9 Plan

All modules, runs and theorems planned for the program's own logic are here. What would be
worth adding, in this order:

1. `GameData`: the accounts of a load (`LoadsStayWithinTheirAllowance`) for every allowance, with the sum
   of `Total` replaced by a counter whose agreement with the list TLC checks;
2. `Presentations`: the pools and the GPU host (`InFlightWorkIsKept`, `NothingIsLeaked`) for any
   number of slots, by cardinalities as in `AssetServiceProofs`;
3. `OpeningMovie`: `PictureKeepsTimeWithSound`, for any rates that divide.

The other decoders of retail formats, the rasterizers, the tools and the parsers of text files will
stay outside, for the reasons above.
