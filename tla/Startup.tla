------------------------------- MODULE Startup -------------------------------
(***************************************************************************)
(* The game's process, from its command line to its exit code: what main   *)
(* and OmegaApp::Create do in order, what each step needs of those before  *)
(* it, and what is torn down, in which order, when one fails.              *)
(*                                                                         *)
(* A start is the list of what it has left to do.  The content is loaded   *)
(* by the loads of GameData, one at a time; any other step succeeds or     *)
(* fails at once (what becomes of the owners once they run is modelled by  *)
(* their own modules).                                                     *)
(***************************************************************************)
EXTENDS GameData, LaunchOptions

CONSTANTS
    Game,           \* the game's GameDataService
    CommandLines    \* the command lines it is started with

VARIABLES
    settings,       \* the settings file: [kind, entries]
    process         \* the game's process

hostVars == <<settings, process>>

NoLaunch == [mode |-> "none", frames |-> "", root |-> "", level |-> FALSE, movie |-> "none"]

\* owners: what is alive, oldest first.  asked: a load was begun for the step
\* at the head of todo.  dialog: "none", due "first" or "last" (before or after
\* the owners are destroyed), or "shown".  rendered: the frames of the run.
NoProcess == [phase |-> "none", launch |-> NoLaunch, todo |-> <<>>, asked |-> FALSE,
              owners |-> <<>>, dialog |-> "none", rendered |-> "", exit |-> "none"]

-----------------------------------------------------------------------------
(* The plan of a start.                                                      *)

If(condition, steps) == IF condition THEN steps ELSE <<>>

\* StartContent.
ContentPlan(launch) ==
    If(launch.root # "", <<"open">>)
        \o If(launch.level, <<"manifest", "level", "image", "textures">>)

\* OmegaApp::Create builds the members of OmegaApp in the order of their
\* declaration, and between them what is made from the owners before it.

\* A plausible error: the workers are declared after what uses them.
ServicesPlanSwapped(launch) ==
    <<"stderr", "ring", "log">>
        \o If(launch.level, <<"scene", "assets">>) \o <<"jobs">>

\* What the content of a level needs beside the log.
ServicesPlan(launch) ==
    <<"stderr", "ring", "log">>
        \o If(launch.level, <<"scene">>) \o <<"jobs">>
        \o If(launch.level, <<"assets">>)

\* The clock of the frames, and the bindings of the player's controls.
ControlsPlan == <<"scheduler", "input">>

\* The actors, the images of the level and the preview of its models.
WorldPlan == <<"simulation", "preview">>

\* What runs over SDL.
HostPlan == <<"platform", "sdl_input", "audio", "host">>

\* The pictures uploaded before the first frame: the movie's after those of the
\* menu and the diagnostics, the level's scene last.
PicturesPlan(launch) ==
    <<"pictures">> \o If(launch.movie # "none", <<"movie">>)
        \o If(launch.level, <<"scene pictures">>)

AppPlan(launch) ==
    <<"take over">> \o ServicesPlan(launch) \o ControlsPlan \o WorldPlan
        \o HostPlan \o PicturesPlan(launch)

\* main, after the settings: a probe and a run of no frames end early.
StartPlan(launch) ==
    <<"content">> \o ContentPlan(launch)
        \o If(launch.mode # "probe",
              <<"saves path", "saves">>
                  \o If(launch.mode = "replay", <<"characters">>)
                  \o If(launch.frames # "0",
                        If(launch.movie = "member", <<"movie source">>)
                            \o AppPlan(launch) \o <<"run">>
                            \o If(launch.mode = "replay", <<"replay">>)))

\* What stays alive once its step is done; "movie source" lives in main until
\* the player takes it.
Owned == {"saves", "stderr", "ring", "log", "jobs", "assets", "scheduler", "input",
          "simulation", "platform", "sdl_input", "audio", "host"}

\* What an owner uses for as long as it lives: the references it holds, and
\* what its destructor calls.
Uses ==
    [log       |-> {"stderr", "ring"},
     assets    |-> {"jobs", "content"},
     sdl_input |-> {"platform"},
     audio     |-> {"platform"},
     host      |-> {"platform"},
     movie     |-> {"host", "audio"}]

-----------------------------------------------------------------------------
(* The command line and the settings.                                        *)

Exited(exit) == process' = [NoProcess EXCEPT !.phase = "exited", !.exit = exit]

\* A process starts: its command line is refused with the usage, answered with
\* it, or accepted.
StartProcess(line) ==
    /\ process.phase = "none"
    /\ IF ~Accepted(line) THEN Exited("failure")
       ELSE IF Parsed(line).mode = "help" THEN Exited("success")
       ELSE process' = [NoProcess EXCEPT !.phase = "configuring", !.launch = Parsed(line)]
    /\ UNCHANGED settings

\* The process fails.  What was being built goes before the failure is shown,
\* but a failure of main itself is shown while main still holds what it has.
Fails(dialog) ==
    process' = [process EXCEPT !.phase = "failing", !.dialog = dialog, !.todo = <<>>,
                               !.asked = FALSE, !.launch = NoLaunch]

\* The default settings file and its folder come from the environment: it may
\* name none.  The file is read once, as it is now, and all of it is checked
\* before anything else of the program starts.
Configure(located) ==
    /\ process.phase = "configuring"
    /\ LET launch == process.launch
           loaded == ConfigStore(FileEntries(launch, located, settings))
           config == Overridden(launch, loaded)
           legal  == /\ ConfigIsRead(launch, located, settings)
                     /\ OverridesAreLegal(launch, loaded)
                     /\ SettingsAreLegal(config)
                     /\ ProfileIsLegal(launch, config)
       IN  IF legal
           THEN LET effective == EffectiveLaunch(launch, config)
                IN  process' = [process EXCEPT !.phase = "starting", !.launch = effective,
                                               !.todo = StartPlan(effective)]
           ELSE Fails("last")
    /\ UNCHANGED settings

\* The environment cannot be read: only the default file needs it.
CannotLocate ==
    /\ process.phase = "configuring" /\ ~process.launch.config
    /\ Fails("last")
    /\ UNCHANGED settings

-----------------------------------------------------------------------------
(* The steps of a start.                                                     *)

AtStep == process.phase = "starting" /\ process.todo # <<>>
NextStep == Head(process.todo)

Starting(step) == AtStep /\ NextStep = step

Holds(owner) == owner \in ToSet(process.owners)

StepDone(owners, movie) ==
    process' = [process EXCEPT !.todo = Tail(@), !.asked = FALSE,
                               !.owners = owners, !.launch.movie = movie]

Succeeds(owners) == StepDone(owners, process.launch.movie)

\* StartContent refuses a level or a probe without a root.
ContentSelected ==
    /\ Starting("content")
    /\ IF (process.launch.level \/ process.launch.mode = "probe") /\ process.launch.root = ""
       THEN Fails("last") ELSE Succeeds(process.owners)
    /\ UNCHANGED <<settings, vars>>

\* A step that is a load of GameData begins: there must be data to load from.
AskFor(step, call) ==
    /\ Starting(step) /\ ~process.asked /\ call
    /\ process' = [process EXCEPT !.asked = TRUE]
    /\ UNCHANGED settings

BeginLoad ==
    \/ process.launch.root = "source" /\ AskFor("open", Open(Game))
    \/ AskFor("manifest", LoadLevelManifest(Game))
    \/ AskFor("level", LoadLevelContent(Game))
    \/ AskFor("textures", OpenStore(Game))
    \/ AskFor("movie source", LoadOpeningMovieSource(Game))

\* The load has ended with a result.
LoadAnswered ==
    /\ process.phase = "starting" /\ process.asked /\ Idle /\ result # NoResult
    /\ Succeeds(IF Starting("open") THEN <<"content">> ELSE process.owners)
    /\ UNCHANGED <<settings, vars>>

\* It ended without one, or could not even begin.  A movie that cannot be had
\* is no failure: the game starts without it.
LoadRefused ==
    /\ \/ process.asked /\ Idle /\ result = NoResult
       \/ Starting("open") /\ process.launch.root = "other"
       \/ Starting("movie source") /\ ~process.asked
             /\ ~(Holds("content") /\ services[Game].movie = "Ready")
    /\ IF Starting("movie source") THEN StepDone(process.owners, "none")
       ELSE Fails("last")
    /\ UNCHANGED <<settings, vars>>

\* The settings and the content move into the application, after the saves.
TakeOver ==
    /\ Starting("take over")
    /\ Succeeds(<<"saves", "config">> \o If(Holds("content"), <<"content">>))
    /\ UNCHANGED <<settings, vars>>

\* Any other step but the run itself succeeds.
OtherSteps == {"image", "saves path", "characters", "scene", "preview", "pictures",
               "scene pictures", "replay"}

StepSucceeds ==
    /\ AtStep /\ NextStep \in OtherSteps \cup Owned
    /\ Succeeds(process.owners \o If(NextStep \in Owned, <<NextStep>>))
    /\ UNCHANGED <<settings, vars>>

\* The player is made from the path or the source there is and its picture uploaded,
\* or the game starts without.
MoviePrepared ==
    /\ Starting("movie")
    /\ \/ process.launch.movie # "none" /\ Succeeds(Append(process.owners, "movie"))
       \/ StepDone(process.owners, "none")
    /\ UNCHANGED <<settings, vars>>

\* A failure of the characters, of the run or of the replay is only printed.
StepFails ==
    /\ AtStep /\ NextStep \in (OtherSteps \cup Owned \cup {"take over"}) \ {"stderr"}
    /\ Fails(CASE NextStep \in {"characters", "replay"} -> "none"
               [] NextStep \in {"saves path", "saves"} -> "first"
               [] OTHER -> "last")
    /\ UNCHANGED <<settings, vars>>

\* Run or RunWithCapture returns: with an error, or when the player left, which
\* is a failure if a number of frames was asked for, or at that number.
RunReturns ==
    /\ Starting("run")
    /\ \/ Fails("none")
       \/ \E rendered \in {"all", "fewer"} :
             /\ process.launch.frames # "" => rendered = "all"
             /\ process' = [process EXCEPT !.todo = Tail(@), !.rendered = rendered]
    /\ UNCHANGED <<settings, vars>>

-----------------------------------------------------------------------------
(* The end of the process.                                                   *)

\* All was done: main returns, and its locals and the application go.
StartDone ==
    /\ process.phase = "starting" /\ process.todo = <<>>
    /\ process' = [process EXCEPT !.phase = "leaving",
                                  !.launch = [NoLaunch EXCEPT !.frames = process.launch.frames]]
    /\ UNCHANGED <<settings, vars>>

MayUnwind ==
    process.phase \in {"failing", "leaving"} /\ process.dialog \in {"none", "last"}

\* A plausible error: the oldest owner is destroyed first.
UnwindOldest ==
    /\ MayUnwind /\ process.owners # <<>>
    /\ process' = [process EXCEPT !.owners = Tail(@)]
    /\ IF Head(process.owners) = "content" THEN Close(Game) ELSE UNCHANGED vars
    /\ UNCHANGED settings

\* The youngest owner is destroyed.
Unwind ==
    /\ MayUnwind /\ process.owners # <<>>
    /\ process' = [process EXCEPT !.owners = Front(@)]
    /\ IF Last(process.owners) = "content" THEN Close(Game) ELSE UNCHANGED vars
    /\ UNCHANGED settings

\* TryShowStartupFailureDialog: suppressed by the environment, or shown until
\* the user has read it (or SDL cannot show it).
ShowDialog ==
    /\ \/ process.dialog = "first"
       \/ process.dialog = "last" /\ process.owners = <<>>
    /\ \E dialog \in {"shown", "none"} : process' = [process EXCEPT !.dialog = dialog]
    /\ UNCHANGED <<settings, vars>>

DismissDialog ==
    /\ process.dialog = "shown"
    /\ process' = [process EXCEPT !.dialog = "none"]
    /\ UNCHANGED <<settings, vars>>

\* Nothing is left: the process ends, and all it had in memory with it.
ProcessEnds ==
    /\ process.phase \in {"failing", "leaving"}
    /\ process.owners = <<>> /\ process.dialog = "none"
    /\ Exited(IF process.phase = "leaving" THEN "success" ELSE "failure")
    /\ services' = [services EXCEPT ![Game] = NewService]
    /\ mounts' = [mounts EXCEPT ![Game] = NoMount]
    /\ store' = NoStore /\ result' = NoResult
    /\ UNCHANGED <<disk, io, loadVars, settings>>

ProcessSteps(places) ==
    \/ \E located \in places : Configure(located) /\ UNCHANGED vars
    \/ CannotLocate /\ UNCHANGED vars
    \/ ContentSelected \/ BeginLoad \/ LoadAnswered \/ LoadRefused
    \/ TakeOver \/ StepSucceeds \/ MoviePrepared \/ StepFails \/ RunReturns
    \/ StartDone \/ Unwind \/ ShowDialog \/ DismissDialog \/ ProcessEnds

-----------------------------------------------------------------------------
(* What a start may rely on.                                                 *)

\* However a start goes, and wherever it fails: every owner, from the moment it
\* is built until it is destroyed, has alive all that it uses, the asset
\* service the very data it was made for; the saves are opened only after the
\* settings and the content were accepted, and never by a probe; no movie gets
\* into a run that plays none; no dialog waits for the user while the window,
\* the workers or the saves are held; and success is reported only when all
\* that was asked for was done.
StartsAreOrderly ==
    /\ \A i \in DOMAIN process.owners :
          process.owners[i] \in DOMAIN Uses
             => Uses[process.owners[i]] \subseteq ToSet(SubSeq(process.owners, 1, i - 1))
    /\ Holds("assets") => SourceBound(Game)
    /\ Holds("saves") /\ process.phase = "starting"
          => /\ process.launch.mode # "probe"
             /\ process.launch.root # "" => Holds("content") /\ IsOpen(Game)
    /\ process.phase = "starting" /\ process.launch.movie # "none"
          => process.launch.mode = "normal"
    /\ process.dialog = "shown" => process.owners \in {<<>>, <<"content">>}
    /\ process.phase = "leaving" /\ process.launch.frames \notin {"", "0"}
          => process.rendered = "all"

=============================================================================
