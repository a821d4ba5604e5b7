------------------------------- MODULE Launcher -------------------------------
(***************************************************************************)
(* The Windows launcher: it remembers the user's settings, validates the   *)
(* chosen game data by opening it, saves the settings, starts the game and *)
(* waits hidden for its end.  The game reads what the launcher has saved.  *)
(*                                                                         *)
(* The module also composes who may use the game data: a tool that calls   *)
(* GameData as it likes, a game started from a command line, or a launcher *)
(* and the game it starts.  A launcher may crash at any step; the user may *)
(* edit the settings file, but not while the launcher saves it or the game *)
(* it has started is about to read it.                                     *)
(***************************************************************************)
EXTENDS Startup

CONSTANTS
    Tools,          \* the services of a tool
    Documents,      \* the settings files there may be
    MaxEdits        \* bound on the user's edits of that file

VARIABLES
    session,        \* who uses the game data
    launcher,       \* the launcher's window, and the game it watches
    edits           \* the user's edits so far

allVars == <<vars, hostVars, session, launcher, edits>>

\* A tool reads no settings.
NoSettings == [kind |-> "missing", entries |-> <<>>]

\* LauncherPreferences, as they are before any was loaded.
NoPreferences == [root |-> "", member |-> "", gamepad |-> "false"]

\* work: what the window's thread is in the middle of, and in which mode it will
\* start the game.  saved: the file it is writing.  game: whether a game was
\* started, and is watched.  posted: kGameExitedMessage is in the queue.
NoLauncher == [window |-> "none", path |-> FALSE, preferences |-> NoPreferences,
               valid |-> FALSE, work |-> "none", mode |-> "none", saved |-> <<>>,
               game |-> "none", posted |-> FALSE]

\* The launcher has ended, and where it looked for its settings is where its game does.
LauncherAs(window, game) ==
    [NoLauncher EXCEPT !.window = window, !.game = game, !.path = launcher.path]

-----------------------------------------------------------------------------
(* The launcher's settings.                                                  *)

OwnKeys == {"root", "member", "gamepad"}

Others(entries) == SelectSeq(entries, LAMBDA e : e.key \notin OwnKeys)

\* LoadExistingStore: a missing file is an empty one, and a link is followed.
StoreIsLoaded(file) ==
    \/ file.kind = "missing"
    \/ IsReadable(file) /\ IsConfigText(file.entries)

\* LoadLauncherPreferences.
PreferencesAreLegal(file) ==
    LET config == ConfigStore(ToSet(file.entries))
    IN  /\ StoreIsLoaded(file)
        /\ \A key \in {"root", "member"} \cap DOMAIN config : config[key] # ""
        /\ Setting(config, "gamepad", "false") \in {"true", "false"}

LoadedPreferences(file) ==
    LET config == ConfigStore(ToSet(file.entries))
    IN  [key \in OwnKeys |-> Setting(config, key, NoPreferences[key])]

\* A plausible error: only what the launcher knows is written.
SerializedAlone(entries, preferences) ==
    FlattenSeq([i \in 1..3 |->
        LET key == <<"root", "member", "gamepad">>[i]
        IN  If(preferences[key] # "", <<[key |-> key, value |-> preferences[key]]>>)])

\* SaveLauncherPreferencesAtomically: the entries of the file with the three
\* that are the launcher's replaced in place, dropped, or added at the end.
Serialized(entries, preferences) ==
    LET written(key) == <<[key |-> key, value |-> preferences[key]]>>
        old(e) == IF e.key \in OwnKeys
                  THEN If(preferences[e.key] # "", written(e.key)) ELSE <<e>>
        new(key) == If(/\ preferences[key] # ""
                       /\ \A i \in DOMAIN entries : entries[i].key # key, written(key))
    IN  FlattenSeq([i \in DOMAIN entries |-> old(entries[i])])
            \o new("root") \o new("member") \o new("gamepad")

-----------------------------------------------------------------------------
(* The window.                                                               *)

\* The launcher runs on one thread: it takes the next message when it is done
\* with the last.
Ready(window) == launcher.window = window /\ launcher.work = "none"

\* What is not the launcher's, when it acts alone.
UnchangedElsewhere == UNCHANGED <<vars, hostVars, session, edits>>

Working(step) == launcher.work = step

\* ValidateDataSource: the choice is kept, and it is not valid until the data
\* was opened.
Validate(known, preferences) ==
    launcher' = [launcher EXCEPT !.window = "shown", !.path = known, !.work = "validate",
                                 !.preferences = preferences, !.valid = FALSE]

\* The service that will be asked, if the choice is the data at all.
Examine(root) == IF root = "source" THEN Open(Game) ELSE UNCHANGED vars

\* CreateAndShow and LoadRememberedPreferences: without a place for settings
\* there is nothing to play with; settings that cannot be read are not used.
ShowWindow(known) ==
    /\ Ready("none")
    /\ LET preferences == IF known /\ PreferencesAreLegal(settings)
                          THEN LoadedPreferences(settings) ELSE NoPreferences
       IN  IF preferences.root = ""
           THEN /\ launcher' = [launcher EXCEPT !.window = "shown", !.path = known,
                                                !.preferences = preferences]
                /\ UNCHANGED vars
           ELSE Validate(known, preferences) /\ Examine(preferences.root)
    /\ UNCHANGED <<hostVars, session, edits>>

\* ChooseDataSource, once the user has picked a folder or an image.
ChooseSource(root) ==
    /\ Ready("shown")
    /\ Validate(launcher.path, [launcher.preferences EXCEPT !.root = root])
    /\ Examine(root)
    /\ UNCHANGED <<hostVars, session, edits>>

\* A plausible error: the verdict on the last choice stands.
ChooseWrongFileKeeping(root) ==
    /\ Ready("shown")
    /\ launcher' = [launcher EXCEPT !.preferences.root = root]
    /\ UnchangedElsewhere

\* A file that is not an image was picked as one: it is not even opened.
ChooseWrongFile(root) ==
    /\ Ready("shown")
    /\ launcher' = [launcher EXCEPT !.preferences.root = root, !.valid = FALSE]
    /\ UnchangedElsewhere

\* The data was opened or not, and the service that did it is gone.
Validated ==
    /\ Working("validate") /\ Idle
    /\ launcher' = [launcher EXCEPT !.work = "none", !.valid = result # NoResult]
    /\ services' = [services EXCEPT ![Game] = NewService]
    /\ mounts' = [mounts EXCEPT ![Game] = NoMount]
    /\ result' = NoResult
    /\ UNCHANGED <<disk, io, store, loadVars, hostVars, session, edits>>

ToggleGamepad ==
    /\ Ready("shown")
    /\ launcher' = [launcher EXCEPT !.preferences.gamepad =
                                       IF @ = "true" THEN "false" ELSE "true"]
    /\ UnchangedElsewhere

\* Quit, Escape, or the window is closed: the launcher ends.
Quit ==
    /\ Ready("shown")
    /\ launcher' = LauncherAs("gone", "none")
    /\ UnchangedElsewhere

-----------------------------------------------------------------------------
(* SaveAndLaunch.                                                            *)

CanPlay == launcher.valid /\ launcher.path

\* A step failed: the window says so, and the user may try again.
GivesUp ==
    launcher' = [launcher EXCEPT !.work = "none", !.mode = "none", !.saved = <<>>]

\* The settings are read again, and the new ones checked before any is written.
Save(mode) ==
    /\ Ready("shown") /\ CanPlay
    /\ StoreIsLoaded(settings)
    /\ LET entries == Serialized(settings.entries, launcher.preferences)
       IN  /\ IsConfigText(entries)
           /\ launcher' = [launcher EXCEPT !.work = "write", !.mode = mode, !.saved = entries]
    /\ UnchangedElsewhere

\* A plausible error: the settings file itself is truncated and written.
WriteInPlace ==
    /\ Working("write")
    /\ settings' = [kind |-> "file", entries |-> <<>>]
    /\ launcher' = [launcher EXCEPT !.work = "replace"]
    /\ UNCHANGED <<vars, process, session, edits>>

\* A temporary file beside the settings is written and flushed, or removed.
WriteTemporary ==
    /\ Working("write")
    /\ \/ launcher' = [launcher EXCEPT !.work = "replace"]
       \/ GivesUp
    /\ UnchangedElsewhere

\* The temporary file takes the place of the old one, or is removed.
ReplaceFile ==
    /\ Working("replace")
    /\ \/ /\ settings' = [kind |-> "file", entries |-> launcher.saved]
          /\ launcher' = [launcher EXCEPT !.work = "start", !.saved = <<>>]
       \/ GivesUp /\ UNCHANGED settings
    /\ UNCHANGED <<vars, process, session, edits>>

LaunchLine(mode) ==
    If(mode = "developer", <<[option |-> "developer", key |-> "", value |-> ""]>>)

\* CreateProcessW: from here the game runs, whatever becomes of the launcher.
StartGame ==
    /\ Working("start")
    /\ \/ /\ StartProcess(LaunchLine(launcher.mode))
          /\ launcher' = [launcher EXCEPT !.work = "watch", !.mode = "none"]
       \/ GivesUp /\ UNCHANGED hostVars
    /\ UNCHANGED <<vars, session, edits>>

\* A plausible error: the window is hidden although nobody watches the game.
WatchGameRegardless ==
    /\ Working("watch")
    /\ \E game \in {"watched", "left alone"} :
          launcher' = [launcher EXCEPT !.work = "none", !.window = "hidden", !.game = game]
    /\ UnchangedElsewhere

\* The game is watched and the window hidden; or it cannot be watched, and the
\* launcher leaves it alone.  The game may already have ended.
WatchGame ==
    /\ Working("watch")
    /\ \/ launcher' = [launcher EXCEPT !.work = "none", !.window = "hidden",
                                       !.game = "watched"]
       \/ launcher' = LauncherAs("gone", "left alone")
    /\ UnchangedElsewhere

\* A plausible error: only a game that is still there when it ends is noticed.
GameWaitCallbackOfRunning ==
    /\ launcher.game = "watched" /\ ~launcher.posted
    /\ process.phase \in {"failing", "leaving"}
    /\ launcher' = [launcher EXCEPT !.posted = TRUE]
    /\ UnchangedElsewhere

\* GameWaitCallback, on a thread of the system: a game that has ended stays so, and is
\* noticed however late the watch began.
GameWaitCallback ==
    /\ launcher.game = "watched" /\ ~launcher.posted /\ process.phase = "exited"
    /\ launcher' = [launcher EXCEPT !.posted = TRUE]
    /\ UnchangedElsewhere

\* OnGameExited: a game that ended well ends the launcher, any other brings its
\* window back.
OnGameExited ==
    /\ Ready("hidden") /\ launcher.posted
    /\ launcher' =
          IF process.exit = "success"
          THEN LauncherAs("gone", "ended well")
          ELSE [launcher EXCEPT !.window = "shown", !.game = "none", !.posted = FALSE]
    /\ process' = NoProcess
    /\ UNCHANGED <<vars, settings, session, edits>>

-----------------------------------------------------------------------------
(* The environment, and the composition.                                     *)

\* The launcher's process is lost.
LauncherCrashes ==
    /\ launcher.window \in {"shown", "hidden"} /\ launcher.work # "validate"
    /\ launcher' = LauncherAs("crashed", "none")
    /\ UnchangedElsewhere

EditSettings(file) ==
    /\ launcher.window \in {"none", "shown"} /\ launcher.work = "none"
    /\ edits < MaxEdits
    /\ settings' = file
    /\ edits' = edits + 1
    /\ UNCHANGED <<vars, process, session, launcher>>

HostInit ==
    /\ Init
    /\ session \in {"tool", "command line", "launcher"}
    /\ settings \in IF session = "tool" THEN {NoSettings} ELSE Documents
    /\ process = NoProcess /\ launcher = NoLauncher /\ edits = 0

LauncherSteps ==
    \/ \E known \in BOOLEAN : ShowWindow(known)
    \/ \E root \in {"source", "other"} : ChooseSource(root) \/ ChooseWrongFile(root)
    \/ Validated \/ ToggleGamepad \/ Quit
    \/ \E mode \in {"play", "developer"} : Save(mode)
    \/ WriteTemporary \/ ReplaceFile \/ StartGame \/ WatchGame \/ GameWaitCallback \/ OnGameExited

\* The launcher and its game find the settings in the same place.
Located == IF session = "launcher" THEN {launcher.path} ELSE BOOLEAN

HostNext ==
    \/ /\ session = "tool" /\ \E s \in Tools : Calls(s)
       /\ UNCHANGED <<hostVars, session, launcher, edits>>
    \/ /\ session = "command line" /\ process.phase = "none"
       /\ \E line \in CommandLines : StartProcess(line)
       /\ UNCHANGED <<vars, session, launcher, edits>>
    \/ /\ process.phase # "none" /\ ProcessSteps(Located)
       /\ UNCHANGED <<session, launcher, edits>>
    \/ /\ session = "launcher"
       /\ LauncherSteps \/ LauncherCrashes \/ \E file \in Documents : EditSettings(file)
    \/ (Steps \/ SourceSteps) /\ UNCHANGED <<hostVars, session, launcher, edits>>

HostSpec == HostInit /\ [][HostNext]_allVars

-----------------------------------------------------------------------------
(* What the user may rely on.                                                *)

\* A launcher that hides itself watches a game that it started; once the game has
\* ended, however early, it can always learn of it, and then come back or go.  It goes
\* away without a word only after a game that ended well, or one it could not watch.
\* The game it starts plays the very data that the launcher has opened, with the
\* movie and the settings that were shown.
LauncherStandsByItsGame ==
    /\ launcher.window = "hidden"
          => launcher.game = "watched" /\ process.phase # "none"
    /\ launcher.window = "hidden" /\ process.phase = "exited"
          => ENABLED (IF launcher.posted THEN OnGameExited ELSE GameWaitCallback)
    /\ launcher.window = "hidden" /\ process.phase = "starting"
          => /\ launcher.valid /\ launcher.preferences.root = "source"
             /\ process.launch.root = launcher.preferences.root
             /\ process.launch.movie = "member" => launcher.preferences.member # ""
    /\ launcher.window = "gone" /\ launcher.game = "none" => process.phase = "none"

\* Whatever fails or crashes while the launcher saves, the settings file is the
\* old one or the new one, whole and acceptable, and every entry that is not
\* the launcher's is still in it, in its place.
SettingsAreKept ==
    [][settings' # settings /\ edits' = edits
          => /\ settings'.kind = "file" /\ IsConfigText(settings'.entries)
             /\ Others(settings'.entries) = Others(settings.entries)
             /\ LoadedPreferences(settings') = launcher.preferences]_allVars

=============================================================================
