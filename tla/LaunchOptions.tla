---------------------------- MODULE LaunchOptions ----------------------------
(***************************************************************************)
(* What decides how the program starts: its command line, the settings     *)
(* file, the overrides of --set, and the content they select together.     *)
(* Everything here is a function of the arguments and of the file.         *)
(*                                                                         *)
(* An argument is [option, key, value]; key is used by --set alone and is  *)
(* empty when there is no KEY=VALUE.  A settings file is the sequence of   *)
(* its entries.                                                            *)
(***************************************************************************)
EXTENDS SequencesExt, FiniteSetsExt

CONSTANTS
    MaxOverrides,   \* kMaxLaunchConfigOverrides
    EntryBudget     \* ConfigLimits::max_entries

-----------------------------------------------------------------------------
(* The command line.                                                         *)

Flags == {"probe", "developer", "start", "capture", "replay", "help"}

\* "many" is a legal number of frames beyond what a capture can hold.
LegalValues ==
    [frames     |-> {"0", "2", "many"},
     screenshot |-> {"1"},
     root       |-> {"source", "other"},
     level      |-> {"known"},
     movie      |-> {"path"},
     member     |-> {"name"},
     config     |-> {"path"}]

LegalArgument(a) ==
    \/ a.option \in Flags
    \/ a.option = "set" /\ a.key # ""
    \/ a.option \in DOMAIN LegalValues /\ a.value \in LegalValues[a.option]

\* The options that cannot be given together, and those that need others.
Excludes ==
    [probe   |-> {"frames", "screenshot", "movie", "member", "start", "developer"},
     movie   |-> {"member"},
     start   |-> {"movie", "member"},
     capture |-> {"movie", "member", "start", "screenshot"}]

Requires ==
    [level   |-> {"root"},
     replay  |-> {"capture"},
     capture |-> {"frames", "developer"},
     start   |-> {"developer"}]

Given(line) == {a.option : a \in ToSet(line)}

ValueOf(line, option) ==
    IF option \in Given(line)
    THEN (CHOOSE a \in ToSet(line) : a.option = option).value ELSE ""

\* ParseLaunchOptions: every argument is legal and given once, and the
\* combination makes sense.  (Which message refuses it is not modelled.)
Accepted(line) ==
    LET given == Given(line)
    IN  /\ \A i \in DOMAIN line : LegalArgument(line[i])
        /\ \A i, j \in DOMAIN line :
              i # j => <<line[i].option, line[i].key>> # <<line[j].option, line[j].key>>
        /\ Len(SelectSeq(line, LAMBDA a : a.option = "set")) <= MaxOverrides
        /\ "help" \in given => Len(line) = 1
        /\ \A o \in given \cap DOMAIN Excludes : given \cap Excludes[o] = {}
        /\ \A o \in given \cap DOMAIN Requires : Requires[o] \subseteq given
        /\ "capture" \in given => ValueOf(line, "frames") \notin {"0", "many"}
        /\ "start" \in given => ValueOf(line, "frames") # "0"

Mode(given) ==
    CASE "help"    \in given -> "help"
      [] "probe"   \in given -> "probe"
      [] "replay"  \in given -> "replay"
      [] "capture" \in given -> "capture"
      [] "start"   \in given -> "diagnostic"
      [] OTHER               -> "normal"

\* LaunchOptions, as accepted.
Parsed(line) ==
    LET given == Given(line)
    IN  [mode   |-> Mode(given),
         root   |-> ValueOf(line, "root"),
         level  |-> "level" \in given,
         movie  |-> IF "movie" \in given THEN "path"
                    ELSE IF "member" \in given THEN "member" ELSE "none",
         frames |-> ValueOf(line, "frames"),
         config |-> "config" \in given,
         set    |-> {a \in ToSet(line) : a.option = "set"}]

-----------------------------------------------------------------------------
(* The settings file and the overrides.                                      *)

\* KeyError and ValueError.
LegalEntry(e) == e.key # "illegal" /\ e.value # "control byte"

\* ParseConfigText: no key twice, and no more entries than the budget.
IsConfigText(entries) ==
    /\ \A i \in DOMAIN entries : LegalEntry(entries[i])
    /\ IsInjective([i \in DOMAIN entries |-> entries[i].key])
    /\ Len(entries) <= EntryBudget

\* ConfigStore: its entries by key.
ConfigStore(entries) ==
    [k \in {e.key : e \in entries} |-> (CHOOSE e \in entries : e.key = k).value]

\* LoadConfigFile reads through a link and cannot read a directory.
IsReadable(file) == file.kind \in {"file", "link"}

\* LoadRuntimeConfig: an explicit file must be readable, whatever it is; the
\* default one may be missing, and must otherwise be a regular file.
ConfigIsRead(launch, located, file) ==
    IF launch.config THEN IsReadable(file) /\ IsConfigText(file.entries)
    ELSE located /\ file.kind # "missing" => file.kind = "file" /\ IsConfigText(file.entries)

FileEntries(launch, located, file) ==
    IF (launch.config \/ located) /\ IsReadable(file) THEN ToSet(file.entries) ELSE {}

\* ApplyOverride for each --set: it replaces an entry, or adds one within the
\* budget of the store.
Overridden(launch, loaded) ==
    ConfigStore({[key |-> a.key, value |-> a.value] : a \in launch.set}) @@ loaded

OverridesAreLegal(launch, loaded) ==
    /\ \A a \in launch.set : LegalEntry(a)
    /\ Cardinality(DOMAIN Overridden(launch, loaded)) <= EntryBudget

-----------------------------------------------------------------------------
(* The settings.                                                             *)

KnownSettings == {"root", "level", "member", "bounded", "step", "delta", "gamepad"}

\* The durations a file may hold, in order; the default step of the simulation
\* and the default limit on a frame's elapsed time.
Duration == [short |-> 1, step |-> 2, limit |-> 3, long |-> 4]

Setting(config, key, default) == IF key \in DOMAIN config THEN config[key] ELSE default

\* ResolveRuntimeSettings: "bounded" stands for each setting that only has
\* bounds of its own; the limit on elapsed time may not be below the step.
SettingsAreLegal(config) ==
    /\ DOMAIN config \subseteq KnownSettings
    /\ Setting(config, "bounded", "in range") = "in range"
    /\ Setting(config, "gamepad", "false") \in {"true", "false"}
    /\ LET step  == Setting(config, "step", "step")
           delta == Setting(config, "delta", "limit")
       IN  /\ step \in DOMAIN Duration /\ delta \in DOMAIN Duration
           /\ Duration[delta] >= Duration[step]

-----------------------------------------------------------------------------
(* The content.                                                              *)

\* ResolveConfiguredContentLaunchProfile: checked even when it will not be used.
ConfiguredContentIsLegal(config) ==
    /\ \/ DOMAIN config \cap {"level", "member"} = {}
       \/ "root" \in DOMAIN config
    /\ \A key \in {"root", "member"} \cap DOMAIN config : config[key] # ""
    /\ Setting(config, "level", "known") = "known"

\* A plausible error: the configured movie is not looked at.
ProfileIsLegalUnchecked(launch, config) == ConfiguredContentIsLegal(config)

\* ResolveContentLaunchProfile: a movie from the file has no place in a run that
\* plays none; but a root given directly drops all that the file selects.
ProfileIsLegal(launch, config) ==
    /\ ConfiguredContentIsLegal(config)
    /\ launch.root = "" /\ launch.movie = "none" /\ "member" \in DOMAIN config
          => launch.mode = "normal"

\* What main goes on with: the arguments merged with the configured content.
EffectiveLaunch(launch, config) ==
    LET direct == launch.root # ""
        root   == IF direct THEN launch.root ELSE Setting(config, "root", "")
    IN  [mode   |-> launch.mode,
         frames |-> launch.frames,
         root   |-> root,
         level  |-> IF direct THEN launch.level ELSE "level" \in DOMAIN config,
         movie  |-> IF ~direct /\ launch.movie = "none" /\ "member" \in DOMAIN config
                    THEN "member" ELSE launch.movie]

=============================================================================
