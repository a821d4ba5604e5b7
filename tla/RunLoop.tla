------------------------------- MODULE RunLoop -------------------------------
(***************************************************************************)
(* OmegaApp's run in apps/openomega/omega_app.cpp: Run, RunWithCapture and *)
(* RunLoop frame by frame, with the menu, the commands it gives and the    *)
(* diagnostic play behind it.                                              *)
(*                                                                         *)
(* One thread runs all of it; a frame is cut into the parts between which  *)
(* a return is possible.  The opening movie is over (OpeningMovie has it)  *)
(* and the retail preview is off.  Entries of the two catalogs are named   *)
(* by their position in identifier order; NativePersistence has what the   *)
(* store does with a command, here a command is refused, carried out, or   *)
(* carried out and reported as failed.                                     *)
(***************************************************************************)
EXTENDS FrontEnd, Gameplay, RunCapture

CONSTANTS
    Catalogs,     \* characters of each profile stored before the start
    Inputs,       \* input frames: [pressed, held, pointer, host_quit]
    Elapsed,      \* times between two frames
    FrameLimit    \* frame_limit of the run

ASSUME FrameLimitAssumption == FrameLimit \in Nat \ {0}
ASSUME RunAssumption ==
    /\ \A catalog \in Catalogs : catalog \in Seq(Nat)
    /\ \A input \in Inputs : input.host_quit \in BOOLEAN
    /\ Elapsed \subseteq Int

VARIABLES
    launch,     \* the start of this run and whether its diagnostic play is active
    stored,     \* characters of each profile in the store
    app,        \* the menu, the models it shows and the session's identities
    cards,      \* character textures alive in the GPU host
    play,       \* scheduler remainder, actor, objective, target and mission
    loop,       \* the place in RunLoop, and the frame's locals
    result,     \* RunResult
    capture     \* capture_session, or NoCapture

runVars == <<launch, stored, app, cards, play, loop, result, capture>>

None == -1    \* an empty optional identifier
NoCapture == [phase |-> "none"]
Captures == capture # NoCapture

\* Nothing is selected at startup, whatever the store remembers.
StartedApp(catalog) ==
    [front_end |-> InitialFrontEndState, profiles |-> Len(catalog), characters |-> 0,
     active_profile |-> None, active_character |-> None,
     can_create_first_profile |-> catalog = <<>>, can_create_first_character |-> FALSE,
     card |-> FALSE, first_card |-> FALSE]

NewPlay == [remainder |-> 0, position |-> Origin, trigger |-> NotInside,
            target |-> NotAcquired, mission |-> "Ready"]

\* RunResult; the steps planned in all that were not executed, instead of both totals.
NewResult == [input_frames |-> 0, rendered_frames |-> 0, unexecuted |-> 0,
              clamped_frames |-> 0, dropped_frames |-> 0, quit_requested |-> FALSE]

RunInit ==
    /\ launch \in [start : {"capture", "current", "diagnostic", "retail"}, active : {FALSE}]
    /\ stored \in Catalogs
    /\ app = StartedApp(stored)
    /\ cards = 0
    /\ play = NewPlay
    /\ loop = [pc |-> "start"]
    /\ result = NewResult
    /\ capture = IF launch.start = "capture" THEN NewCapture(FrameLimit) ELSE NoCapture

-------------------------------------------------------------------------------
(* What the session offers the reducer.                                    *)

ActiveProfileIsConfirmed(a) == IsShown(a.active_profile, a.profiles)
ActiveCharacterIsConfirmed(a) ==
    ActiveProfileIsConfirmed(a) /\ IsShown(a.active_character, a.characters)

\* The explicit diagnostic start needs no identity while its play lasts.
CurrentFrontEndCapabilities(a, diagnostic) ==
    LET exempt == diagnostic /\ a.front_end.mode = "Gameplay"
    IN [can_create_first_profile |-> a.can_create_first_profile,
        can_start_campaign |->
            exempt \/ (ActiveProfileIsConfirmed(a) /\ ActiveCharacterIsConfirmed(a)),
        requires_active_profile |-> ~exempt,
        supports_character_selection |-> ~exempt,
        can_create_first_character |-> ~exempt /\ a.can_create_first_character,
        requires_active_character |-> ~exempt]

Menu(a) == [profiles |-> a.profiles, characters |-> a.characters,
            profile_confirmed |-> ActiveProfileIsConfirmed(a),
            character_confirmed |-> ActiveCharacterIsConfirmed(a)]

SimulationIsAllowed(a, diagnostic) ==
    AllowsSimulation(a.front_end, CurrentFrontEndCapabilities(a, diagnostic),
                     ActiveProfileIsConfirmed(a), ActiveCharacterIsConfirmed(a))

-------------------------------------------------------------------------------
(* ApplyFrontEndCommand: the outcomes of a command.  An outcome is what    *)
(* the command leaves: [ok, app, stored, cards, play].                     *)

Unchanged == [ok |-> TRUE, app |-> app, stored |-> stored, cards |-> cards, play |-> play]
Fails == [Unchanged EXCEPT !.ok = FALSE]

\* Everything that can fail comes before the durable create; what is shown follows
\* it at once.  A create that is reported as failed may still have been stored.
CreateFirstProfile ==
    IF app.can_create_first_profile /\ app.profiles = 0 /\ stored = <<>>
    THEN {Fails, [Fails EXCEPT !.stored = <<0>>],
          [Unchanged EXCEPT !.stored = <<0>>, !.app.profiles = 1,
                            !.app.can_create_first_profile = FALSE]}
    ELSE {Fails}

\* A plausible error: the card of the empty list is not released.
CreateFirstCharacterLeaking ==
    IF app.can_create_first_character /\ ActiveProfileIsConfirmed(app)
    THEN {Fails, [Unchanged EXCEPT !.stored[app.active_profile + 1] = 1, !.app.characters = 1,
                    !.app.first_card = FALSE, !.app.can_create_first_character = FALSE]}
    ELSE {Fails}

\* The preview becomes the card and the empty card is released.
CreateFirstCharacter ==
    IF /\ app.can_create_first_character /\ app.card /\ app.first_card
       /\ ActiveProfileIsConfirmed(app) /\ app.characters = 0
       /\ stored[app.active_profile + 1] = 0
    THEN LET created == [stored EXCEPT ![app.active_profile + 1] = 1]
         IN {Fails, [Fails EXCEPT !.stored = created],
             [Unchanged EXCEPT !.stored = created, !.app.characters = 1, !.cards = @ - 1,
                               !.app.first_card = FALSE, !.app.can_create_first_character = FALSE]}
    ELSE {Fails}

\* The live characters of the profile are listed and their cards built before the
\* profile is confirmed: an empty list also gets the preview of its first character.
\* A failure leaves the session as it was and no card behind.
SetActiveProfile(slot) ==
    IF IsShown(slot, app.profiles)
    THEN LET characters == stored[slot + 1]
             built == IF characters = 0 THEN 2 ELSE 1
             owned == (IF app.card THEN 1 ELSE 0) + (IF app.first_card THEN 1 ELSE 0)
         IN {Fails,
             [Unchanged EXCEPT
                !.cards = @ + built - owned,
                !.app = [@ EXCEPT !.card = TRUE, !.first_card = characters = 0,
                                  !.characters = characters,
                                  !.can_create_first_character = characters = 0,
                                  !.active_profile = slot, !.active_character = None]]}
    ELSE {Fails}

SetActiveCharacter(slot) ==
    IF ActiveProfileIsConfirmed(app) /\ IsShown(slot, app.characters)
    THEN {Fails, [Unchanged EXCEPT !.app.active_character = slot]}
    ELSE {Fails}

\* DeployDiagnosticMission puts the actor back and forgets the previous play.
DeployDiagnosticMission ==
    IF MissionRejects(play.mission, "Deploy") THEN Fails
    ELSE [Unchanged EXCEPT !.play =
            [NewPlay EXCEPT !.remainder = play.remainder,
                            !.mission = MissionAfter(play.mission, "Deploy")]]

StartDiagnosticCampaign ==
    IF ActiveProfileIsConfirmed(app) /\ ActiveCharacterIsConfirmed(app)
    THEN {Fails, DeployDiagnosticMission}
    ELSE {Fails}

ApplyFrontEndCommand(command) ==
    CASE command.type = "CreateProfileOwner" -> CreateFirstProfile
      [] command.type = "CreateAgent" -> CreateFirstCharacter
      [] command.type = "ConfirmAgent" -> SetActiveCharacter(command.character_slot)
      [] command.type = "StartCampaign" -> StartDiagnosticCampaign
      [] command.type = "ConfirmProfileOwner" -> SetActiveProfile(command.profile_slot)
      [] OTHER -> {Unchanged}

-------------------------------------------------------------------------------
(* The frame.                                                              *)

\* The run is over; RunWithCapture still has to finish the capture.
Leave(failure) == loop' = [pc |-> "leaving", failure |-> failure]

\* PrepareRunStart: the diagnostic start goes from the untouched title into play
\* without an identity, or does not start at all.
PrepareRunStart ==
    /\ loop.pc = "start"
    /\ \/ /\ launch.start # "diagnostic"
          /\ loop' = [pc |-> "frame"]
          /\ UNCHANGED <<launch, app, play>>
       \/ /\ launch.start = "diagnostic" /\ app.front_end = InitialFrontEndState
          /\ DeployDiagnosticMission.ok
          /\ play' = DeployDiagnosticMission.play
          /\ app' = [app EXCEPT !.front_end.mode = "Gameplay"]
          /\ launch' = [launch EXCEPT !.active = TRUE]
          /\ loop' = [pc |-> "frame"]
       \/ /\ launch.start = "diagnostic"
          /\ Leave("operational")
          /\ UNCHANGED <<launch, app, play>>
    /\ UNCHANGED <<stored, cards, result, capture>>

Reduction(input) ==
    ReduceFrontEnd(app.front_end, ResolveFrontEndInputEdges(app.front_end.mode, input.pressed),
                   Menu(app), CurrentFrontEndCapabilities(app, launch.active))

\* The frame's input is captured, and marked as the last one if it asks to quit: by
\* the host, by the quit action, or by the reducer, while the capture can still take
\* it.  Only the developer diagnostics may present what this build shows.
PumpInput ==
    /\ loop.pc = "frame" /\ result.rendered_frames < FrameLimit
    /\ \E input \in Inputs :
         LET logical == "quit" \in input.pressed
             quits == input.host_quit \/ logical
             reduction == Reduction(input)
             asks == ~quits /\ reduction.command.type = "RequestQuit"
             taken == IF Captures
                      THEN AppendInput(capture, [frame |-> result.input_frames, input |-> input])
                      ELSE capture
             marked == IF Captures /\ taken # Refused /\ (quits \/ asks)
                       THEN MarkTerminal(taken, input.host_quit, logical \/ asks) ELSE taken
         IN CASE launch.start = "retail" ->
                   Leave("operational") /\ UNCHANGED <<result, capture>>
              [] launch.start # "retail" /\ taken = Refused ->
                   Leave("capture") /\ UNCHANGED <<result, capture>>
              [] launch.start # "retail" /\ taken # Refused /\ marked = Refused ->
                   /\ Leave("capture") /\ capture' = taken
                   /\ result' = [result EXCEPT !.input_frames = @ + 1]
              [] OTHER ->
                   /\ capture' = marked
                   /\ result' = [result EXCEPT !.input_frames = @ + 1,
                                               !.quit_requested = quits \/ asks]
                   /\ IF quits \/ asks THEN loop' = [pc |-> "quit"]
                      ELSE loop' = [pc |-> "apply", input |-> input, reduction |-> reduction]
    /\ UNCHANGED <<launch, stored, app, cards, play>>

\* Back in the menu the diagnostic start is used up.
StillActive(front_end) == launch.active /\ front_end.mode = "Gameplay"

CapturedTime(elapsed) == IF Captures THEN AppendElapsed(capture, elapsed) ELSE capture

\* The frame's time is captured and its command is carried out; only then is the
\* reduced state published.  A refused command ends the run.
ApplyCommand ==
    /\ loop.pc = "apply"
    /\ \E elapsed \in Elapsed, o \in ApplyFrontEndCommand(loop.reduction.command) :
         LET taken == CapturedTime(elapsed)
             was_playing == app.front_end.mode = "Gameplay"
             front_end == loop.reduction.state
         IN IF taken = Refused
            THEN Leave("capture") /\ UNCHANGED <<launch, stored, app, cards, play, capture>>
            ELSE /\ capture' = taken
                 /\ stored' = o.stored /\ cards' = o.cards /\ play' = o.play
                 /\ IF ~o.ok
                    THEN Leave("operational") /\ app' = o.app /\ UNCHANGED launch
                    ELSE /\ app' = [o.app EXCEPT !.front_end = front_end]
                         /\ launch' = [launch EXCEPT !.active = StillActive(front_end)]
                         /\ loop' = [pc |-> "simulate", input |-> loop.input,
                                     elapsed |-> elapsed, was_playing |-> was_playing,
                                     aborted_now |-> /\ was_playing /\ o.play.mission = "Active"
                                                     /\ front_end.mode # "Gameplay"]
    /\ UNCHANGED result

\* What a frame of play computes from the play before it; the replay runs the same
\* rules.  `seen` is whether the objective is looked at, from `from` on.
PlayedFrame(before, input, elapsed, allowed, was_playing, objective_complete) ==
    LET plan == BeginFrame(before.remainder, IF allowed THEN elapsed ELSE 0)
        delta == IF allowed /\ was_playing THEN PlanDebugLocomotionStep(input.held) ELSE <<0, 0>>
        steps == Executed(before.position, delta, plan.steps)
    IN [plan |-> plan, steps |-> steps,
        path |-> [k \in 1..plan.steps |-> At(before.position, delta, k)],
        target |-> AdvanceTargetFire(before.target,
                      allowed /\ was_playing /\ objective_complete, input.pointer,
                      "target" \in input.held, "fire" \in input.pressed)]

Simulate ==
    /\ loop.pc = "simulate"
    /\ LET allowed == SimulationIsAllowed(app, launch.active)
           frame == PlayedFrame(play, loop.input, loop.elapsed, allowed, loop.was_playing,
                                play.trigger.objective_complete)
           plan == frame.plan
           event == MissionEvent(play.mission, loop.aborted_now, play.target, frame.target)
           moved == [play EXCEPT !.remainder = plan.remainder,
                        !.position = IF frame.steps = 0 THEN @ ELSE frame.path[frame.steps]]
       IN /\ result' = [result EXCEPT
                !.unexecuted = @ + plan.steps - frame.steps,
                !.clamped_frames = @ + (IF plan.clamped THEN 1 ELSE 0),
                !.dropped_frames = @ + (IF plan.dropped THEN 1 ELSE 0)]
          /\ IF frame.steps < plan.steps \/ MissionRejects(play.mission, event)
             THEN Leave("operational") /\ play' = moved /\ UNCHANGED <<launch, app>>
             ELSE /\ play' = [moved EXCEPT
                        !.trigger = IF allowed
                                    THEN AdvanceProximityTrigger(@, frame.path, plan.steps) ELSE @,
                        !.target = frame.target,
                        !.mission = MissionAfter(@, event)]
                  /\ app' = IF event = "Complete" THEN [app EXCEPT !.front_end =
                                ReturnToBriefing(@, CurrentFrontEndCapabilities(app, launch.active))]
                            ELSE app
                  /\ launch' = [launch EXCEPT !.active = StillActive(app'.front_end)]
                  /\ loop' = [pc |-> "render", plan |-> plan]
    /\ UNCHANGED <<stored, cards, capture>>

\* The picture is drawn, or the run ends on a renderer error.
Render ==
    /\ loop.pc = "render"
    /\ \/ /\ result' = [result EXCEPT !.rendered_frames = @ + 1]
          /\ loop' = [pc |-> "rendered", plan |-> loop.plan]
       \/ Leave("operational") /\ UNCHANGED result
    /\ UNCHANGED <<launch, stored, app, cards, play, capture>>

\* Behind the loop the audio is contained once more, which can still fail the run.
EndRun == \E failure \in {"none", "operational"} : Leave(failure)

NextFrame ==
    /\ loop.pc = "rendered"
    /\ IF result.rendered_frames < FrameLimit THEN loop' = [pc |-> "frame"] ELSE EndRun
    /\ UNCHANGED <<launch, stored, app, cards, play, result, capture>>

Quit ==
    /\ loop.pc = "quit"
    /\ EndRun
    /\ UNCHANGED <<launch, stored, app, cards, play, result, capture>>

\* RunWithCapture finishes the capture and names how the run ended.
Completion(failure) ==
    CASE failure = "capture" \/ (Captures /\ ~CanFinish(capture)) -> "CaptureFailure"
      [] failure = "operational" /\ (Captures => CanFinish(capture)) -> "OperationalFailure"
      [] /\ failure = "none" /\ result.quit_requested
         /\ (Captures => CanFinish(capture)) -> "QuitRequested"
      [] OTHER -> "FrameLimitReached"

Return ==
    /\ loop.pc = "leaving"
    /\ loop' = [pc |-> "returned", completion |-> Completion(loop.failure)]
    /\ UNCHANGED <<launch, stored, app, cards, play, result, capture>>

RunStep ==
    PrepareRunStart \/ PumpInput \/ ApplyCommand \/ Simulate \/ Render \/ NextFrame
        \/ Quit \/ Return

===============================================================================
