------------------------------ MODULE RunReplay ------------------------------
(***************************************************************************)
(* The replay of a captured run: RunReplaySession in                       *)
(* apps/openomega/run_replay_session.cpp, configured by ReplayFreshCapture *)
(* in main.cpp.  It has no store, no renderer and no identities; it        *)
(* repeats the menu and the play from the captured frames, and keeps a     *)
(* mirror of what a command would have made of the session.                *)
(*                                                                         *)
(* The program replays a capture once the run has returned.  The session   *)
(* reads its traces strictly in order and never past the frame it plays,   *)
(* so here each frame is replayed as soon as the run is done with it, and  *)
(* the two are compared frame by frame and not only at the end.            *)
(***************************************************************************)
EXTENDS RunLoop

VARIABLE replay    \* RunReplaySession

vars == <<launch, stored, app, cards, play, loop, result, capture, replay>>

\* The lists as they were before the run; the gate is closed whatever the store says.
ReplaySession(catalog) ==
    [state |-> "Ready", front_end |-> InitialFrontEndState,
     profiles |-> Len(catalog), by_profile |-> catalog,
     active_slot |-> None, characters |-> 0,
     can_create_first_profile |-> catalog = <<>>,
     profile_confirmed |-> FALSE, character_confirmed |-> FALSE,
     remainder |-> 0, position |-> Origin, trigger |-> NotInside,
     target |-> NotAcquired, mission |-> "Ready", plan |-> BeginFrame(0, 0)]

Init == RunInit /\ replay = ReplaySession(stored)

ReplayCapabilities ==
    [can_create_first_profile |-> replay.can_create_first_profile /\ replay.profiles = 0,
     can_start_campaign |-> TRUE, requires_active_profile |-> TRUE,
     supports_character_selection |-> TRUE,
     can_create_first_character |-> replay.characters = 0,
     requires_active_character |-> TRUE]

ReplayMenu == [profiles |-> replay.profiles, characters |-> replay.characters,
               profile_confirmed |-> replay.profile_confirmed,
               character_confirmed |-> replay.character_confirmed]

\* A plausible error: the profile of a created character is not mirrored.
MirroredWithoutCreatedCharacter(command) ==
    CASE command.type = "ConfirmProfileOwner" /\ command.profile_slot < Len(replay.by_profile) ->
            [replay EXCEPT !.profile_confirmed = TRUE, !.active_slot = command.profile_slot,
                           !.characters = replay.by_profile[command.profile_slot + 1]]
      [] command.type = "CreateProfileOwner" ->
            [replay EXCEPT !.profiles = 1, !.by_profile = <<0>>]
      [] command.type = "ConfirmAgent" -> [replay EXCEPT !.character_confirmed = TRUE]
      [] OTHER -> replay

\* What a command that succeeded leaves in the mirror.  A create opens no gate.
Mirrored(command) ==
    CASE command.type = "CreateProfileOwner" ->
            [replay EXCEPT !.profiles = 1, !.by_profile = <<0>>,
                           !.can_create_first_profile = FALSE]
      [] command.type = "ConfirmProfileOwner" ->
            LET slot == command.profile_slot
                confirmed == IsShown(slot, replay.profiles)
            IN [replay EXCEPT !.profile_confirmed = confirmed, !.character_confirmed = FALSE,
                              !.active_slot = IF confirmed THEN slot ELSE None,
                              !.characters = IF confirmed THEN replay.by_profile[slot + 1] ELSE 0]
      [] command.type = "CreateAgent" ->
            [replay EXCEPT !.characters = 1,
                           !.by_profile = IF replay.active_slot = None THEN @
                                          ELSE [@ EXCEPT ![replay.active_slot + 1] = 1]]
      [] command.type = "ConfirmAgent" ->
            [replay EXCEPT !.character_confirmed =
                replay.profile_confirmed /\ IsShown(command.character_slot, replay.characters)]
      [] OTHER -> replay

Failed == [replay EXCEPT !.state = "Failed"]

ReplayReduction(input) ==
    ReduceFrontEnd(replay.front_end,
                   ResolveFrontEndInputEdges(replay.front_end.mode, input.pressed),
                   ReplayMenu, ReplayCapabilities)
Deploys(input) == ReplayReduction(input).command.type = "StartCampaign"

\* The session once the command is mirrored and, with it, the mission deployed.
SessionAfter(input) ==
    LET mirror == Mirrored(ReplayReduction(input).command)
    IN IF Deploys(input)
       THEN [mirror EXCEPT !.mission = MissionAfter(@, "Deploy"),
                           !.trigger = NotInside, !.target = NotAcquired]
       ELSE mirror

\* Play goes on as it was when the frame began; the fire is judged by the objective
\* as it was then.
FrameAgain(input, elapsed) ==
    LET session == SessionAfter(input)
        allowed == AllowsSimulation(ReplayReduction(input).state, ReplayCapabilities,
                                    session.profile_confirmed, session.character_confirmed)
    IN PlayedFrame(session, input, elapsed, allowed, replay.front_end.mode = "Gameplay",
                   replay.trigger.objective_complete)

EventAgain(input, target) ==
    LET aborted_now == /\ replay.front_end.mode = "Gameplay" /\ replay.mission = "Active"
                       /\ ReplayReduction(input).state.mode # "Gameplay"
    IN MissionEvent(SessionAfter(input).mission, aborted_now, SessionAfter(input).target, target)

\* One frame with its elapsed time.  The actor of a deployed mission is put back only
\* behind the steps.
Replayed(input, elapsed) ==
    LET session == SessionAfter(input)
        state == ReplayReduction(input).state
        frame == FrameAgain(input, elapsed)
        plan == frame.plan
        path == IF Deploys(input) THEN [k \in DOMAIN frame.path |-> Origin] ELSE frame.path
        event == EventAgain(input, frame.target)
    IN IF \/ Deploys(input) /\ MissionRejects(replay.mission, "Deploy")
          \/ frame.steps < plan.steps
          \/ MissionRejects(session.mission, event)
       THEN Failed
       ELSE [session EXCEPT
               !.front_end = IF event = "Complete"
                             THEN ReturnToBriefing(state, ReplayCapabilities) ELSE state,
               !.remainder = plan.remainder,
               !.position = IF Deploys(input) THEN Origin
                            ELSE IF plan.steps = 0 THEN @ ELSE frame.path[plan.steps],
               !.trigger = AdvanceProximityTrigger(@, path, plan.steps),
               !.target = frame.target, !.mission = MissionAfter(@, event), !.plan = plan]

\* A frame the run is done with and the replay has not read.
Unread == Captures /\ loop.pc \in {"rendered", "quit"} /\ capture.inputs.unread # <<>>

\* RunReplaySession::Next.  The marked frame ends the replay and changes nothing else.
ReplayNext ==
    /\ Unread
    /\ LET pair == Finish(capture)
       IN /\ replay' = IF replay.state # "Ready" \/ ~CanRead(pair) THEN Failed
                       ELSE IF ReadsTerminal(pair) THEN [replay EXCEPT !.state = "Complete"]
                       ELSE Replayed(Head(pair.inputs.unread), Head(pair.times.unread))
          /\ capture' = [capture EXCEPT !.inputs = Skip(@), !.times = Skip(@)]
    /\ UNCHANGED <<launch, stored, app, cards, play, loop, result>>

Returned == loop.pc = "returned"

Next == \/ ~Unread /\ RunStep /\ UNCHANGED replay
        \/ ReplayNext
        \/ Returned /\ UNCHANGED vars

Spec == Init /\ [][Next]_vars

-------------------------------------------------------------------------------
(* Properties.                                                             *)

\* The replay never fails, and after every frame its menu, scheduler, actor,
\* objective, target and mission are those of the captured run, although it carries
\* no command out and asks the gate of a mirror instead of the session's identities.
\* main.cpp compares the two only once, at the end of the run.
ReplayReproducesTheRun ==
    /\ replay.state # "Failed"
    /\ Captures /\ loop.pc \in {"rendered", "quit"} /\ ~Unread =>
         /\ replay.front_end = app.front_end
         /\ \A part \in DOMAIN play : replay[part] = play[part]
         /\ replay.profile_confirmed = ActiveProfileIsConfirmed(app)
         /\ replay.character_confirmed = ActiveCharacterIsConfirmed(app)
         /\ loop.pc = "rendered" => replay.plan = loop.plan
         /\ loop.pc = "quit" <=> replay.state = "Complete"

\* Play is on exactly while a mission is active, and then a profile and one of its
\* characters were confirmed in this session, or the diagnostic start is not used up;
\* creating an entry alone never opens the gate.
GameplayIsAuthorized ==
    loop.pc \in {"frame", "rendered", "quit"} =>
        /\ app.front_end.mode = "Gameplay" <=> play.mission = "Active"
        /\ app.front_end.mode = "Gameplay" =>
              launch.active \/ (/\ app.active_profile # None /\ app.active_character # None
                                /\ ActiveCharacterIsConfirmed(app))
        /\ launch.active => app.front_end.mode = "Gameplay"

\* The menu shows the lists and identities that are stored, except after a create
\* that was stored and reported as failed, which ends the run; and the GPU host
\* holds exactly the character cards the session can show and release.
ShownIsStored ==
    /\ cards = (IF app.card THEN 1 ELSE 0) + (IF app.first_card THEN 1 ELSE 0)
    /\ app.active_profile # None =>
         /\ app.active_profile + 1 \in DOMAIN stored
         /\ app.card
    /\ loop.pc \notin {"leaving", "returned"} =>
         /\ app.profiles = Len(stored)
         /\ app.active_profile # None => app.characters = stored[app.active_profile + 1]
         /\ app.first_card => app.characters = 0
         /\ app.active_character # None => app.active_character < app.characters

\* What the menu shows and lets the user do is what is stored and confirmed.
MenuIsTruthful == GameplayIsAuthorized /\ ShownIsStored

\* What the program requires of a capture before it replays it.
IsCompleteRunCaptureOutcome ==
    /\ loop.pc = "returned" /\ loop.completion = "FrameLimitReached"
    /\ {result.rendered_frames, result.input_frames, capture.maximum,
        capture.inputs.count, capture.times.count} = {FrameLimit}
    /\ ~result.quit_requested /\ result.unexecuted = 0 /\ ~capture.terminal.marked

\* A capture keeps its two traces in step whatever ends the run: it never refuses a
\* frame, it can be finished and replayed, one frame more was read than timed exactly
\* if the last one asked to quit, and a run that ends at its limit left a complete
\* capture.
CaptureKeepsStep ==
    loop.pc = "returned" =>
        /\ loop.completion # "CaptureFailure"
        /\ Captures =>
             /\ IsReplayable(Finish(capture))
             /\ capture.inputs.count = result.input_frames
             /\ capture.terminal.marked <=> result.quit_requested
             /\ result.quit_requested => capture.times.count = result.rendered_frames
             /\ loop.completion = "QuitRequested" => result.quit_requested
             /\ loop.completion = "FrameLimitReached" => IsCompleteRunCaptureOutcome

\* Every frame's time is played, kept for the next frame or dropped in whole steps, at
\* most the frame budget is played, and none of it is played while the menu is up.
TimeIsPlayedOrDropped ==
    [][(loop.pc = "simulate" /\ loop'.pc = "render") =>
         LET plan == loop'.plan
             given == IF app.front_end.mode = "Gameplay" THEN ClampedDelta(loop.elapsed) ELSE 0
         IN /\ play.remainder + given =
                 plan.steps * SimulationStep + plan.dropped_time + play'.remainder
            /\ play'.remainder \in 0..(SimulationStep - 1)
            /\ plan.steps <= MaxStepsPerFrame /\ plan.dropped_time % SimulationStep = 0
            /\ plan.dropped_time > 0 => plan.steps = MaxStepsPerFrame
            /\ app.front_end.mode # "Gameplay" =>
                 play'.position = play.position /\ play'.remainder = play.remainder]_vars

===============================================================================
