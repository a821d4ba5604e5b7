--------------------------- MODULE RunReplayProofs ---------------------------
(***************************************************************************)
(* For any catalogs, inputs, times, frame limit and scheduler: the replay  *)
(* of a captured run repeats it frame by frame, the menu shows what is     *)
(* stored and opens play only to a confirmed character, a capture keeps    *)
(* its traces in step, and no time is lost.                                *)
(***************************************************************************)
EXTENDS RunReplay, WellFoundedInduction, SequenceTheorems, TLAPS

(***************************************************************************)
(* What the values are.                                                    *)
(***************************************************************************)

Modes == {"Title", "ProfileOwnerStaging", "AgentSelection", "BriefingRoom", "Gameplay",
          "AgentCreation", "Controls", "AssetTopology"}

Slots == 0..(VisibleSlots - 1)
MenuStates == [mode : Modes, row : 0..3, profile_slot : Slots, character_slot : Slots]
FrontEndStates == {s \in MenuStates : s.row \in RowsOf[s.mode]}

CommandTypes == {"None", "RequestQuit", "ConfirmProfileOwner", "CreateProfileOwner",
                 "CreateAgent", "ConfirmAgent", "StartCampaign"}
Commands == [type : CommandTypes, profile_slot : Nat, character_slot : Nat]
Reductions == [state : FrontEndStates, command : Commands]

Apps == [front_end : FrontEndStates, profiles : Nat, characters : Nat,
         active_profile : Nat \cup {None}, active_character : Nat \cup {None},
         can_create_first_profile : BOOLEAN, can_create_first_character : BOOLEAN,
         card : BOOLEAN, first_card : BOOLEAN]

Remainders == 0..(SimulationStep - 1)
Positions == {p \in Int \X Int : IsRepresentable(p)}
Triggers == [inside : BOOLEAN, objective_complete : BOOLEAN]
Targets == [acquired : BOOLEAN, target_complete : BOOLEAN]
Missions == {"Ready", "Active", "Succeeded", "Failed"}
Plays == [remainder : Remainders, position : Positions, trigger : Triggers,
          target : Targets, mission : Missions]
Plans == [steps : Nat, clamped : BOOLEAN, dropped : BOOLEAN, dropped_time : Nat,
          remainder : Remainders]

Results == [input_frames : Nat, rendered_frames : Nat, unexecuted : Nat,
            clamped_frames : Nat, dropped_frames : Nat, quit_requested : BOOLEAN]

Captured ==
    [phase : {"AwaitInput", "AwaitElapsedOrTerminal", "Terminal"}, maximum : Nat,
     inputs : [count : Nat, unread : Seq(Inputs)], times : [count : Nat, unread : Seq(Elapsed)],
     pending : Nat,
     terminal : [marked : BOOLEAN, frame : Nat, host : BOOLEAN, logical : BOOLEAN]]

Replays ==
    [state : {"Ready", "Complete", "Failed"}, front_end : FrontEndStates, profiles : Nat,
     by_profile : Seq(Nat), active_slot : Nat \cup {None}, characters : Nat,
     can_create_first_profile : BOOLEAN, profile_confirmed : BOOLEAN,
     character_confirmed : BOOLEAN, remainder : Remainders, position : Positions,
     trigger : Triggers, target : Targets, mission : Missions, plan : Plans]

(***************************************************************************)
(* The inductive invariant.                                                *)
(***************************************************************************)

InFrame == loop.pc \notin {"leaving", "returned"}

\* The places in the loop, with their locals.
LoopOK ==
    \/ loop \in [pc : {"start", "frame", "quit"}]
    \/ \E input \in Inputs :
          loop = [pc |-> "apply", input |-> input, reduction |-> Reduction(input)]
    \/ loop \in [pc : {"simulate"}, input : Inputs, elapsed : Elapsed, was_playing : BOOLEAN,
                 aborted_now : BOOLEAN]
    \/ loop \in [pc : {"render", "rendered"}, plan : Plans]
    \/ loop \in [pc : {"leaving"}, failure : {"none", "operational"}]
    \/ loop \in [pc : {"returned"},
                 completion : {"OperationalFailure", "QuitRequested", "FrameLimitReached"}]

RunTypes ==
    /\ launch \in [start : {"capture", "current", "diagnostic", "retail"}, active : BOOLEAN]
    /\ stored \in Seq(Nat)
    /\ app \in Apps
    /\ LoopOK
    /\ result \in Results
    /\ capture \in IF launch.start = "capture" THEN Captured ELSE {NoCapture}
    /\ InFrame => play \in Plays

\* The session: a profile that is active is shown, its list is the stored one and its
\* card is built; a character that is active is in that list.
StoredSession(a, s, c, whole) ==
    /\ c = (IF a.card THEN 1 ELSE 0) + (IF a.first_card THEN 1 ELSE 0)
    /\ a.active_profile = None => ~a.card /\ ~a.first_card
    /\ a.active_profile # None => a.card /\ a.active_profile + 1 \in DOMAIN s
    /\ whole =>
         /\ a.profiles = Len(s)
         /\ a.can_create_first_profile <=> a.profiles = 0
         /\ a.active_profile = None =>
              a.characters = 0 /\ ~a.can_create_first_character /\ a.active_character = None
         /\ a.active_profile # None =>
              /\ ActiveProfileIsConfirmed(a)
              /\ a.characters = s[a.active_profile + 1]
              /\ a.can_create_first_character <=> a.characters = 0
              /\ a.first_card <=> a.characters = 0
         /\ a.active_character # None => IsShown(a.active_character, a.characters)

SessionIsStored == StoredSession(app, stored, cards, InFrame)

\* Play and mission go together, except that a frame which leaves play still has to
\* report it.
PlayIsAuthorized ==
    InFrame =>
      /\ app.front_end.mode = "Gameplay" =>
           /\ play.mission = "Active"
           /\ launch.active \/ ActiveCharacterIsConfirmed(app)
      /\ play.mission = "Active" =>
           \/ app.front_end.mode = "Gameplay"
           \/ loop.pc = "simulate" /\ loop.aborted_now
      /\ launch.active => launch.start = "diagnostic" /\ app.front_end.mode = "Gameplay"
      /\ loop.pc = "simulate" =>
           (loop.aborted_now <=> play.mission = "Active" /\ app.front_end.mode # "Gameplay")
      /\ loop.pc = "start" => app.front_end = InitialFrontEndState /\ play.mission = "Ready"

\* The frames taken and the frames drawn.
FramesAreCounted ==
    LET f == result.rendered_frames
    IN /\ f <= FrameLimit
       /\ loop.pc = "start" => f = 0
       /\ loop.pc \in {"apply", "simulate", "render"} => f < FrameLimit
       /\ loop.pc \in {"start", "frame", "rendered"} => result.input_frames = f
       /\ loop.pc \in {"apply", "simulate", "render", "quit"} => result.input_frames = f + 1
       /\ result.quit_requested => result.input_frames = f + 1
       /\ InFrame => result.unexecuted = 0 /\ (result.quit_requested <=> loop.pc = "quit")
       /\ loop.pc = "leaving" /\ loop.failure = "none" /\ ~result.quit_requested =>
            f = FrameLimit /\ result.input_frames = f /\ result.unexecuted = 0
       /\ loop.pc = "returned" =>
            /\ loop.completion = "QuitRequested" => result.quit_requested
            /\ loop.completion = "FrameLimitReached" =>
                 /\ f = FrameLimit /\ result.input_frames = f /\ result.unexecuted = 0
                 /\ ~result.quit_requested

\* Both traces hold what the run has taken, the frame in hand unread.
TracesAreInStep ==
    Captures =>
      LET n == result.input_frames
      IN /\ capture.maximum = FrameLimit
         /\ capture.inputs.count = n
         /\ capture.terminal.marked <=> result.quit_requested
         /\ capture.phase = "Terminal" <=> result.quit_requested
         /\ result.quit_requested =>
              /\ capture.terminal.frame = n - 1
              /\ capture.terminal.host \/ capture.terminal.logical
              /\ capture.times.count = n - 1 /\ n <= FrameLimit
         /\ ~result.quit_requested /\ loop.pc # "apply" =>
              capture.phase = "AwaitInput" /\ capture.times.count = n /\ n <= FrameLimit
         /\ loop.pc \in {"start", "frame"} =>
              capture.inputs.unread = <<>> /\ capture.times.unread = <<>>
         /\ loop.pc = "apply" =>
              /\ capture.phase = "AwaitElapsedOrTerminal" /\ capture.pending = n - 1
              /\ capture.times.count = n - 1
              /\ capture.inputs.unread = <<loop.input>> /\ capture.times.unread = <<>>
         /\ loop.pc = "simulate" =>
              /\ capture.inputs.unread = <<loop.input>>
              /\ capture.times.unread = <<loop.elapsed>>
         /\ loop.pc = "render" =>
              Len(capture.inputs.unread) = 1 /\ Len(capture.times.unread) = 1
         /\ loop.pc = "rendered" =>
              \/ Len(capture.inputs.unread) = 1 /\ Len(capture.times.unread) = 1
              \/ capture.inputs.unread = <<>> /\ capture.times.unread = <<>>
         /\ loop.pc = "quit" =>
              /\ capture.inputs.unread = <<>> \/ Len(capture.inputs.unread) = 1
              /\ capture.times.unread = <<>>

\* The mirror r shows the lists s and what the session a has confirmed of them.
MirrorsSession(r, a, s) ==
    /\ r.state = "Ready"
    /\ r.profiles = a.profiles /\ r.characters = a.characters
    /\ r.by_profile = s /\ r.active_slot = a.active_profile
    /\ r.can_create_first_profile <=> a.profiles = 0
    /\ r.profile_confirmed <=> ActiveProfileIsConfirmed(a)
    /\ r.character_confirmed <=> ActiveCharacterIsConfirmed(a)

RepeatsPlay(r, p) ==
    /\ r.remainder = p.remainder /\ r.position = p.position
    /\ r.trigger = p.trigger /\ r.target = p.target /\ r.mission = p.mission

Repeats(r) ==
    /\ r.front_end = app.front_end
    /\ MirrorsSession(r, app, stored)
    /\ RepeatsPlay(r, play)

\* The run has applied the frame and not yet played it; the replay has not read it.
IsApplied(input) ==
    LET r == SessionAfter(input)
    IN /\ r \in Replays
       /\ ReplayReduction(input).state = app.front_end
       /\ MirrorsSession(r, app, stored)
       /\ r.remainder = play.remainder /\ r.trigger = play.trigger
       /\ r.target = play.target /\ r.mission = play.mission
       /\ IF Deploys(input)
          THEN ~MissionRejects(replay.mission, "Deploy") /\ play.position = Origin
          ELSE r.position = play.position
       /\ loop.was_playing <=> replay.front_end.mode = "Gameplay"
       /\ loop.was_playing => ~Deploys(input) /\ replay.trigger = play.trigger
       /\ loop.aborted_now <=>
            /\ loop.was_playing /\ replay.mission = "Active"
            /\ app.front_end.mode # "Gameplay"

\* The run has played the frame, and the replay will come to the same.
IsPlayed(r) == r \in Replays /\ Repeats(r) /\ r.plan = loop.plan

ReplayFollows ==
    /\ replay \in Replays /\ replay.state # "Failed"
    /\ Captures =>
         /\ loop.pc \in {"start", "frame", "apply"} => Repeats(replay)
         /\ loop.pc = "simulate" => replay.state = "Ready" /\ IsApplied(loop.input)
         /\ loop.pc = "render" \/ (loop.pc = "rendered" /\ Unread) =>
              /\ replay.state = "Ready"
              /\ IsPlayed(Replayed(Head(capture.inputs.unread), Head(capture.times.unread)))
         /\ loop.pc = "rendered" /\ ~Unread => IsPlayed(replay)
         /\ loop.pc = "quit" =>
              /\ Unread => Repeats(replay)
              /\ ~Unread => /\ replay.state = "Complete"
                            /\ Repeats([replay EXCEPT !.state = "Ready"])

RunInvariant ==
    /\ RunTypes
    /\ SessionIsStored
    /\ PlayIsAuthorized
    /\ FramesAreCounted
    /\ TracesAreInStep
    /\ ReplayFollows

-------------------------------------------------------------------------------
(***************************************************************************)
(* The menu.                                                               *)
(***************************************************************************)

Edges == [primary : BOOLEAN, previous : BOOLEAN, next : BOOLEAN, cancel : BOOLEAN]
Menus == [profiles : Nat, characters : Nat, profile_confirmed : BOOLEAN,
          character_confirmed : BOOLEAN]
Capabilities ==
    [can_create_first_profile : BOOLEAN, can_start_campaign : BOOLEAN,
     requires_active_profile : BOOLEAN, supports_character_selection : BOOLEAN,
     can_create_first_character : BOOLEAN, requires_active_character : BOOLEAN]

\* A list shows its first entries, and nothing only if it is empty.
LEMMA ShownEntries ==
    ASSUME NEW total \in Nat
    PROVE  /\ Visible(total) \in Nat
           /\ Visible(total) <= VisibleSlots
           /\ Visible(total) = 0 <=> total = 0
           /\ \A id \in Nat : IsShown(id, total) <=> id < Visible(total)
           /\ \A id \in Nat : IsShown(id, total) => id < total /\ id < VisibleSlots
           /\ ~IsShown(None, total)
BY VisibleSlotsAssumption DEF Visible, IsShown, None

\* What a frame's pressed actions mean to the menu.
LEMMA EdgesType ==
    ASSUME NEW mode, NEW pressed
    PROVE  ResolveFrontEndInputEdges(mode, pressed) \in Edges
BY DEF ResolveFrontEndInputEdges, Edges

\* The rows of the modes that have more than one or lead to one; the first state is valid.
LEMMA ModeRows ==
    /\ RowsOf["Title"] = {0, 1, 2} /\ RowsOf["ProfileOwnerStaging"] = {0, 1}
    /\ RowsOf["AgentSelection"] = {0, 1} /\ RowsOf["BriefingRoom"] = {0, 1}
    /\ RowsOf["Gameplay"] = {0, 1} /\ RowsOf["AgentCreation"] = {0}
    /\ InitialFrontEndState \in FrontEndStates
    /\ \A s \in FrontEndStates : IsValidFrontEndState(s)
<1>1. /\ RowsOf["Title"] = {0, 1, 2} /\ RowsOf["ProfileOwnerStaging"] = {0, 1}
      /\ RowsOf["AgentSelection"] = {0, 1} /\ RowsOf["BriefingRoom"] = {0, 1}
      /\ RowsOf["Gameplay"] = {0, 1} /\ RowsOf["AgentCreation"] = {0}
      /\ RowsOf["Controls"] = {2} /\ RowsOf["AssetTopology"] = {3}
  BY DEF RowsOf, CreateAgentRow, LoadAgentRow, QuitRow, AssetTopologyRow
<1>2. InitialFrontEndState \in FrontEndStates
  BY <1>1, VisibleSlotsAssumption
     DEF InitialFrontEndState, FrontEndStates, MenuStates, Slots, Modes, CreateAgentRow
<1>3. \A s \in FrontEndStates : IsValidFrontEndState(s)
  BY DEF FrontEndStates, MenuStates, Slots, IsValidFrontEndState
<1> QED
  BY <1>1, <1>2, <1>3

\* Two sessions that offer the same answer the same frame alike.
OffersTheSame(menu, c, d) ==
    /\ c.supports_character_selection = d.supports_character_selection
    /\ c.can_create_first_profile <=> d.can_create_first_profile
    /\ ProfileIsUsable(menu) /\ Visible(menu.characters) = 0 =>
         (c.can_create_first_character <=> d.can_create_first_character)
    /\ GameplayIsPermitted(menu, c) <=> GameplayIsPermitted(menu, d)

\* They may differ in what the menu does not look at: ReduceFrontEnd answers the same.
LEMMA SameReduction ==
    ASSUME NEW prior, NEW input, NEW menu, NEW c, NEW d, OffersTheSame(menu, c, d)
    PROVE  ReduceFrontEnd(prior, input, menu, c) = ReduceFrontEnd(prior, input, menu, d)
<1> DEFINE state == Clamped(prior, menu)
<1> HIDE DEF state
<1>1. MayStay(state, menu, c) <=> MayStay(state, menu, d)
  BY DEF MayStay, OffersTheSame
<1>2. AfterPlay(state, c) = AfterPlay(state, d)
  BY DEF AfterPlay, OffersTheSame
<1>3. Cancel(state, c) = Cancel(state, d)
  BY <1>2 DEF Cancel
<1>4. ASSUME NEW s, NEW t PROVE Owner(s, t, menu, c) = Owner(s, t, menu, d)
  BY DEF Owner, OffersTheSame
<1>5. TitlePrimary(state, menu, c) = TitlePrimary(state, menu, d)
  BY <1>4 DEF TitlePrimary, TitleCreate, OffersTheSame
<1>6. CreationPrimary(state, menu, c) = CreationPrimary(state, menu, d)
  BY <1>4 DEF CreationPrimary, OffersTheSame
<1>7. ASSUME NEW selected
      PROVE  StagingPrimary(state, selected, menu, c) = StagingPrimary(state, selected, menu, d)
  BY <1>4 DEF StagingPrimary
<1>8. Primary(state, prior, menu, c) = Primary(state, prior, menu, d)
  BY <1>2, <1>5, <1>6, <1>7 DEF Primary
<1> QED
  BY <1>1, <1>3, <1>8 DEF ReduceFrontEnd, state

\* Another mode, row or position of a valid state.
LEMMA ValidStates ==
    ASSUME NEW s \in FrontEndStates
    PROVE  /\ s \in MenuStates
           /\ s.mode \in Modes /\ s.row \in RowsOf[s.mode] /\ s.row \in 0..3
           /\ s.profile_slot \in Slots /\ s.character_slot \in Slots
           /\ \A mode \in Modes : s.row \in RowsOf[mode] =>
                /\ [s EXCEPT !.mode = mode] \in FrontEndStates
                /\ [s EXCEPT !.mode = mode, !.character_slot = 0] \in FrontEndStates
           /\ \A row \in 0..3 : row \in RowsOf[s.mode] => [s EXCEPT !.row = row] \in FrontEndStates
           /\ \A k, n \in Slots :
                /\ [s EXCEPT !.profile_slot = k] \in FrontEndStates
                /\ [s EXCEPT !.character_slot = n] \in FrontEndStates
                /\ [s EXCEPT !.profile_slot = k, !.character_slot = n] \in FrontEndStates
<1>1. s \in MenuStates /\ s.row \in RowsOf[s.mode]
  BY DEF FrontEndStates
<1>2. 0 \in Slots
  BY VisibleSlotsAssumption DEF Slots
<1>3. ASSUME NEW mode \in Modes, s.row \in RowsOf[mode]
      PROVE  /\ [s EXCEPT !.mode = mode] \in FrontEndStates
             /\ [s EXCEPT !.mode = mode, !.character_slot = 0] \in FrontEndStates
  BY <1>1, <1>2, <1>3 DEF FrontEndStates, MenuStates
<1>4. ASSUME NEW row \in 0..3, row \in RowsOf[s.mode]
      PROVE  [s EXCEPT !.row = row] \in FrontEndStates
  BY <1>1, <1>4 DEF FrontEndStates, MenuStates
<1>5. ASSUME NEW k \in Slots, NEW n \in Slots
      PROVE  /\ [s EXCEPT !.profile_slot = k] \in FrontEndStates
             /\ [s EXCEPT !.character_slot = n] \in FrontEndStates
             /\ [s EXCEPT !.profile_slot = k, !.character_slot = n] \in FrontEndStates
  BY <1>1 DEF FrontEndStates, MenuStates
<1>6. /\ s.mode \in Modes /\ s.row \in 0..3
      /\ s.profile_slot \in Slots /\ s.character_slot \in Slots
  BY <1>1 DEF MenuStates
<1> QED
  BY <1>1, <1>3, <1>4, <1>5, <1>6

\* Positions are clamped to what is shown; the mode and the row stay.
LEMMA ClampedState ==
    ASSUME NEW prior \in FrontEndStates, NEW menu \in Menus
    PROVE  /\ Clamped(prior, menu) \in FrontEndStates
           /\ Clamped(prior, menu).mode = prior.mode /\ Clamped(prior, menu).row = prior.row
<1> DEFINE k == IF IsShown(prior.profile_slot, menu.profiles) THEN prior.profile_slot ELSE 0
           n == IF IsShown(prior.character_slot, menu.characters) THEN prior.character_slot ELSE 0
<1>1. 0 \in Slots
  BY VisibleSlotsAssumption DEF Slots
<1>2. k \in Slots /\ n \in Slots
  BY <1>1, ValidStates
<1>3. Clamped(prior, menu) = [prior EXCEPT !.profile_slot = k, !.character_slot = n]
  BY DEF Clamped
<1> HIDE DEF k, n
<1>4. Clamped(prior, menu) \in FrontEndStates
  <2>1. \A i, j \in Slots :
           [prior EXCEPT !.profile_slot = i, !.character_slot = j] \in FrontEndStates
    BY ValidStates
  <2> QED
    BY <1>2, <1>3, <2>1
<1>5. Clamped(prior, menu).mode = prior.mode /\ Clamped(prior, menu).row = prior.row
  BY <1>3, ValidStates DEF MenuStates
<1> QED
  BY <1>4, <1>5

\* A position moves within its list.
LEMMA MovedType ==
    ASSUME NEW position \in Nat, NEW size \in Nat, NEW limit \in Nat, NEW input,
           position < limit, size <= limit
    PROVE  Moved(position, size, input) \in 0..(limit - 1)
BY DEF Moved

\* A row or a position moves within its list.
LEMMA NavigateType ==
    ASSUME NEW s \in FrontEndStates, NEW menu \in Menus, NEW input
    PROVE  Navigate(s, input, menu) \in FrontEndStates /\ Navigate(s, input, menu).mode = s.mode
<1>1. /\ s \in MenuStates /\ s.profile_slot \in Nat /\ s.character_slot \in Nat
      /\ s.profile_slot < VisibleSlots /\ s.character_slot < VisibleSlots
  <2>1. s.profile_slot \in Slots /\ s.character_slot \in Slots
    BY ValidStates
  <2>2. \A k \in Slots : k \in Nat /\ k < VisibleSlots
    BY VisibleSlotsAssumption DEF Slots
  <2> QED
    BY <2>1, <2>2, ValidStates
<1>2. /\ Visible(menu.profiles) \in Nat /\ Visible(menu.profiles) <= VisibleSlots
      /\ Visible(menu.characters) \in Nat /\ Visible(menu.characters) <= VisibleSlots
  BY ShownEntries DEF Menus
<1>3. CASE s.mode = "Title"
  <2>1. s.row \in {0, 1, 2}
    BY <1>3, ValidStates, ModeRows
  <2>2. Moved(s.row, QuitRow + 1, input) \in 0..2
    BY <2>1 DEF Moved, QuitRow
  <2>3. Moved(s.row, QuitRow + 1, input) \in 0..3 /\ Moved(s.row, QuitRow + 1, input) \in RowsOf[s.mode]
    BY <1>3, <2>2, ModeRows
  <2>4. Navigate(s, input, menu) = [s EXCEPT !.row = Moved(s.row, QuitRow + 1, input)]
    BY <1>3 DEF Navigate
  <2>5. Navigate(s, input, menu) \in FrontEndStates
    BY <2>3, <2>4, ValidStates
  <2>6. Navigate(s, input, menu).mode = s.mode
    BY <1>1, <2>4 DEF MenuStates
  <2> QED
    BY <2>5, <2>6
<1>4. CASE s.mode = "ProfileOwnerStaging"
  <2>1. Moved(s.profile_slot, Visible(menu.profiles), input) \in Slots
    BY <1>1, <1>2, MovedType, VisibleSlotsAssumption DEF Slots
  <2>2. Navigate(s, input, menu)
          = [s EXCEPT !.profile_slot = Moved(s.profile_slot, Visible(menu.profiles), input)]
    BY <1>4 DEF Navigate
  <2>3. Navigate(s, input, menu) \in FrontEndStates
    BY <1>1, <2>1, <2>2, ValidStates
  <2>4. Navigate(s, input, menu).mode = s.mode
    BY <1>1, <2>2 DEF MenuStates
  <2> QED
    BY <2>3, <2>4
<1>5. CASE s.mode = "AgentSelection"
  <2>1. Moved(s.character_slot, Visible(menu.characters), input) \in Slots
    BY <1>1, <1>2, MovedType, VisibleSlotsAssumption DEF Slots
  <2>2. Navigate(s, input, menu)
          = [s EXCEPT !.character_slot = Moved(s.character_slot, Visible(menu.characters), input)]
    BY <1>5 DEF Navigate
  <2>3. Navigate(s, input, menu) \in FrontEndStates
    BY <1>1, <2>1, <2>2, ValidStates
  <2>4. Navigate(s, input, menu).mode = s.mode
    BY <1>1, <2>2 DEF MenuStates
  <2> QED
    BY <2>3, <2>4
<1>6. CASE s.mode \notin {"Title", "ProfileOwnerStaging", "AgentSelection"}
  BY <1>6 DEF Navigate
<1> QED
  BY <1>3, <1>4, <1>5, <1>6

\* Leaving play, a completed mission and a cancel lead to valid states out of play.
LEMMA LeavingPlay ==
    ASSUME NEW s \in FrontEndStates, NEW caps
    PROVE  /\ s.mode = "Gameplay" =>
                AfterPlay(s, caps) \in FrontEndStates /\ ReturnToBriefing(s, caps) \in FrontEndStates
           /\ AfterPlay(s, caps).mode # "Gameplay" /\ ReturnToBriefing(s, caps).mode # "Gameplay"
           /\ Cancel(s, caps) \in FrontEndStates /\ Cancel(s, caps).mode # "Gameplay"
<1>1. s \in MenuStates
  BY ValidStates
<1>2. /\ InitialFrontEndState \in FrontEndStates
      /\ InitialFrontEndState.mode = "Title"
      /\ \A row : [InitialFrontEndState EXCEPT !.row = row].mode = "Title"
  BY ModeRows DEF InitialFrontEndState
<1>3. ASSUME s.mode = "Gameplay"
      PROVE  /\ [s EXCEPT !.mode = "BriefingRoom"] \in FrontEndStates
             /\ [s EXCEPT !.mode = "BriefingRoom", !.row = CreateAgentRow] \in FrontEndStates
  <2>1. s.row \in RowsOf["BriefingRoom"] /\ CreateAgentRow \in RowsOf["BriefingRoom"]
    BY <1>3, ValidStates, ModeRows DEF CreateAgentRow
  <2>2. [s EXCEPT !.mode = "BriefingRoom"] \in FrontEndStates
    BY <2>1, ValidStates DEF Modes
  <2> DEFINE t == [s EXCEPT !.mode = "BriefingRoom"]
  <2>3. /\ [s EXCEPT !.mode = "BriefingRoom", !.row = CreateAgentRow]
             = [t EXCEPT !.row = CreateAgentRow]
        /\ t.mode = "BriefingRoom"
    BY <1>1 DEF MenuStates
  <2> HIDE DEF t
  <2>4. CreateAgentRow \in 0..3 /\ t \in FrontEndStates
    BY <2>2 DEF CreateAgentRow, t
  <2>5. [t EXCEPT !.row = CreateAgentRow] \in FrontEndStates
    BY <2>1, <2>3, <2>4, ValidStates
  <2> QED
    BY <2>2, <2>3, <2>5
<1>4. ASSUME s.mode \in {"ProfileOwnerStaging", "AgentSelection"}
      PROVE  [InitialFrontEndState EXCEPT !.row = s.row] \in FrontEndStates
  <2>1. s.row \in RowsOf["Title"] /\ s.row \in 0..3
    BY <1>4, ValidStates, ModeRows
  <2> QED
    BY <1>2, <2>1, ValidStates
<1>5. ASSUME s.mode = "BriefingRoom"
      PROVE  [s EXCEPT !.mode = "AgentSelection"] \in FrontEndStates
  <2>1. s.row \in RowsOf["AgentSelection"]
    BY <1>5, ValidStates, ModeRows
  <2> QED
    BY <2>1, ValidStates DEF Modes
<1>6. /\ \A mode \in Modes : [s EXCEPT !.mode = mode].mode = mode
      /\ \A mode \in Modes : \A row : [s EXCEPT !.mode = mode, !.row = row].mode = mode
  BY <1>1 DEF MenuStates
<1>7. AfterPlay(s, caps).mode # "Gameplay" /\ ReturnToBriefing(s, caps).mode # "Gameplay"
  BY <1>2, <1>6 DEF AfterPlay, ReturnToBriefing, Modes
<1>8. s.mode = "Gameplay" =>
         AfterPlay(s, caps) \in FrontEndStates /\ ReturnToBriefing(s, caps) \in FrontEndStates
  BY <1>2, <1>3 DEF AfterPlay, ReturnToBriefing
<1>9. Cancel(s, caps) \in FrontEndStates
  BY <1>2, <1>4, <1>5, <1>8 DEF Cancel
<1>10. Cancel(s, caps).mode # "Gameplay"
  BY <1>2, <1>6, <1>7 DEF Cancel, Modes
<1> QED
  BY <1>7, <1>8, <1>9, <1>10

\* Answers that stay in the menu.
MenuReductions ==
    {r \in Reductions : r.state.mode # "Gameplay" /\ r.command.type # "StartCampaign"}

\* The answers the menu is built from.
LEMMA MenuAnswers ==
    ASSUME NEW s \in FrontEndStates
    PROVE  /\ Show(s).state = s /\ Show(s).command.type = "None" /\ Show(s) \in Reductions
           /\ \A type \in CommandTypes :
                /\ Ask(s, type).state = s /\ Ask(s, type).command.type = type
                /\ Ask(s, type) \in Reductions
           /\ s.mode # "Gameplay" =>
                /\ Show(s) \in MenuReductions
                /\ \A type \in CommandTypes \ {"StartCampaign"} : Ask(s, type) \in MenuReductions
                /\ \A type \in CommandTypes \ {"StartCampaign"}, slot \in Slots :
                      AskFor(s, type, slot) \in MenuReductions
<1>1. Slots \subseteq Nat
  BY DEF Slots
<1>2. NoCommand \in Commands /\ NoCommand.type = "None"
  BY DEF NoCommand, Commands, CommandTypes
<1>3. Show(s).state = s /\ Show(s).command.type = "None" /\ Show(s) \in Reductions
  BY <1>2 DEF Show, Reductions
<1>4. ASSUME NEW type \in CommandTypes
      PROVE  /\ Ask(s, type).state = s /\ Ask(s, type).command.type = type
             /\ Ask(s, type) \in Reductions
  BY <1>2 DEF Ask, Reductions, Commands, NoCommand
<1>5. ASSUME NEW type \in CommandTypes, NEW slot \in Slots
      PROVE  /\ AskFor(s, type, slot).state = s /\ AskFor(s, type, slot).command.type = type
             /\ AskFor(s, type, slot) \in Reductions
  BY <1>1 DEF AskFor, Reductions, Commands
<1>6. s.mode # "Gameplay" => Show(s) \in MenuReductions
  BY <1>3 DEF MenuReductions
<1>7. ASSUME s.mode # "Gameplay", NEW type \in CommandTypes \ {"StartCampaign"}
      PROVE  /\ Ask(s, type) \in MenuReductions
             /\ \A slot \in Slots : AskFor(s, type, slot) \in MenuReductions
  BY <1>4, <1>5, <1>7 DEF MenuReductions
<1> QED
  BY <1>3, <1>4, <1>6, <1>7

\* Confirming or creating an owner stays in the menu.
LEMMA OwnerType ==
    ASSUME NEW s \in FrontEndStates, NEW t \in FrontEndStates, NEW menu, NEW caps,
           s.mode # "Gameplay", t.mode # "Gameplay"
    PROVE  Owner(s, t, menu, caps) \in MenuReductions
<1>1. s.profile_slot \in Slots
  BY ValidStates
<1>2. /\ AskFor(s, "ConfirmProfileOwner", s.profile_slot) \in MenuReductions
      /\ Ask(s, "CreateProfileOwner") \in MenuReductions
      /\ Show(t) \in MenuReductions
  BY <1>1, MenuAnswers DEF CommandTypes
<1> QED
  BY <1>2 DEF Owner

\* The other modes a menu leads to, and the position it leads to in them.
LEMMA OtherMode ==
    ASSUME NEW s \in FrontEndStates, NEW mode \in Modes, s.row \in RowsOf[mode]
    PROVE  /\ [s EXCEPT !.mode = mode] \in FrontEndStates
           /\ [s EXCEPT !.mode = mode].mode = mode
           /\ [s EXCEPT !.mode = mode, !.character_slot = 0] \in FrontEndStates
           /\ [s EXCEPT !.mode = mode, !.character_slot = 0].mode = mode
<1>1. s \in MenuStates
  BY ValidStates
<1> QED
  BY <1>1, ValidStates DEF MenuStates

\* The title opens or confirms an owner and starts no play.
LEMMA TitlePrimaryType ==
    ASSUME NEW s \in FrontEndStates, NEW menu, NEW caps, s.mode = "Title"
    PROVE  TitlePrimary(s, menu, caps) \in MenuReductions
<1>1. s.row \in {0, 1, 2} /\ s.profile_slot \in Slots
  BY ValidStates, ModeRows
<1>2. Ask(s, "RequestQuit") \in MenuReductions /\ Show(s) \in MenuReductions
  BY MenuAnswers DEF CommandTypes
<1>3. ASSUME s.row = LoadAgentRow
      PROVE  TitleLoad(s, menu) \in MenuReductions
  <2> DEFINE t == [s EXCEPT !.mode = "AgentSelection", !.character_slot = 0]
  <2>1. "AgentSelection" \in Modes /\ s.row \in RowsOf["AgentSelection"]
    BY <1>3, ModeRows DEF Modes, LoadAgentRow
  <2>2. t \in FrontEndStates /\ t.mode = "AgentSelection"
    BY <2>1, OtherMode
  <2> HIDE DEF t
  <2>3. /\ Show(t) \in MenuReductions
        /\ AskFor(t, "ConfirmProfileOwner", s.profile_slot) \in MenuReductions
    BY <1>1, <2>2, MenuAnswers DEF CommandTypes
  <2> QED
    BY <1>2, <2>3 DEF TitleLoad, t
<1>4. ASSUME s.row = CreateAgentRow
      PROVE  TitleCreate(s, menu, caps) \in MenuReductions
  <2> DEFINE t == [s EXCEPT !.mode = "AgentCreation", !.character_slot = 0]
  <2>1. "AgentCreation" \in Modes /\ s.row \in RowsOf["AgentCreation"]
    BY <1>4, ModeRows DEF Modes, CreateAgentRow
  <2>2. t \in FrontEndStates /\ t.mode = "AgentCreation"
    BY <2>1, OtherMode
  <2>3. InitialFrontEndState \in FrontEndStates /\ InitialFrontEndState.mode = "Title"
    BY ModeRows DEF InitialFrontEndState
  <2> HIDE DEF t
  <2>4. Show(t) \in MenuReductions
    BY <2>2, MenuAnswers
  <2>5. Owner(t, InitialFrontEndState, menu, caps) \in MenuReductions
    BY <2>2, <2>3, OwnerType
  <2> QED
    BY <2>4, <2>5 DEF TitleCreate, t
<1> QED
  BY <1>1, <1>2, <1>3, <1>4 DEF TitlePrimary, QuitRow, LoadAgentRow, CreateAgentRow

\* Creating an agent starts no play.
LEMMA CreationPrimaryType ==
    ASSUME NEW s \in FrontEndStates, NEW menu, NEW caps, s.mode = "AgentCreation"
    PROVE  CreationPrimary(s, menu, caps) \in MenuReductions
<1> DEFINE t == [s EXCEPT !.mode = "AgentSelection", !.character_slot = 0]
<1>1. "AgentSelection" \in Modes /\ s.row \in RowsOf["AgentSelection"] /\ s.profile_slot \in Slots
  BY ValidStates, ModeRows DEF Modes
<1>2. t \in FrontEndStates /\ t.mode = "AgentSelection"
  BY <1>1, OtherMode
<1> HIDE DEF t
<1>3. Show(s) \in MenuReductions /\ AskFor(t, "CreateAgent", s.profile_slot) \in MenuReductions
  BY <1>1, <1>2, MenuAnswers DEF CommandTypes
<1>4. Owner(s, s, menu, caps) \in MenuReductions
  BY OwnerType
<1> QED
  BY <1>3, <1>4 DEF CreationPrimary, t

\* Selecting an agent leads to the briefing and starts no play.
LEMMA SelectionPrimaryType ==
    ASSUME NEW s \in FrontEndStates, NEW selected, s.mode = "AgentSelection"
    PROVE  SelectionPrimary(s, selected) \in MenuReductions
<1> DEFINE t == [s EXCEPT !.mode = "BriefingRoom"]
<1>1. "BriefingRoom" \in Modes /\ s.row \in RowsOf["BriefingRoom"]
  BY ValidStates, ModeRows DEF Modes
<1>2. t \in FrontEndStates /\ t.mode = "BriefingRoom"
  BY <1>1, OtherMode
<1> HIDE DEF t
<1>3. s.profile_slot \in Nat /\ s.character_slot \in Nat
  <2>1. s.profile_slot \in Slots /\ s.character_slot \in Slots
    BY ValidStates
  <2> QED
    BY <2>1 DEF Slots
<1>4. [type |-> "ConfirmAgent", profile_slot |-> s.profile_slot,
       character_slot |-> s.character_slot] \in Commands
  BY <1>3 DEF Commands, CommandTypes
<1>5. [state |-> t, command |-> [type |-> "ConfirmAgent", profile_slot |-> s.profile_slot,
                                 character_slot |-> s.character_slot]] \in MenuReductions
  BY <1>2, <1>4 DEF MenuReductions, Reductions
<1>6. Show(s) \in MenuReductions
  BY MenuAnswers
<1> QED
  BY <1>5, <1>6 DEF SelectionPrimary, t

\* Staging an owner leads to its agents and starts no play.
LEMMA StagingPrimaryType ==
    ASSUME NEW s \in FrontEndStates, NEW selected, NEW menu, NEW caps,
           s.mode = "ProfileOwnerStaging"
    PROVE  StagingPrimary(s, selected, menu, caps) \in MenuReductions
<1> DEFINE mode == IF s.row = CreateAgentRow THEN "AgentCreation" ELSE "AgentSelection"
           t == [s EXCEPT !.mode = mode, !.character_slot = 0]
<1>1. mode \in Modes /\ s.row \in RowsOf[mode] /\ s.profile_slot \in Slots /\ mode # "Gameplay"
  BY ValidStates, ModeRows DEF Modes, CreateAgentRow
<1> HIDE DEF mode
<1>2. t \in FrontEndStates /\ t.mode = mode
  BY <1>1, OtherMode
<1> HIDE DEF t
<1>3. Show(s) \in MenuReductions /\ AskFor(t, "ConfirmProfileOwner", s.profile_slot) \in MenuReductions
  BY <1>1, <1>2, MenuAnswers DEF CommandTypes
<1>4. Owner(s, s, menu, caps) \in MenuReductions
  BY OwnerType
<1> QED
  BY <1>3, <1>4 DEF StagingPrimary, t, mode

\* What an answer may do about play: only the briefing starts it, with a campaign that is
\* permitted, and only a frame without a command keeps it.
SoundAnswer(prior, permitted, r) ==
    /\ r \in Reductions
    /\ r.state.mode = "Gameplay" => permitted
    /\ r.state.mode = "Gameplay" =>
         \/ r.command.type = "StartCampaign"
         \/ prior.mode = "Gameplay" /\ r.command.type = "None"
    /\ r.command.type = "StartCampaign" =>
         r.state.mode = "Gameplay" /\ prior.mode = "BriefingRoom"
    /\ prior.mode = "Gameplay" => r.command.type = "None"

\* ReduceFrontEnd, for any state, input and lists.
LEMMA ReductionIsSound ==
    ASSUME NEW prior \in FrontEndStates, NEW input, NEW menu \in Menus, NEW caps,
           caps.supports_character_selection \in BOOLEAN
    PROVE  SoundAnswer(prior, GameplayIsPermitted(menu, caps),
                       ReduceFrontEnd(prior, input, menu, caps))
<1> DEFINE s == Clamped(prior, menu)
           permitted == GameplayIsPermitted(menu, caps)
<1>1. s \in FrontEndStates /\ s.mode = prior.mode /\ s.mode \in Modes
  BY ClampedState, ValidStates
<1> HIDE DEF s
<1>2. Show(InitialFrontEndState) \in MenuReductions
      /\ Show(InitialFrontEndState).command.type = "None"
  <2>1. InitialFrontEndState \in FrontEndStates /\ InitialFrontEndState.mode = "Title"
    BY ModeRows DEF InitialFrontEndState
  <2> QED
    BY <2>1, MenuAnswers
<1>3. ASSUME NEW r \in MenuReductions, prior.mode = "Gameplay" => r.command.type = "None"
      PROVE  SoundAnswer(prior, permitted, r)
  BY <1>3 DEF SoundAnswer, MenuReductions
<1>4. SoundAnswer(prior, permitted, Show(InitialFrontEndState))
  BY <1>2, <1>3
<1>5. SoundAnswer(prior, permitted, Show(Cancel(s, caps)))
  <2>1. Cancel(s, caps) \in FrontEndStates /\ Cancel(s, caps).mode # "Gameplay"
    BY <1>1, LeavingPlay
  <2>2. Show(Cancel(s, caps)) \in MenuReductions /\ Show(Cancel(s, caps)).command.type = "None"
    BY <2>1, MenuAnswers
  <2> QED
    BY <1>3, <2>2
<1>6. ASSUME MayStay(s, menu, caps),
             NEW t \in FrontEndStates, t.mode = s.mode
      PROVE  SoundAnswer(prior, permitted, Show(t))
  <2>1. Show(t).state = t /\ Show(t).command.type = "None" /\ Show(t) \in Reductions
    BY MenuAnswers
  <2>2. s.mode = "Gameplay" => permitted
    BY <1>6 DEF MayStay
  <2> QED
    BY <1>1, <1>6, <2>1, <2>2 DEF SoundAnswer
<1>7. ASSUME MayStay(s, menu, caps)
      PROVE  SoundAnswer(prior, permitted, Primary(s, prior, menu, caps))
  <2>1. CASE s.mode \in {"Title", "AgentCreation", "AgentSelection", "ProfileOwnerStaging"}
    <3>1. Primary(s, prior, menu, caps) \in MenuReductions
      BY <1>1, <2>1, TitlePrimaryType, CreationPrimaryType, SelectionPrimaryType,
         StagingPrimaryType DEF Primary
    <3> QED
      BY <1>1, <1>3, <2>1, <3>1
  <2>2. CASE s.mode = "BriefingRoom"
    <3> DEFINE t == [s EXCEPT !.mode = "Gameplay"]
    <3>1. "Gameplay" \in Modes /\ s.row \in RowsOf["Gameplay"]
      BY <1>1, <2>2, ValidStates, ModeRows DEF Modes
    <3>2. t \in FrontEndStates /\ t.mode = "Gameplay"
      BY <1>1, <3>1, OtherMode
    <3>3. Primary(s, prior, menu, caps) = Ask(t, "StartCampaign")
      BY <2>2 DEF Primary
    <3> HIDE DEF t
    <3>4. /\ Ask(t, "StartCampaign").state = t
          /\ Ask(t, "StartCampaign").command.type = "StartCampaign"
          /\ Ask(t, "StartCampaign") \in Reductions
      BY <3>2, MenuAnswers DEF CommandTypes
    <3>5. permitted
      BY <1>7, <2>2 DEF MayStay
    <3> QED
      BY <1>1, <2>2, <3>2, <3>3, <3>4, <3>5 DEF SoundAnswer
  <2>3. CASE s.mode = "Gameplay"
    <3>1. AfterPlay(s, caps) \in FrontEndStates /\ AfterPlay(s, caps).mode # "Gameplay"
      BY <1>1, <2>3, LeavingPlay
    <3>2. /\ Show(AfterPlay(s, caps)) \in MenuReductions
          /\ Show(AfterPlay(s, caps)).command.type = "None"
      BY <3>1, MenuAnswers
    <3>3. Primary(s, prior, menu, caps) = Show(AfterPlay(s, caps))
      BY <2>3 DEF Primary
    <3> QED
      BY <1>3, <3>2, <3>3
  <2>4. CASE s.mode \in {"Controls", "AssetTopology"}
    <3>1. Primary(s, prior, menu, caps) = Show(InitialFrontEndState)
      BY <2>4 DEF Primary
    <3> QED
      BY <1>4, <3>1
  <2> QED
    BY <1>1, <2>1, <2>2, <2>3, <2>4 DEF Modes
<1>8. Navigate(s, input, menu) \in FrontEndStates /\ Navigate(s, input, menu).mode = s.mode
  BY <1>1, NavigateType
<1>9. ReduceFrontEnd(prior, input, menu, caps) =
        IF ~IsValidFrontEndState(prior) \/ ~MayStay(s, menu, caps) THEN Show(InitialFrontEndState)
        ELSE IF input.cancel THEN Show(Cancel(s, caps))
        ELSE IF input.primary THEN Primary(s, prior, menu, caps)
        ELSE IF input.previous = input.next THEN Show(s)
        ELSE Show(Navigate(s, input, menu))
  BY DEF ReduceFrontEnd, s
<1> HIDE DEF permitted
<1>10. MayStay(s, menu, caps) =>
          /\ SoundAnswer(prior, permitted, Show(s))
          /\ SoundAnswer(prior, permitted, Show(Navigate(s, input, menu)))
          /\ SoundAnswer(prior, permitted, Primary(s, prior, menu, caps))
  BY <1>1, <1>6, <1>7, <1>8
<1>11. SoundAnswer(prior, permitted, ReduceFrontEnd(prior, input, menu, caps))
  BY <1>4, <1>5, <1>9, <1>10
<1> QED
  BY <1>11 DEF permitted

-------------------------------------------------------------------------------
(***************************************************************************)
(* Play.                                                                   *)
(***************************************************************************)

\* Whole steps and the rest of a length of time.
LEMMA WholeSteps ==
    ASSUME NEW time \in Nat
    PROVE  /\ time \div SimulationStep \in Nat
           /\ time % SimulationStep \in Remainders
           /\ time = (time \div SimulationStep) * SimulationStep + (time % SimulationStep)
<1>1. SimulationStep \in Nat /\ SimulationStep > 0
  BY SchedulerAssumption
<1>2. time \div SimulationStep \in Int /\ time % SimulationStep \in Remainders
  BY <1>1 DEF Remainders
<1>3. time \div SimulationStep >= 0
  BY <1>1
<1>4. time = (time \div SimulationStep) * SimulationStep + (time % SimulationStep)
  BY <1>1
<1> QED
  BY <1>2, <1>3, <1>4

\* What a frame contributes is never negative.
LEMMA ClampedDeltaType ==
    ASSUME NEW elapsed \in Int
    PROVE  ClampedDelta(elapsed) \in Nat
BY SchedulerAssumption DEF ClampedDelta

\* A number of whole steps leaves no rest.
LEMMA StepsAreWhole ==
    ASSUME NEW n \in Nat
    PROVE  n * SimulationStep \in Nat /\ (n * SimulationStep) % SimulationStep = 0
<1>1. SimulationStep \in Nat /\ SimulationStep > 0
  BY SchedulerAssumption
<1>2. n * SimulationStep \in Nat
  BY <1>1
<1>3. (n * SimulationStep) % SimulationStep = 0
  BY <1>1, SMTT(30)
<1> QED
  BY <1>2, <1>3

\* A frame's time is planned, dropped in whole steps or kept.
LEMMA FrameIsPlanned ==
    ASSUME NEW remainder \in Remainders, NEW elapsed \in Int
    PROVE  LET plan == BeginFrame(remainder, elapsed)
           IN /\ plan \in Plans
              /\ plan.steps <= MaxStepsPerFrame
              /\ remainder + ClampedDelta(elapsed)
                   = plan.steps * SimulationStep + plan.dropped_time + plan.remainder
              /\ plan.dropped_time % SimulationStep = 0
              /\ plan.dropped_time > 0 => plan.steps = MaxStepsPerFrame
<1> DEFINE time == remainder + ClampedDelta(elapsed)
           available == time \div SimulationStep
           planned == IF available > MaxStepsPerFrame THEN MaxStepsPerFrame ELSE available
           plan == BeginFrame(remainder, elapsed)
<1>1. SimulationStep \in Nat /\ MaxStepsPerFrame \in Nat
  BY SchedulerAssumption
<1>2. time \in Nat
  BY <1>1, ClampedDeltaType DEF Remainders
<1>3. /\ available \in Nat /\ time % SimulationStep \in Remainders
      /\ time = available * SimulationStep + (time % SimulationStep)
  BY <1>2, WholeSteps
<1>4. plan = [steps |-> planned, clamped |-> elapsed > MaxFrameDelta,
              dropped |-> available > MaxStepsPerFrame,
              dropped_time |-> (available - planned) * SimulationStep,
              remainder |-> time % SimulationStep]
  BY DEF BeginFrame
<1> HIDE DEF available, time
<1>5. planned \in Nat /\ planned <= MaxStepsPerFrame /\ available - planned \in Nat
  BY <1>1, <1>3
<1>6. available - planned > 0 => planned = MaxStepsPerFrame
  BY <1>1, <1>3
<1> HIDE DEF planned
<1>7. (available - planned) * SimulationStep \in Nat
      /\ ((available - planned) * SimulationStep) % SimulationStep = 0
  BY <1>5, StepsAreWhole
<1>8. (available - planned) * SimulationStep > 0 => available - planned > 0
  BY <1>1, <1>5
<1>9. time = planned * SimulationStep + (available - planned) * SimulationStep
               + (time % SimulationStep)
  BY <1>1, <1>2, <1>3, <1>5 DEF Remainders
<1>10. (elapsed > MaxFrameDelta) \in BOOLEAN /\ (available > MaxStepsPerFrame) \in BOOLEAN
  OBVIOUS
<1>11. plan \in Plans
  BY <1>3, <1>4, <1>5, <1>7, <1>10 DEF Plans
<1> HIDE DEF plan
<1>12. /\ plan.steps = planned /\ plan.dropped_time = (available - planned) * SimulationStep
       /\ plan.remainder = time % SimulationStep
  BY <1>4
<1>13. /\ plan.steps <= MaxStepsPerFrame
       /\ time = plan.steps * SimulationStep + plan.dropped_time + plan.remainder
       /\ plan.dropped_time % SimulationStep = 0
       /\ plan.dropped_time > 0 => plan.steps = MaxStepsPerFrame
  <2>1. plan.steps <= MaxStepsPerFrame
    BY <1>5, <1>12
  <2>2. time = plan.steps * SimulationStep + plan.dropped_time + plan.remainder
    BY <1>9, <1>12
  <2>3. plan.dropped_time % SimulationStep = 0
    BY <1>7, <1>12
  <2>4. plan.dropped_time > 0 => plan.steps = MaxStepsPerFrame
    BY <1>6, <1>8, <1>12
  <2> QED
    BY <2>1, <2>2, <2>3, <2>4
<1> QED
  BY <1>11, <1>13 DEF plan, time

\* No time, no step: what is kept is less than one.
LEMMA NoTimeNoStep ==
    ASSUME NEW remainder \in Remainders
    PROVE  /\ BeginFrame(remainder, 0).steps = 0
           /\ BeginFrame(remainder, 0).remainder = remainder
           /\ BeginFrame(remainder, 0).dropped_time = 0
<1> DEFINE plan == BeginFrame(remainder, 0)
<1>1. /\ SimulationStep \in Nat \ {0} /\ MaxStepsPerFrame \in Nat \ {0}
      /\ ClampedDelta(0) = 0
  BY SchedulerAssumption DEF ClampedDelta
<1>2. /\ plan \in Plans
      /\ remainder + ClampedDelta(0)
           = plan.steps * SimulationStep + plan.dropped_time + plan.remainder
      /\ plan.dropped_time > 0 => plan.steps = MaxStepsPerFrame
  BY FrameIsPlanned
<1> HIDE DEF plan
<1>3. /\ plan.steps \in Nat /\ plan.dropped_time \in Nat /\ plan.remainder \in Nat
      /\ remainder \in Nat /\ remainder < SimulationStep
  BY <1>1, <1>2 DEF Plans, Remainders
<1>4. plan.steps > 0 => plan.steps * SimulationStep >= SimulationStep
  BY <1>1, <1>3
<1>5. plan.steps = 0
  BY <1>1, <1>2, <1>3, <1>4
<1>6. plan.dropped_time = 0 /\ plan.remainder = remainder
  BY <1>1, <1>2, <1>3, <1>5
<1> QED
  BY <1>5, <1>6 DEF plan

\* The steps taken are those before the first that cannot be represented.
LEMMA StepsTaken ==
    ASSUME NEW position, NEW delta, NEW steps \in Nat
    PROVE  /\ Executed(position, delta, steps) \in 0..steps
           /\ \A k \in 1..Executed(position, delta, steps) :
                IsRepresentable(At(position, delta, k))
<1> DEFINE Stops(n) ==
              /\ \A k \in 1..n : IsRepresentable(At(position, delta, k))
              /\ n < steps => ~IsRepresentable(At(position, delta, n + 1))
           Ends == {n \in 0..steps : n < steps => ~IsRepresentable(At(position, delta, n + 1))}
<1>1. steps \in Ends /\ Ends \subseteq Nat
  OBVIOUS
<1>2. PICK n \in Ends : \A m \in Ends : ~(<<m, n>> \in OpToRel(<, Nat))
  BY <1>1, NatLessThanWellFounded, WFMin
<1>3. \A m \in Ends : ~(m < n)
  BY <1>1, <1>2 DEF OpToRel
<1>4. ASSUME NEW k \in 1..n
      PROVE  IsRepresentable(At(position, delta, k))
  <2>1. n \in Nat /\ n <= steps /\ k - 1 \in 0..steps /\ k - 1 < n /\ k - 1 < steps /\ (k - 1) + 1 = k
    BY <1>1
  <2>2. k - 1 \notin Ends
    BY <1>3, <2>1
  <2> QED
    BY <2>1, <2>2
<1>5. n \in 0..steps /\ Stops(n)
  BY <1>1, <1>4
<1>6. Executed(position, delta, steps) = CHOOSE i \in 0..steps : Stops(i)
  BY DEF Executed
<1> HIDE DEF Stops
<1>7. Executed(position, delta, steps) \in 0..steps /\ Stops(Executed(position, delta, steps))
  BY <1>5, <1>6
<1> QED
  BY <1>7 DEF Stops

\* An actor that stands still takes every step.
LEMMA StandingStill ==
    ASSUME NEW position \in Positions, NEW steps \in Nat
    PROVE  /\ \A k \in Nat : At(position, <<0, 0>>, k) = position
           /\ Executed(position, <<0, 0>>, steps) = steps
<1> DEFINE Stops(n) ==
              /\ \A k \in 1..n : IsRepresentable(At(position, <<0, 0>>, k))
              /\ n < steps => ~IsRepresentable(At(position, <<0, 0>>, n + 1))
<1>1. position \in Int \X Int /\ IsRepresentable(position)
  BY DEF Positions
<1>2. ASSUME NEW k \in Nat
      PROVE  At(position, <<0, 0>>, k) = position
  <2>1. position[1] + k * 0 = position[1] /\ position[2] + k * 0 = position[2]
    BY <1>1
  <2> QED
    BY <1>1, <2>1 DEF At
<1>3. steps \in 0..steps /\ Stops(steps)
  BY <1>1, <1>2
<1>4. ASSUME NEW n \in 0..steps, Stops(n)
      PROVE  n = steps
  BY <1>1, <1>2, <1>4
<1>5. Executed(position, <<0, 0>>, steps) = CHOOSE n \in 0..steps : Stops(n)
  BY DEF Executed
<1> HIDE DEF Stops
<1>6. Executed(position, <<0, 0>>, steps) = steps
  BY <1>3, <1>4, <1>5
<1> QED
  BY <1>2, <1>6

\* The origin can be represented, and so can every position that is reached.
LEMMA ReachedPositions ==
    /\ Origin \in Positions
    /\ \A position \in Positions, steps \in Nat : \A held :
         LET delta == PlanDebugLocomotionStep(held)
         IN \A k \in 1..Executed(position, delta, steps) : At(position, delta, k) \in Positions
<1>1. Origin \in Positions
  BY CoordinateAssumption DEF Origin, Positions, IsRepresentable
<1>2. ASSUME NEW position \in Positions, NEW held, NEW steps \in Nat,
             NEW k \in 1..Executed(position, PlanDebugLocomotionStep(held), steps)
      PROVE  At(position, PlanDebugLocomotionStep(held), k) \in Positions
  <2> DEFINE delta == PlanDebugLocomotionStep(held)
  <2>1. delta \in Int \X Int
    BY DEF PlanDebugLocomotionStep, Axis
  <2> HIDE DEF delta
  <2>2. Executed(position, delta, steps) \in 0..steps /\ IsRepresentable(At(position, delta, k))
    BY <1>2, StepsTaken DEF delta
  <2>3. k \in Int
    BY <1>2, <2>2 DEF delta
  <2>4. At(position, delta, k) \in Int \X Int
    BY <2>1, <2>3 DEF At, Positions
  <2> QED
    BY <2>2, <2>4 DEF Positions, delta
<1> QED
  BY <1>1, <1>2

\* The rules of the objective, the target and the mission give what they are given.
LEMMA RulesType ==
    /\ \A trigger \in Triggers : \A path, steps : AdvanceProximityTrigger(trigger, path, steps) \in Triggers
    /\ \A target \in Targets, held, fire \in BOOLEAN : \A enabled, pointer :
         AdvanceTargetFire(target, enabled, pointer, held, fire) \in Targets
    /\ \A mission \in Missions, event \in {"None", "Deploy", "Complete", "Abort"} :
         MissionAfter(mission, event) \in Missions
    /\ \A mission, aborted, before, after :
         MissionEvent(mission, aborted, before, after) \in {"None", "Complete", "Abort"}
    /\ NotInside \in Triggers /\ NotAcquired \in Targets
<1>1. \A trigger \in Triggers : \A path, steps : AdvanceProximityTrigger(trigger, path, steps) \in Triggers
  BY DEF AdvanceProximityTrigger, Triggers
<1>2. \A target \in Targets, held, fire \in BOOLEAN : \A enabled, pointer :
         AdvanceTargetFire(target, enabled, pointer, held, fire) \in Targets
  BY DEF AdvanceTargetFire, Targets
<1>3. \A mission \in Missions, event \in {"None", "Deploy", "Complete", "Abort"} :
         MissionAfter(mission, event) \in Missions
  BY DEF MissionAfter, Missions
<1>4. \A mission, aborted, before, after :
         MissionEvent(mission, aborted, before, after) \in {"None", "Complete", "Abort"}
  BY DEF MissionEvent
<1>5. NotInside \in Triggers /\ NotAcquired \in Targets
  BY DEF NotInside, NotAcquired, Triggers, Targets
<1> QED
  BY <1>1, <1>2, <1>3, <1>4, <1>5

-------------------------------------------------------------------------------
(***************************************************************************)
(* The commands.                                                           *)
(***************************************************************************)

\* What a command leaves is of the right kind, leaves the menu's state alone, and is
\* stored as far as it is shown: all of it if the command succeeded.
SoundOutcome(o) ==
    /\ o.ok \in BOOLEAN
    /\ o.app \in Apps /\ o.stored \in Seq(Nat)
    /\ o.app.front_end = app.front_end
    /\ StoredSession(o.app, o.stored, o.cards, o.ok)

\* The first profile: the list shows it once it is stored.
LEMMA ProfileIsCreated ==
    ASSUME RunTypes, InFrame, SessionIsStored, NEW o \in CreateFirstProfile
    PROVE  /\ SoundOutcome(o) /\ o.play = play
           /\ o.ok => /\ app.active_profile = None /\ o.stored = <<0>> /\ o.app.profiles = 1
                      /\ o.app.characters = app.characters
                      /\ o.app.active_profile = None /\ o.app.active_character = None
<1>1. app \in Apps /\ stored \in Seq(Nat) /\ StoredSession(app, stored, cards, TRUE)
  BY DEF RunTypes, SessionIsStored
<1>2. <<0>> \in Seq(Nat) /\ Len(<<0>>) = 1
  OBVIOUS
<1>3. CASE o = Fails
  BY <1>1, <1>3 DEF Fails, Unchanged, SoundOutcome, StoredSession
<1>4. CASE app.profiles = 0 /\ stored = <<>> /\ o = [Fails EXCEPT !.stored = <<0>>]
  <2>1. app.active_profile = None
    BY <1>1, <1>4 DEF StoredSession
  <2> QED
    BY <1>1, <1>2, <1>4, <2>1 DEF Fails, Unchanged, SoundOutcome, StoredSession
<1>5. CASE /\ app.profiles = 0 /\ stored = <<>>
           /\ o = [Unchanged EXCEPT !.stored = <<0>>, !.app.profiles = 1,
                                    !.app.can_create_first_profile = FALSE]
  <2> DEFINE a == [app EXCEPT !.profiles = 1, !.can_create_first_profile = FALSE]
  <2>1. o = [ok |-> TRUE, app |-> a, stored |-> <<0>>, cards |-> cards, play |-> play]
    BY <1>5 DEF Unchanged
  <2>2. a \in Apps /\ a.front_end = app.front_end
    BY <1>1 DEF Apps
  <2>3. /\ a.profiles = 1 /\ a.can_create_first_profile = FALSE
        /\ a.active_profile = app.active_profile /\ a.active_character = app.active_character
        /\ a.characters = app.characters /\ a.card = app.card /\ a.first_card = app.first_card
        /\ a.can_create_first_character = app.can_create_first_character
    BY <1>1 DEF Apps
  <2> HIDE DEF a
  <2>4. app.active_profile = None /\ app.active_character = None
    BY <1>1, <1>5 DEF StoredSession
  <2>5. StoredSession(a, <<0>>, cards, TRUE)
    BY <1>1, <1>2, <2>3, <2>4 DEF StoredSession
  <2> QED
    BY <1>2, <2>1, <2>2, <2>3, <2>4, <2>5 DEF SoundOutcome
<1> QED
  BY <1>3, <1>4, <1>5 DEF CreateFirstProfile

\* The first character of the active profile.
LEMMA CharacterIsCreated ==
    ASSUME RunTypes, InFrame, SessionIsStored, NEW o \in CreateFirstCharacter
    PROVE  /\ SoundOutcome(o) /\ o.play = play
           /\ o.ok => /\ app.active_profile # None
                      /\ o.stored = [stored EXCEPT ![app.active_profile + 1] = 1]
                      /\ o.app.profiles = app.profiles /\ o.app.characters = 1
                      /\ o.app.active_profile = app.active_profile
                      /\ app.active_character = None /\ o.app.active_character = None
<1>1. app \in Apps /\ stored \in Seq(Nat) /\ StoredSession(app, stored, cards, TRUE)
  BY DEF RunTypes, SessionIsStored
<1>2. CASE o = Fails
  BY <1>1, <1>2 DEF Fails, Unchanged, SoundOutcome, StoredSession
<1>3. CASE /\ app.can_create_first_character /\ app.card /\ app.first_card
           /\ ActiveProfileIsConfirmed(app) /\ app.characters = 0
           /\ stored[app.active_profile + 1] = 0
           /\ o # Fails
  <2> DEFINE created == [stored EXCEPT ![app.active_profile + 1] = 1]
             a == [app EXCEPT !.characters = 1, !.first_card = FALSE,
                              !.can_create_first_character = FALSE]
  <2>1. app.active_profile # None /\ app.active_profile + 1 \in DOMAIN stored
    BY <1>1, <1>3 DEF StoredSession
  <2>2. /\ created \in Seq(Nat) /\ Len(created) = Len(stored) /\ DOMAIN created = DOMAIN stored
        /\ created[app.active_profile + 1] = 1
    BY <1>1, <2>1
  <2>3. app.active_character = None
    BY <1>1, <1>3, ShownEntries DEF StoredSession, Apps
  <2>4. a \in Apps /\ a.front_end = app.front_end
    BY <1>1 DEF Apps
  <2>5. /\ a.profiles = app.profiles /\ a.characters = 1 /\ a.card = app.card
        /\ a.first_card = FALSE /\ a.can_create_first_character = FALSE
        /\ a.active_profile = app.active_profile /\ a.active_character = app.active_character
        /\ a.can_create_first_profile = app.can_create_first_profile
    BY <1>1 DEF Apps
  <2> HIDE DEF created, a
  <2>6. \/ o = [ok |-> FALSE, app |-> app, stored |-> created, cards |-> cards, play |-> play]
        \/ o = [ok |-> TRUE, app |-> a, stored |-> created, cards |-> cards - 1, play |-> play]
    <3>1. \/ o = [Fails EXCEPT !.stored = created]
          \/ o = [Unchanged EXCEPT !.stored = created, !.app.characters = 1, !.cards = @ - 1,
                                   !.app.first_card = FALSE,
                                   !.app.can_create_first_character = FALSE]
      BY <1>3, Zenon DEF CreateFirstCharacter, created
    <3>2. CASE o = [Fails EXCEPT !.stored = created]
      <4>1. o = [ok |-> FALSE, app |-> app, stored |-> created, cards |-> cards, play |-> play]
        BY <3>2 DEF Fails, Unchanged
      <4> QED
        BY <4>1
    <3>3. CASE o = [Unchanged EXCEPT !.stored = created, !.app.characters = 1, !.cards = @ - 1,
                                     !.app.first_card = FALSE,
                                     !.app.can_create_first_character = FALSE]
      <4>1. o = [ok |-> TRUE, app |-> a, stored |-> created, cards |-> cards - 1, play |-> play]
        BY <3>3 DEF Unchanged, a
      <4> QED
        BY <4>1
    <3> QED
      BY <3>1, <3>2, <3>3
  <2>7. ActiveProfileIsConfirmed(a)
    BY <1>3, <2>5 DEF ActiveProfileIsConfirmed
  <2>8. StoredSession(app, created, cards, FALSE)
    BY <1>1, <2>1, <2>2 DEF StoredSession
  <2>9. StoredSession(a, created, cards - 1, TRUE)
    <3>1. cards - 1 = 1
      BY <1>1, <1>3 DEF StoredSession
    <3> QED
      BY <1>1, <1>3, <3>1, <2>1, <2>2, <2>3, <2>5, <2>7 DEF StoredSession
  <2>10. CASE o = [ok |-> FALSE, app |-> app, stored |-> created, cards |-> cards, play |-> play]
    BY <1>1, <2>2, <2>8, <2>10 DEF SoundOutcome
  <2>11. CASE o = [ok |-> TRUE, app |-> a, stored |-> created, cards |-> cards - 1, play |-> play]
    BY <2>1, <2>2, <2>3, <2>4, <2>5, <2>9, <2>11 DEF SoundOutcome, created
  <2> QED
    BY <2>6, <2>10, <2>11
<1> QED
  BY <1>2, <1>3 DEF CreateFirstCharacter

\* A profile of the list becomes the active one.
LEMMA ProfileIsActivated ==
    ASSUME RunTypes, InFrame, SessionIsStored, NEW slot \in Nat, NEW o \in SetActiveProfile(slot)
    PROVE  /\ SoundOutcome(o) /\ o.play = play
           /\ o.ok => /\ IsShown(slot, app.profiles) /\ slot + 1 \in DOMAIN stored
                      /\ o.stored = stored /\ o.app.profiles = app.profiles
                      /\ o.app.active_profile = slot /\ o.app.active_character = None
                      /\ o.app.characters = stored[slot + 1]
<1>1. app \in Apps /\ stored \in Seq(Nat) /\ StoredSession(app, stored, cards, TRUE)
  BY DEF RunTypes, SessionIsStored
<1>2. CASE o = Fails
  BY <1>1, <1>2 DEF Fails, Unchanged, SoundOutcome, StoredSession
<1>3. CASE IsShown(slot, app.profiles) /\ o # Fails
  <2> DEFINE characters == stored[slot + 1]
             owned == (IF app.card THEN 1 ELSE 0) + (IF app.first_card THEN 1 ELSE 0)
             built == IF characters = 0 THEN 2 ELSE 1
             a == [app EXCEPT !.card = TRUE, !.first_card = characters = 0,
                              !.characters = characters,
                              !.can_create_first_character = characters = 0,
                              !.active_profile = slot, !.active_character = None]
  <2>1. o = [ok |-> TRUE, app |-> a, stored |-> stored, cards |-> cards + built - owned, play |-> play]
    BY <1>3 DEF SetActiveProfile, Fails, Unchanged
  <2>2. app.profiles \in Nat /\ app.profiles = Len(stored) /\ cards = owned
    BY <1>1 DEF Apps, StoredSession
  <2>3. slot + 1 \in DOMAIN stored /\ characters \in Nat
    <3>1. slot < Len(stored) /\ Len(stored) \in Nat
      BY <1>1, <1>3, <2>2, ShownEntries
    <3>2. slot + 1 \in DOMAIN stored
      BY <1>1, <3>1
    <3> QED
      BY <1>1, <3>2
  <2> HIDE DEF characters, owned, built
  <2>4. a \in Apps /\ a.front_end = app.front_end
    BY <1>1, <2>3 DEF Apps
  <2>5. /\ a.profiles = app.profiles /\ a.characters = characters
        /\ a.card = TRUE /\ a.first_card = (characters = 0)
        /\ a.can_create_first_character = (characters = 0)
        /\ a.active_profile = slot /\ a.active_character = None
        /\ a.can_create_first_profile = app.can_create_first_profile
    BY <1>1 DEF Apps
  <2> HIDE DEF a
  <2>6. ActiveProfileIsConfirmed(a) /\ slot # None
    BY <1>3, <2>5 DEF ActiveProfileIsConfirmed, None
  <2>7. cards + built - owned = 1 + (IF characters = 0 THEN 1 ELSE 0)
    BY <2>2 DEF built, owned
  <2>8. StoredSession(a, stored, cards + built - owned, TRUE)
    BY <1>1, <2>3, <2>5, <2>6, <2>7 DEF StoredSession, characters
  <2> QED
    BY <1>1, <1>3, <2>1, <2>3, <2>4, <2>5, <2>8 DEF SoundOutcome, characters
<1> QED
  BY <1>2, <1>3 DEF SetActiveProfile

\* A character of the active profile becomes the active one.
LEMMA CharacterIsActivated ==
    ASSUME RunTypes, InFrame, SessionIsStored, NEW slot \in Nat, NEW o \in SetActiveCharacter(slot)
    PROVE  /\ SoundOutcome(o) /\ o.play = play
           /\ o.ok => /\ ActiveProfileIsConfirmed(app) /\ IsShown(slot, app.characters)
                      /\ o.stored = stored
                      /\ o.app = [app EXCEPT !.active_character = slot]
<1>1. app \in Apps /\ stored \in Seq(Nat) /\ StoredSession(app, stored, cards, TRUE)
  BY DEF RunTypes, SessionIsStored
<1>2. CASE o = Fails
  BY <1>1, <1>2 DEF Fails, Unchanged, SoundOutcome, StoredSession
<1>3. CASE /\ ActiveProfileIsConfirmed(app) /\ IsShown(slot, app.characters)
           /\ o # Fails
  <2> DEFINE a == [app EXCEPT !.active_character = slot]
  <2>1. o = [ok |-> TRUE, app |-> a, stored |-> stored, cards |-> cards, play |-> play]
    BY <1>3 DEF SetActiveCharacter, Fails, Unchanged
  <2>2. a \in Apps /\ a.front_end = app.front_end
    BY <1>1 DEF Apps
  <2>3. /\ a.profiles = app.profiles /\ a.characters = app.characters
        /\ a.card = app.card /\ a.first_card = app.first_card
        /\ a.can_create_first_character = app.can_create_first_character
        /\ a.active_profile = app.active_profile /\ a.active_character = slot
        /\ a.can_create_first_profile = app.can_create_first_profile
    BY <1>1 DEF Apps
  <2> HIDE DEF a
  <2>4. ActiveProfileIsConfirmed(a) /\ app.active_profile # None
    BY <1>1, <1>3, <2>3, ShownEntries DEF ActiveProfileIsConfirmed, Apps
  <2>5. StoredSession(a, stored, cards, TRUE)
    BY <1>1, <1>3, <2>3, <2>4 DEF StoredSession
  <2> QED
    BY <1>1, <1>3, <2>1, <2>2, <2>5 DEF SoundOutcome, a
<1> QED
  BY <1>2, <1>3 DEF SetActiveCharacter


\* A deployment puts the actor, the objective and the target back and opens a mission.
Redeployed(p) == [NewPlay EXCEPT !.remainder = p.remainder, !.mission = "Active"]

\* StartDiagnosticCampaign deploys only for a confirmed character and from no active mission.
LEMMA MissionIsDeployed ==
    ASSUME RunTypes, InFrame, SessionIsStored, NEW o \in StartDiagnosticCampaign
    PROVE  /\ SoundOutcome(o)
           /\ o.ok => /\ ActiveCharacterIsConfirmed(app)
                      /\ play.mission # "Active" /\ o.play = Redeployed(play)
                      /\ o.app = app /\ o.stored = stored
<1>1. app \in Apps /\ stored \in Seq(Nat) /\ StoredSession(app, stored, cards, TRUE)
  BY DEF RunTypes, SessionIsStored
<1>2. CASE o = Fails
  BY <1>1, <1>2 DEF Fails, Unchanged, SoundOutcome, StoredSession
<1>3. CASE /\ ActiveCharacterIsConfirmed(app) /\ play.mission # "Active"
           /\ o = [Unchanged EXCEPT !.play = Redeployed(play)]
  <2>1. o = [ok |-> TRUE, app |-> app, stored |-> stored, cards |-> cards, play |-> Redeployed(play)]
    BY <1>3 DEF Unchanged
  <2>2. /\ o.ok = TRUE /\ o.app = app /\ o.stored = stored /\ o.cards = cards
        /\ o.play = Redeployed(play)
    BY <2>1
  <2> QED
    BY <1>1, <1>3, <2>2 DEF SoundOutcome
<1>4. DeployDiagnosticMission = IF play.mission = "Active" THEN Fails
                                ELSE [Unchanged EXCEPT !.play = Redeployed(play)]
  BY DEF DeployDiagnosticMission, MissionRejects, MissionAfter, Redeployed
<1> QED
  BY <1>2, <1>3, <1>4 DEF StartDiagnosticCampaign

\* A deployed mission starts over, with the time the scheduler still has.
LEMMA RedeployedType ==
    ASSUME play \in Plays
    PROVE  /\ Redeployed(play) \in Plays
           /\ Redeployed(play).mission = "Active" /\ Redeployed(play).trigger = NotInside
           /\ Redeployed(play).target = NotAcquired /\ Redeployed(play).position = Origin
           /\ Redeployed(play).remainder = play.remainder
BY ReachedPositions, RulesType DEF Redeployed, NewPlay, Plays, Missions

\* Whatever the command, and whether it succeeds or not.
LEMMA CommandIsSound ==
    ASSUME RunTypes, InFrame, SessionIsStored,
           NEW command \in Commands, NEW o \in ApplyFrontEndCommand(command)
    PROVE  /\ SoundOutcome(o)
           /\ command.type # "StartCampaign" => o.play = play
           /\ o.ok /\ command.type = "StartCampaign" =>
                /\ ActiveCharacterIsConfirmed(app)
                /\ play.mission # "Active" /\ o.play = Redeployed(play) /\ o.app = app
           /\ command.type = "None" => o = Unchanged
<1>1. command.profile_slot \in Nat /\ command.character_slot \in Nat
  BY DEF Commands
<1>2. CASE command.type = "CreateProfileOwner"
  BY <1>2, ProfileIsCreated DEF ApplyFrontEndCommand
<1>3. CASE command.type = "CreateAgent"
  BY <1>3, CharacterIsCreated DEF ApplyFrontEndCommand
<1>4. CASE command.type = "ConfirmAgent"
  BY <1>1, <1>4, CharacterIsActivated DEF ApplyFrontEndCommand
<1>5. CASE command.type = "StartCampaign"
  BY <1>5, MissionIsDeployed DEF ApplyFrontEndCommand
<1>6. CASE command.type = "ConfirmProfileOwner"
  BY <1>1, <1>6, ProfileIsActivated DEF ApplyFrontEndCommand
<1>7. CASE command.type \notin {"CreateProfileOwner", "CreateAgent", "ConfirmAgent",
                                "StartCampaign", "ConfirmProfileOwner"}
  <2>1. o = Unchanged
    BY <1>7 DEF ApplyFrontEndCommand
  <2> QED
    BY <1>7, <2>1 DEF Unchanged, SoundOutcome, RunTypes, SessionIsStored
<1> QED
  BY <1>2, <1>3, <1>4, <1>5, <1>6, <1>7

-------------------------------------------------------------------------------
(***************************************************************************)
(* What the session offers, and the reduction of a frame.                  *)
(***************************************************************************)

\* What the session offers the reducer, read as the gate it stands for.
LEMMA SessionOffers ==
    ASSUME NEW a \in Apps, NEW diagnostic \in BOOLEAN
    PROVE  /\ Menu(a) \in Menus
           /\ ActiveProfileIsConfirmed(a) \in BOOLEAN /\ ActiveCharacterIsConfirmed(a) \in BOOLEAN
           /\ CurrentFrontEndCapabilities(a, diagnostic) \in Capabilities
           /\ ActiveProfileIsConfirmed(a) => Visible(a.profiles) # 0 /\ a.active_profile # None
           /\ ActiveCharacterIsConfirmed(a) =>
                /\ ActiveProfileIsConfirmed(a) /\ Visible(a.characters) # 0
                /\ a.active_character # None
           /\ ProfileIsUsable(Menu(a)) <=> ActiveProfileIsConfirmed(a)
           /\ CharacterIsUsable(Menu(a)) <=> ActiveCharacterIsConfirmed(a)
           /\ LET exempt == diagnostic /\ a.front_end.mode = "Gameplay"
                  caps == CurrentFrontEndCapabilities(a, diagnostic)
              IN /\ GameplayIsPermitted(Menu(a), caps) <=>
                      exempt \/ ActiveCharacterIsConfirmed(a)
                 /\ SimulationIsAllowed(a, diagnostic) <=>
                      /\ IsValidFrontEndState(a.front_end) /\ a.front_end.mode = "Gameplay"
                      /\ exempt \/ ActiveCharacterIsConfirmed(a)
                 /\ caps.supports_character_selection = ~exempt
<1>1. ActiveProfileIsConfirmed(a) \in BOOLEAN /\ ActiveCharacterIsConfirmed(a) \in BOOLEAN
  BY DEF ActiveProfileIsConfirmed, ActiveCharacterIsConfirmed, IsShown
<1>2. /\ ActiveProfileIsConfirmed(a) => Visible(a.profiles) # 0 /\ a.active_profile # None
      /\ ActiveCharacterIsConfirmed(a) =>
                /\ ActiveProfileIsConfirmed(a) /\ Visible(a.characters) # 0
                /\ a.active_character # None
  BY ShownEntries DEF ActiveProfileIsConfirmed, ActiveCharacterIsConfirmed, IsShown, Apps
<1>3. Menu(a) \in Menus
  BY <1>1 DEF Menu, Menus, Apps
<1>4. /\ ProfileIsUsable(Menu(a)) <=> ActiveProfileIsConfirmed(a)
      /\ CharacterIsUsable(Menu(a)) <=> ActiveCharacterIsConfirmed(a)
  BY <1>1, <1>2 DEF ProfileIsUsable, CharacterIsUsable, Menu
<1> DEFINE exempt == diagnostic /\ a.front_end.mode = "Gameplay"
           caps == CurrentFrontEndCapabilities(a, diagnostic)
           p == ActiveProfileIsConfirmed(a)
           c == ActiveCharacterIsConfirmed(a)
<1>5. caps = [can_create_first_profile |-> a.can_create_first_profile,
              can_start_campaign |-> exempt \/ (p /\ c),
              requires_active_profile |-> ~exempt,
              supports_character_selection |-> ~exempt,
              can_create_first_character |-> ~exempt /\ a.can_create_first_character,
              requires_active_character |-> ~exempt]
  BY DEF CurrentFrontEndCapabilities
<1>6. a.can_create_first_profile \in BOOLEAN /\ a.can_create_first_character \in BOOLEAN
  BY DEF Apps
<1>7. p \in BOOLEAN /\ c \in BOOLEAN /\ (c => p) /\ exempt \in BOOLEAN
  BY <1>1, <1>2
<1> HIDE DEF exempt, caps, p, c
<1>8. /\ caps \in Capabilities /\ caps.supports_character_selection = ~exempt
      /\ caps.can_start_campaign <=> (exempt \/ c)
      /\ caps.requires_active_profile <=> ~exempt
      /\ caps.requires_active_character <=> ~exempt
  BY <1>5, <1>6, <1>7 DEF Capabilities
<1>9. AllowsGameplay(caps, p, c) <=> exempt \/ c
  BY <1>7, <1>8 DEF AllowsGameplay, SatisfiesGameplayGate
<1>10. GameplayIsPermitted(Menu(a), caps) <=> exempt \/ c
  BY <1>4, <1>8, <1>7 DEF GameplayIsPermitted, AllowsGameplay, SatisfiesGameplayGate, p, c
<1>11. SimulationIsAllowed(a, diagnostic) <=>
          /\ IsValidFrontEndState(a.front_end) /\ a.front_end.mode = "Gameplay"
          /\ exempt \/ c
  BY <1>9 DEF SimulationIsAllowed, AllowsSimulation, caps, p, c
<1> QED
  BY <1>1, <1>2, <1>3, <1>4, <1>8, <1>10, <1>11 DEF exempt, caps, c


\* The mirror of the replay after a command that succeeded shows what it has left.
LEMMA MirrorIsTrue ==
    ASSUME RunTypes, InFrame, SessionIsStored,
           replay \in Replays, MirrorsSession(replay, app, stored),
           NEW command \in Commands, NEW o \in ApplyFrontEndCommand(command), o.ok,
           NEW m, m = Mirrored(command)
    PROVE  /\ m \in Replays /\ MirrorsSession(m, o.app, o.stored)
           /\ m.front_end = replay.front_end /\ RepeatsPlay(m, replay)
<1>1. app \in Apps /\ stored \in Seq(Nat) /\ StoredSession(app, stored, cards, TRUE)
  BY DEF RunTypes, SessionIsStored
<1>2. command.profile_slot \in Nat /\ command.character_slot \in Nat
  BY DEF Commands
<1>3. /\ replay.state = "Ready" /\ replay.profiles = app.profiles
      /\ replay.characters = app.characters
      /\ replay.by_profile = stored /\ replay.active_slot = app.active_profile
      /\ replay.can_create_first_profile <=> app.profiles = 0
      /\ replay.profile_confirmed <=> ActiveProfileIsConfirmed(app)
      /\ replay.character_confirmed <=> ActiveCharacterIsConfirmed(app)
  BY DEF MirrorsSession
<1>4. /\ app.profiles \in Nat /\ app.characters \in Nat
      /\ \A a : a.active_profile = None => ~ActiveProfileIsConfirmed(a)
      /\ \A a : a.active_character = None => ~ActiveCharacterIsConfirmed(a)
  <2>1. \A n : ~IsShown(None, n)
    BY DEF IsShown, None
  <2> QED
    BY <1>1, <2>1 DEF Apps, ActiveProfileIsConfirmed, ActiveCharacterIsConfirmed
<1>5. CASE command.type = "CreateProfileOwner"
  <2>1. m = [replay EXCEPT !.profiles = 1, !.by_profile = <<0>>, !.can_create_first_profile = FALSE]
    BY <1>5 DEF Mirrored
  <2>2. /\ app.active_profile = None /\ o.stored = <<0>> /\ o.app.profiles = 1
        /\ o.app.characters = app.characters
        /\ o.app.active_profile = None /\ o.app.active_character = None
    BY <1>5, ProfileIsCreated DEF ApplyFrontEndCommand
  <2>3. m \in Replays /\ m.front_end = replay.front_end /\ RepeatsPlay(m, replay)
    <3>1. <<0>> \in Seq(Nat)
      OBVIOUS
    <3>2. m \in Replays
      BY <2>1, <3>1, 1 \in Nat, FALSE \in BOOLEAN DEF Replays
    <3>3. m.front_end = replay.front_end /\ RepeatsPlay(m, replay)
      BY <2>1 DEF Replays, RepeatsPlay
    <3> QED
      BY <3>2, <3>3
  <2>4. /\ m.state = "Ready" /\ m.profiles = 1 /\ m.by_profile = <<0>>
        /\ m.can_create_first_profile = FALSE
        /\ m.characters = replay.characters /\ m.active_slot = replay.active_slot
        /\ m.profile_confirmed = replay.profile_confirmed
        /\ m.character_confirmed = replay.character_confirmed
    BY <1>3, <2>1 DEF Replays
  <2>5. ~ActiveCharacterIsConfirmed(app)
    BY <1>4, <2>2 DEF ActiveCharacterIsConfirmed
  <2> QED
    BY <1>3, <1>4, <2>2, <2>3, <2>4, <2>5 DEF MirrorsSession
<1>6. CASE command.type = "CreateAgent"
  <2> DEFINE slot == app.active_profile
  <2>1. /\ slot # None
        /\ o.stored = [stored EXCEPT ![slot + 1] = 1]
        /\ o.app.profiles = app.profiles /\ o.app.characters = 1
        /\ o.app.active_profile = slot
        /\ app.active_character = None /\ o.app.active_character = None
    BY <1>6, CharacterIsCreated DEF ApplyFrontEndCommand
  <2> DEFINE created == [stored EXCEPT ![slot + 1] = 1]
  <2> HIDE DEF created
  <2>2. m = [replay EXCEPT !.characters = 1, !.by_profile = created]
    <3> DEFINE listed == IF replay.active_slot = None THEN replay.by_profile
                         ELSE [replay.by_profile EXCEPT ![replay.active_slot + 1] = 1]
    <3>1. m = [replay EXCEPT !.characters = 1, !.by_profile = listed]
      BY <1>6 DEF Mirrored
    <3>2. listed = created
      BY <1>3, <2>1 DEF created
    <3> HIDE DEF listed
    <3> QED
      BY <3>1, <3>2
  <2>3. created \in Seq(Nat)
    <3>1. slot + 1 \in DOMAIN stored
      BY <1>1, <2>1 DEF StoredSession
    <3> QED
      BY <1>1, <3>1 DEF created
  <2>4. m \in Replays /\ m.front_end = replay.front_end /\ RepeatsPlay(m, replay)
    <3>1. m \in Replays
      BY <2>2, <2>3, 1 \in Nat DEF Replays
    <3>2. m.front_end = replay.front_end /\ RepeatsPlay(m, replay)
      BY <2>2 DEF Replays, RepeatsPlay
    <3> QED
      BY <3>1, <3>2
  <2>5. /\ m.state = "Ready" /\ m.profiles = replay.profiles /\ m.by_profile = created
        /\ m.can_create_first_profile = replay.can_create_first_profile
        /\ m.characters = 1 /\ m.active_slot = replay.active_slot
        /\ m.profile_confirmed = replay.profile_confirmed
        /\ m.character_confirmed = replay.character_confirmed
    BY <1>3, <2>2 DEF Replays
  <2>6. ActiveProfileIsConfirmed(o.app) <=> ActiveProfileIsConfirmed(app)
    BY <2>1 DEF ActiveProfileIsConfirmed
  <2> QED
    BY <1>3, <1>4, <2>1, <2>4, <2>5, <2>6 DEF MirrorsSession, created
<1>7. CASE command.type = "ConfirmProfileOwner"
  <2> DEFINE slot == command.profile_slot
  <2>1. /\ IsShown(slot, app.profiles) /\ slot + 1 \in DOMAIN stored
        /\ o.stored = stored /\ o.app.profiles = app.profiles
        /\ o.app.active_profile = slot /\ o.app.active_character = None
        /\ o.app.characters = stored[slot + 1]
    BY <1>2, <1>7, ProfileIsActivated DEF ApplyFrontEndCommand
  <2>2. m = [replay EXCEPT !.profile_confirmed = TRUE, !.character_confirmed = FALSE,
                           !.active_slot = slot, !.characters = stored[slot + 1]]
    <3>1. IsShown(slot, replay.profiles) /\ replay.by_profile = stored
      BY <1>3, <2>1
    <3>2. IsShown(slot, replay.profiles) = TRUE
      BY <3>1 DEF IsShown
    <3> QED
      BY <1>7, <3>1, <3>2 DEF Mirrored
  <2>3. slot \in Nat /\ stored[slot + 1] \in Nat
    BY <1>1, <1>2, <2>1
  <2>4. m \in Replays /\ m.front_end = replay.front_end /\ RepeatsPlay(m, replay)
    BY <2>2, <2>3 DEF Replays, RepeatsPlay
  <2>5. /\ m.state = "Ready" /\ m.profiles = replay.profiles /\ m.by_profile = replay.by_profile
        /\ m.can_create_first_profile = replay.can_create_first_profile
        /\ m.characters = stored[slot + 1] /\ m.active_slot = slot
        /\ m.profile_confirmed = TRUE /\ m.character_confirmed = FALSE
    BY <1>3, <2>2 DEF Replays
  <2>6. ActiveProfileIsConfirmed(o.app)
    BY <2>1 DEF ActiveProfileIsConfirmed
  <2> QED
    BY <1>3, <1>4, <2>1, <2>4, <2>5, <2>6 DEF MirrorsSession
<1>8. CASE command.type = "ConfirmAgent"
  <2> DEFINE slot == command.character_slot
  <2>1. /\ ActiveProfileIsConfirmed(app) /\ IsShown(slot, app.characters)
        /\ o.stored = stored /\ o.app = [app EXCEPT !.active_character = slot]
    BY <1>2, <1>8, CharacterIsActivated DEF ApplyFrontEndCommand
  <2>2. m = [replay EXCEPT !.character_confirmed = TRUE]
    <3>1. (replay.profile_confirmed /\ IsShown(slot, replay.characters)) = TRUE
      BY <1>3, <2>1
    <3> QED
      BY <1>8, <3>1 DEF Mirrored
  <2>3. m \in Replays /\ m.front_end = replay.front_end /\ RepeatsPlay(m, replay)
    BY <2>2 DEF Replays, RepeatsPlay
  <2>4. /\ m.state = "Ready" /\ m.profiles = replay.profiles /\ m.by_profile = replay.by_profile
        /\ m.can_create_first_profile = replay.can_create_first_profile
        /\ m.characters = replay.characters /\ m.active_slot = replay.active_slot
        /\ m.profile_confirmed = replay.profile_confirmed /\ m.character_confirmed = TRUE
    BY <1>3, <2>2 DEF Replays
  <2>5. /\ o.app.profiles = app.profiles /\ o.app.characters = app.characters
        /\ o.app.active_profile = app.active_profile /\ o.app.active_character = slot
    BY <1>1, <2>1 DEF Apps
  <2>6. ActiveProfileIsConfirmed(o.app) /\ ActiveCharacterIsConfirmed(o.app)
    BY <2>1, <2>5 DEF ActiveProfileIsConfirmed, ActiveCharacterIsConfirmed
  <2> QED
    BY <1>3, <2>1, <2>3, <2>4, <2>5, <2>6 DEF MirrorsSession
<1>9. CASE command.type \notin {"CreateProfileOwner", "CreateAgent", "ConfirmAgent",
                                "ConfirmProfileOwner"}
  <2>1. m = replay
    BY <1>9 DEF Mirrored
  <2>2. o.app = app /\ o.stored = stored
    <3>1. CASE command.type = "StartCampaign"
      BY <3>1, MissionIsDeployed DEF ApplyFrontEndCommand
    <3>2. CASE command.type # "StartCampaign"
      BY <1>9, <3>2 DEF ApplyFrontEndCommand, Unchanged
    <3> QED
      BY <3>1, <3>2
  <2> QED
    BY <2>1, <2>2 DEF RepeatsPlay
<1> QED
  BY <1>5, <1>6, <1>7, <1>8, <1>9


\* A frame's reduction in the run, and in a replay that has followed it so far.
LEMMA RunReduction ==
    ASSUME RunTypes, NEW input
    PROVE  SoundAnswer(app.front_end,
                       (launch.active /\ app.front_end.mode = "Gameplay")
                           \/ ActiveCharacterIsConfirmed(app),
                       Reduction(input))
<1> DEFINE caps == CurrentFrontEndCapabilities(app, launch.active)
           edges == ResolveFrontEndInputEdges(app.front_end.mode, input.pressed)
<1>1. app \in Apps /\ app.front_end \in FrontEndStates /\ launch.active \in BOOLEAN
  BY DEF RunTypes, Apps
<1>2. /\ Menu(app) \in Menus /\ caps.supports_character_selection \in BOOLEAN
      /\ GameplayIsPermitted(Menu(app), caps) <=>
           (launch.active /\ app.front_end.mode = "Gameplay") \/ ActiveCharacterIsConfirmed(app)
  BY <1>1, SessionOffers
<1> HIDE DEF caps, edges
<1>3. SoundAnswer(app.front_end, GameplayIsPermitted(Menu(app), caps),
                  ReduceFrontEnd(app.front_end, edges, Menu(app), caps))
  BY <1>1, <1>2, ReductionIsSound
<1>4. SoundAnswer(app.front_end,
                  (launch.active /\ app.front_end.mode = "Gameplay")
                      \/ ActiveCharacterIsConfirmed(app),
                  ReduceFrontEnd(app.front_end, edges, Menu(app), caps))
  BY <1>2, <1>3 DEF SoundAnswer
<1> QED
  BY <1>4 DEF Reduction, caps, edges

\* A mirror that shows the session's lists answers the frame as the session does, although its
\* capabilities are those of a run without a diagnostic start.
LEMMA SameReductionInReplay ==
    ASSUME RunTypes, InFrame, SessionIsStored, ~launch.active, replay \in Replays,
           replay.front_end = app.front_end, MirrorsSession(replay, app, stored), NEW input
    PROVE  ReplayReduction(input) = Reduction(input)
<1> DEFINE caps == CurrentFrontEndCapabilities(app, FALSE)
<1>1. app \in Apps /\ StoredSession(app, stored, cards, TRUE) /\ launch.active = FALSE
  BY DEF RunTypes, SessionIsStored
<1>2. /\ ActiveProfileIsConfirmed(app) \in BOOLEAN /\ ActiveCharacterIsConfirmed(app) \in BOOLEAN
      /\ app.profiles \in Nat /\ app.characters \in Nat
  BY <1>1, SessionOffers DEF Apps
<1>3. ReplayMenu = Menu(app)
  <2>1. /\ replay.profiles = app.profiles /\ replay.characters = app.characters
        /\ replay.profile_confirmed = ActiveProfileIsConfirmed(app)
        /\ replay.character_confirmed = ActiveCharacterIsConfirmed(app)
    BY <1>2 DEF MirrorsSession, Replays
  <2> QED
    BY <2>1 DEF ReplayMenu, Menu
<1>4. /\ ReplayCapabilities.supports_character_selection = TRUE
      /\ ReplayCapabilities.can_create_first_profile <=> app.profiles = 0
      /\ ReplayCapabilities.can_create_first_character <=> app.characters = 0
      /\ ReplayCapabilities.can_start_campaign = TRUE
      /\ ReplayCapabilities.requires_active_profile = TRUE
      /\ ReplayCapabilities.requires_active_character = TRUE
  BY <1>2 DEF ReplayCapabilities, MirrorsSession
<1>5. /\ ActiveCharacterIsConfirmed(app) =>
           ActiveProfileIsConfirmed(app) /\ app.active_profile # None
      /\ ActiveProfileIsConfirmed(app) => app.active_profile # None
      /\ ProfileIsUsable(Menu(app)) <=> ActiveProfileIsConfirmed(app)
      /\ CharacterIsUsable(Menu(app)) <=> ActiveCharacterIsConfirmed(app)
      /\ GameplayIsPermitted(Menu(app), caps) <=> ActiveCharacterIsConfirmed(app)
      /\ caps.supports_character_selection = TRUE
  BY <1>1, SessionOffers
<1>6. /\ caps.can_create_first_profile <=> app.profiles = 0
      /\ caps.can_create_first_character = app.can_create_first_character
  BY <1>1, <1>2 DEF CurrentFrontEndCapabilities, StoredSession, Apps
<1>7. GameplayIsPermitted(Menu(app), ReplayCapabilities) <=> ActiveCharacterIsConfirmed(app)
  BY <1>4, <1>5 DEF GameplayIsPermitted, AllowsGameplay, SatisfiesGameplayGate
<1>8. ProfileIsUsable(Menu(app)) =>
         (caps.can_create_first_character <=> ReplayCapabilities.can_create_first_character)
  BY <1>1, <1>4, <1>5, <1>6 DEF StoredSession
<1> HIDE DEF caps
<1>9. OffersTheSame(Menu(app), ReplayCapabilities, caps)
  <2>1. ReplayCapabilities.supports_character_selection = caps.supports_character_selection
    BY <1>4, <1>5
  <2> QED
    BY <1>4, <1>5, <1>6, <1>7, <1>8, <2>1 DEF OffersTheSame
<1>10. ReplayReduction(input) =
         ReduceFrontEnd(app.front_end, ResolveFrontEndInputEdges(app.front_end.mode, input.pressed),
                        Menu(app), ReplayCapabilities)
  BY <1>3 DEF ReplayReduction
<1>11. Reduction(input) =
         ReduceFrontEnd(app.front_end, ResolveFrontEndInputEdges(app.front_end.mode, input.pressed),
                        Menu(app), caps)
  BY <1>1 DEF Reduction, caps
<1> QED
  BY <1>9, <1>10, <1>11, SameReduction

-------------------------------------------------------------------------------
(***************************************************************************)
(* The capture.                                                            *)
(***************************************************************************)

\* A run captures if it was started to.
LEMMA WhoCaptures ==
    ASSUME RunTypes
    PROVE  /\ Captures <=> launch.start = "capture"
           /\ Captures => capture \in Captured
           /\ ~Captures => capture = NoCapture
<1>1. \A c \in Captured : c # NoCapture
  BY DEF Captured, NoCapture
<1> QED
  BY <1>1 DEF RunTypes, Captures

\* What is taken is never mistaken for a refusal.
LEMMA CapturedIsNotRefused ==
    \A c \in Captured : c # Refused
<1> SUFFICES ASSUME NEW c \in Captured, c = Refused
             PROVE  FALSE
  OBVIOUS
<1>1. "phase" \in DOMAIN c
  BY DEF Captured
<1>2. DOMAIN Refused = {"refused"}
  BY DEF Refused
<1> QED
  BY <1>1, <1>2

\* AppendInput takes the next frame while there is room.
LEMMA InputIsTaken ==
    ASSUME NEW c \in Captured, NEW input \in Inputs, NEW n \in Nat, c.phase = "AwaitInput",
           c.inputs.count = n, n < c.maximum, NEW taken,
           taken = AppendInput(c, [frame |-> n, input |-> input])
    PROVE  /\ taken \in Captured /\ taken # Refused
           /\ taken.phase = "AwaitElapsedOrTerminal" /\ taken.pending = n
           /\ taken.inputs.count = n + 1
           /\ taken.inputs.unread = Append(c.inputs.unread, input)
           /\ taken.times = c.times /\ taken.terminal = c.terminal /\ taken.maximum = c.maximum
<1> DEFINE trace == Record(c.inputs, input)
<1>1. trace = [count |-> n + 1, unread |-> Append(c.inputs.unread, input)]
  BY DEF Record
<1>2. trace \in [count : Nat, unread : Seq(Inputs)]
  <2>1. c.inputs.unread \in Seq(Inputs)
    BY DEF Captured
  <2>2. Append(c.inputs.unread, input) \in Seq(Inputs)
    BY <2>1
  <2> QED
    BY <1>1, <2>2
<1>3. taken = [c EXCEPT !.phase = "AwaitElapsedOrTerminal", !.pending = n, !.inputs = trace]
  BY DEF AppendInput, Takes
<1> HIDE DEF trace
<1>4. taken \in Captured
  BY <1>2, <1>3 DEF Captured
<1>5. /\ taken.phase = "AwaitElapsedOrTerminal" /\ taken.pending = n /\ taken.inputs = trace
      /\ taken.times = c.times /\ taken.terminal = c.terminal /\ taken.maximum = c.maximum
  BY <1>3 DEF Captured
<1> QED
  BY <1>1, <1>4, <1>5, CapturedIsNotRefused

\* AppendElapsed takes the time of the frame it waits for.
LEMMA TimeIsTaken ==
    ASSUME NEW c \in Captured, NEW elapsed \in Elapsed, c.phase = "AwaitElapsedOrTerminal",
           c.pending = c.times.count, c.pending < c.maximum, NEW taken,
           taken = AppendElapsed(c, elapsed)
    PROVE  /\ taken \in Captured /\ taken # Refused
           /\ taken.phase = "AwaitInput" /\ taken.inputs = c.inputs
           /\ taken.times.count = c.times.count + 1
           /\ taken.times.unread = Append(c.times.unread, elapsed)
           /\ taken.terminal = c.terminal /\ taken.maximum = c.maximum
<1> DEFINE trace == Record(c.times, elapsed)
<1>1. trace = [count |-> c.times.count + 1, unread |-> Append(c.times.unread, elapsed)]
  BY DEF Record
<1>2. trace \in [count : Nat, unread : Seq(Elapsed)]
  <2>1. c.times.unread \in Seq(Elapsed) /\ c.times.count \in Nat
    BY DEF Captured
  <2>2. Append(c.times.unread, elapsed) \in Seq(Elapsed)
    BY <2>1
  <2> QED
    BY <1>1, <2>1, <2>2
<1>3. taken = [c EXCEPT !.phase = "AwaitInput", !.pending = 0, !.times = trace]
  BY DEF AppendElapsed, Takes
<1> HIDE DEF trace
<1>4. taken \in Captured
  BY <1>2, <1>3, 0 \in Nat DEF Captured
<1>5. /\ taken.phase = "AwaitInput" /\ taken.inputs = c.inputs /\ taken.times = trace
      /\ taken.terminal = c.terminal /\ taken.maximum = c.maximum
  BY <1>3 DEF Captured
<1> QED
  BY <1>1, <1>4, <1>5, CapturedIsNotRefused

\* MarkTerminal ends the capture on the frame it waits for.
LEMMA TerminalIsMarked ==
    \A c \in Captured, host, logical \in BOOLEAN :
        (host \/ logical) /\ c.phase = "AwaitElapsedOrTerminal" =>
          LET marked == MarkTerminal(c, host, logical)
          IN /\ marked \in Captured /\ marked # Refused
             /\ marked.phase = "Terminal" /\ marked.inputs = c.inputs /\ marked.times = c.times
             /\ marked.maximum = c.maximum
             /\ marked.terminal.marked = TRUE /\ marked.terminal.frame = c.pending
             /\ marked.terminal.host \/ marked.terminal.logical
<1> TAKE c \in Captured, host, logical \in BOOLEAN
<1> HAVE (host \/ logical) /\ c.phase = "AwaitElapsedOrTerminal"
<1> DEFINE marked == MarkTerminal(c, host, logical)
<1> DEFINE end == [marked |-> TRUE, frame |-> c.pending, host |-> host, logical |-> logical]
<1>1. marked = [c EXCEPT !.phase = "Terminal", !.pending = 0, !.terminal = end]
  BY DEF MarkTerminal
<1>2. end \in [marked : BOOLEAN, frame : Nat, host : BOOLEAN, logical : BOOLEAN]
  BY DEF Captured
<1>3. end.marked = TRUE /\ end.frame = c.pending /\ (end.host \/ end.logical)
  OBVIOUS
<1> HIDE DEF end, marked
<1>4. marked \in Captured
  BY <1>1, <1>2, 0 \in Nat DEF Captured
<1>5. /\ marked.phase = "Terminal" /\ marked.inputs = c.inputs /\ marked.times = c.times
      /\ marked.maximum = c.maximum /\ marked.terminal = end
  BY <1>1 DEF Captured
<1> QED
  BY <1>3, <1>4, <1>5, CapturedIsNotRefused DEF marked


-------------------------------------------------------------------------------
(***************************************************************************)
(* The frame that is taken.                                                *)
(***************************************************************************)

\* What is captured of a frame, and whether it is the last one.
CapturedInput(c, input, quits) ==
    /\ c \in Captured
    /\ c.maximum = capture.maximum /\ c.times = capture.times
    /\ c.inputs.count = result.input_frames + 1 /\ c.inputs.unread = <<input>>
    /\ quits => /\ c.phase = "Terminal" /\ c.terminal.marked = TRUE
                /\ c.terminal.frame = result.input_frames
                /\ c.terminal.host \/ c.terminal.logical
    /\ ~quits => /\ c.phase = "AwaitElapsedOrTerminal" /\ c.pending = result.input_frames
                 /\ c.terminal = capture.terminal

\* The capture takes the frame's input, and its mark if it is the last one.
LEMMA FrameIsTaken ==
    ASSUME RunTypes, FramesAreCounted, TracesAreInStep, PumpInput
    PROVE  \/ /\ launch.start = "retail"
              /\ loop' = [pc |-> "leaving", failure |-> "operational"]
              /\ result' = result /\ capture' = capture
           \/ \E input \in Inputs, quits \in BOOLEAN :
                /\ result' = [result EXCEPT !.input_frames = @ + 1, !.quit_requested = quits]
                /\ loop' = IF quits THEN [pc |-> "quit"]
                           ELSE [pc |-> "apply", input |-> input, reduction |-> Reduction(input)]
                /\ ~Captures => capture' = capture
                /\ Captures => CapturedInput(capture', input, quits)
<1> DEFINE Logical(input) == "quit" \in input.pressed
           Quits(input) == input.host_quit \/ Logical(input)
           Asks(input) == ~Quits(input) /\ Reduction(input).command.type = "RequestQuit"
           Taken(input) == IF Captures
                           THEN AppendInput(capture, [frame |-> result.input_frames, input |-> input])
                           ELSE capture
           Marked(input) ==
               IF Captures /\ Taken(input) # Refused /\ (Quits(input) \/ Asks(input))
               THEN MarkTerminal(Taken(input), input.host_quit, Logical(input) \/ Asks(input))
               ELSE Taken(input)
<1>1. PICK input \in Inputs :
         CASE launch.start = "retail" ->
                   Leave("operational") /\ UNCHANGED <<result, capture>>
           [] launch.start # "retail" /\ Taken(input) = Refused ->
                   Leave("capture") /\ UNCHANGED <<result, capture>>
           [] launch.start # "retail" /\ Taken(input) # Refused /\ Marked(input) = Refused ->
                   /\ Leave("capture") /\ capture' = Taken(input)
                   /\ result' = [result EXCEPT !.input_frames = @ + 1]
           [] OTHER ->
                   /\ capture' = Marked(input)
                   /\ result' = [result EXCEPT !.input_frames = @ + 1,
                                               !.quit_requested = Quits(input) \/ Asks(input)]
                   /\ IF Quits(input) \/ Asks(input) THEN loop' = [pc |-> "quit"]
                      ELSE loop' = [pc |-> "apply", input |-> input, reduction |-> Reduction(input)]
  BY DEF PumpInput
<1>2. /\ loop.pc = "frame" /\ result.rendered_frames < FrameLimit
      /\ result.input_frames = result.rendered_frames /\ result.input_frames \in Nat
      /\ result.quit_requested = FALSE
  BY DEF PumpInput, FramesAreCounted, InFrame, RunTypes, Results
<1> DEFINE logical == Logical(input) \/ Asks(input)
           quits == Quits(input) \/ Asks(input)
           taken == Taken(input)
           marked == Marked(input)
<1>3. /\ quits \in BOOLEAN /\ input.host_quit \in BOOLEAN /\ logical \in BOOLEAN
      /\ quits => input.host_quit \/ logical
  BY RunAssumption
<1>4. ASSUME ~Captures
      PROVE  taken = capture /\ marked = capture /\ capture # Refused
  <2>1. capture = NoCapture
    BY <1>4, WhoCaptures
  <2>2. NoCapture # Refused
    <3>1. DOMAIN NoCapture = {"phase"} /\ DOMAIN Refused = {"refused"}
      BY DEF NoCapture, Refused
    <3> QED
      BY <3>1
  <2> QED
    BY <1>4, <2>1, <2>2
<1>5. ASSUME Captures
      PROVE  /\ taken \in Captured /\ taken # Refused
             /\ taken.phase = "AwaitElapsedOrTerminal" /\ taken.pending = result.input_frames
             /\ taken.inputs.count = result.input_frames + 1
             /\ taken.inputs.unread = <<input>>
             /\ taken.times = capture.times /\ taken.terminal = capture.terminal
             /\ taken.maximum = capture.maximum
  <2>1. /\ capture \in Captured /\ capture.phase = "AwaitInput"
        /\ capture.inputs.count = result.input_frames /\ capture.maximum = FrameLimit
        /\ capture.inputs.unread = <<>>
    BY <1>2, <1>5, WhoCaptures DEF TracesAreInStep
  <2>2. taken = AppendInput(capture, [frame |-> result.input_frames, input |-> input])
    BY <1>5
  <2>3. Append(<<>>, input) = <<input>>
    OBVIOUS
  <2> HIDE DEF taken
  <2> QED
    BY <1>2, <2>1, <2>2, <2>3, InputIsTaken
<1>6. ASSUME Captures
      PROVE  CapturedInput(marked, input, quits) /\ marked # Refused
  <2>1. CASE quits
    <3>1. marked = MarkTerminal(taken, input.host_quit, logical)
      BY <1>5, <1>6, <2>1
    <3> HIDE DEF taken, marked, logical, quits
    <3>2. /\ marked \in Captured /\ marked # Refused
          /\ marked.phase = "Terminal" /\ marked.inputs = taken.inputs
          /\ marked.times = taken.times /\ marked.maximum = taken.maximum
          /\ marked.terminal.marked = TRUE /\ marked.terminal.frame = taken.pending
          /\ marked.terminal.host \/ marked.terminal.logical
      <4>1. /\ taken \in Captured /\ input.host_quit \in BOOLEAN /\ logical \in BOOLEAN
            /\ input.host_quit \/ logical
            /\ taken.phase = "AwaitElapsedOrTerminal"
        BY <1>3, <1>5, <1>6, <2>1
      <4> QED
        BY <3>1, <4>1, TerminalIsMarked
    <3> QED
      BY <1>5, <1>6, <2>1, <3>2 DEF CapturedInput
  <2>2. CASE ~quits
    <3>1. marked = taken
      BY <2>2
    <3> HIDE DEF taken, marked, quits
    <3> QED
      BY <1>5, <1>6, <2>2, <3>1 DEF CapturedInput
  <2> QED
    BY <2>1, <2>2
<1>7. CASE launch.start = "retail"
  BY <1>1, <1>7 DEF Leave
<1>8. CASE launch.start # "retail"
  <2>1. taken # Refused /\ marked # Refused
    BY <1>4, <1>5, <1>6
  <2>2. /\ capture' = marked
        /\ result' = [result EXCEPT !.input_frames = @ + 1, !.quit_requested = quits]
        /\ loop' = IF quits THEN [pc |-> "quit"]
                   ELSE [pc |-> "apply", input |-> input, reduction |-> Reduction(input)]
    BY <1>1, <1>8, <2>1
  <2> HIDE DEF taken, marked, quits
  <2>3. ~Captures => capture' = capture
    BY <1>4, <2>2
  <2>4. Captures => CapturedInput(capture', input, quits)
    BY <1>6, <2>2
  <2> QED
    BY <1>3, <2>2, <2>3, <2>4
<1> QED
  BY <1>7, <1>8


-------------------------------------------------------------------------------
(***************************************************************************)
(* Each action keeps the invariant.                                        *)
(***************************************************************************)

\* What a step keeps that leaves the session, and what is replayed, alone.
LEMMA SessionStays ==
    ASSUME SessionIsStored, UNCHANGED <<app, stored, cards>>, InFrame' => InFrame
    PROVE  SessionIsStored'
BY DEF SessionIsStored, StoredSession, ActiveProfileIsConfirmed

\* A step that touches neither menu nor play keeps play authorized.
LEMMA PlayStays ==
    ASSUME PlayIsAuthorized, UNCHANGED <<launch, app, play>>, InFrame' => InFrame,
           loop.pc # "simulate", loop'.pc \notin {"start", "simulate"}
    PROVE  PlayIsAuthorized'
BY DEF PlayIsAuthorized, ActiveCharacterIsConfirmed, ActiveProfileIsConfirmed

\* A step that touches neither the run's part nor the replay keeps them alike.
LEMMA RepeatsStays ==
    ASSUME UNCHANGED <<stored, app, play, replay>>
    PROVE  Repeats(replay)' <=> Repeats(replay)
BY DEF Repeats, MirrorsSession, RepeatsPlay, ActiveProfileIsConfirmed, ActiveCharacterIsConfirmed

\* What the replay would make of a frame depends on the replay alone.
LEMMA ReplayedStays ==
    ASSUME UNCHANGED replay, NEW input, NEW elapsed
    PROVE  /\ ReplayReduction(input)' = ReplayReduction(input) /\ Deploys(input)' = Deploys(input)
           /\ SessionAfter(input)' = SessionAfter(input)
           /\ Replayed(input, elapsed)' = Replayed(input, elapsed)
<1>1. ASSUME NEW command PROVE Mirrored(command)' = Mirrored(command)
  BY DEF Mirrored
<1>2. ReplayCapabilities' = ReplayCapabilities /\ ReplayMenu' = ReplayMenu /\ Failed' = Failed
  BY DEF ReplayCapabilities, ReplayMenu, Failed
<1>3. ReplayReduction(input)' = ReplayReduction(input) /\ Deploys(input)' = Deploys(input)
  BY <1>2 DEF ReplayReduction, Deploys
<1>4. SessionAfter(input)' = SessionAfter(input)
  BY <1>1, <1>3 DEF SessionAfter
<1>5. FrameAgain(input, elapsed)' = FrameAgain(input, elapsed)
  BY <1>2, <1>3, <1>4 DEF FrameAgain
<1>6. ASSUME NEW target PROVE EventAgain(input, target)' = EventAgain(input, target)
  BY <1>3, <1>4 DEF EventAgain
<1> QED
  BY <1>2, <1>3, <1>4, <1>5, <1>6 DEF Replayed

\* PumpInput: a frame is taken with its input, captured, or is the last one.
LEMMA PumpInputKeeps ==
    ASSUME RunInvariant, PumpInput, UNCHANGED replay
    PROVE  RunInvariant'
<1>1. /\ RunTypes /\ SessionIsStored /\ PlayIsAuthorized /\ FramesAreCounted
      /\ TracesAreInStep /\ ReplayFollows
  BY DEF RunInvariant
<1>2. /\ loop.pc = "frame" /\ InFrame /\ result.rendered_frames < FrameLimit
      /\ UNCHANGED <<launch, stored, app, cards, play, replay>>
  BY DEF PumpInput, InFrame
<1>3. CASE /\ launch.start = "retail"
           /\ loop' = [pc |-> "leaving", failure |-> "operational"]
           /\ result' = result /\ capture' = capture
  <2>1. ~InFrame' /\ loop'.pc = "leaving" /\ loop'.failure = "operational"
    BY <1>3 DEF InFrame
  <2>2. ~Captures /\ ~Captures'
    BY <1>1, <1>3, WhoCaptures DEF Captures
  <2>3. RunTypes'
    BY <1>1, <1>2, <1>3, <2>1 DEF RunTypes, LoopOK
  <2>4. SessionIsStored' /\ PlayIsAuthorized'
    BY <1>1, <1>2, <2>1, SessionStays, PlayStays
  <2>5. FramesAreCounted'
    BY <1>1, <1>2, <1>3, <2>1 DEF FramesAreCounted
  <2>6. TracesAreInStep' /\ ReplayFollows'
    BY <1>1, <1>2, <2>2 DEF TracesAreInStep, ReplayFollows
  <2> QED
    BY <2>3, <2>4, <2>5, <2>6 DEF RunInvariant
<1>4. ASSUME NEW input \in Inputs, NEW quits \in BOOLEAN,
             result' = [result EXCEPT !.input_frames = @ + 1, !.quit_requested = quits],
             loop' = IF quits THEN [pc |-> "quit"]
                     ELSE [pc |-> "apply", input |-> input, reduction |-> Reduction(input)],
             ~Captures => capture' = capture,
             Captures => CapturedInput(capture', input, quits)
      PROVE  RunInvariant'
  <2>1. /\ loop'.pc = IF quits THEN "quit" ELSE "apply"
        /\ InFrame'
        /\ ~quits => loop'.input = input
    BY <1>4 DEF InFrame
  <2>2. Reduction(input)' = Reduction(input)
    BY <1>2 DEF Reduction, Menu, CurrentFrontEndCapabilities, ActiveProfileIsConfirmed,
                ActiveCharacterIsConfirmed
  <2>3. LoopOK'
    BY <1>4, <2>2 DEF LoopOK
  <2>4. /\ result' \in Results /\ result'.quit_requested = quits
        /\ result'.input_frames = result.input_frames + 1
        /\ result'.rendered_frames = result.rendered_frames
        /\ result'.unexecuted = result.unexecuted
        /\ result.input_frames \in Nat /\ result.rendered_frames \in Nat
    <3>1. result \in Results
      BY <1>1 DEF RunTypes
    <3>2. result' = [result EXCEPT !.input_frames = @ + 1, !.quit_requested = quits]
      BY <1>4
    <3>3. result' \in Results
      <4>1. \A r \in Results, n \in Nat, q \in BOOLEAN :
               [r EXCEPT !.input_frames = n, !.quit_requested = q] \in Results
        BY DEF Results
      <4>2. result.input_frames + 1 \in Nat
        BY <3>1 DEF Results
      <4> QED
        BY <3>1, <3>2, <4>1, <4>2
    <3> QED
      BY <3>1, <3>2, <3>3 DEF Results
  <2>5. /\ Captures => Captures' /\ capture' \in Captured
        /\ Captures' => Captures
        /\ capture' \in IF launch.start = "capture" THEN Captured ELSE {NoCapture}
    <3>1. ASSUME Captures
          PROVE  Captures' /\ capture' \in Captured /\ launch.start = "capture"
      BY <1>1, <1>4, <3>1, WhoCaptures DEF CapturedInput, Captures, Captured, NoCapture
    <3>2. ASSUME ~Captures
          PROVE  ~Captures' /\ capture' = NoCapture /\ launch.start # "capture"
      BY <1>1, <1>4, <3>2, WhoCaptures DEF Captures
    <3> QED
      BY <3>1, <3>2
  <2>6. RunTypes'
    BY <1>1, <1>2, <2>3, <2>4, <2>5 DEF RunTypes, InFrame
  <2>7. SessionIsStored' /\ PlayIsAuthorized'
    BY <1>1, <1>2, <2>1, SessionStays, PlayStays
  <2>8. FramesAreCounted'
    BY <1>1, <1>2, <2>1, <2>4, FrameLimitAssumption DEF FramesAreCounted, InFrame
  <2>9. TracesAreInStep'
    <3> SUFFICES ASSUME Captures
                 PROVE  TracesAreInStep'
      BY <2>5 DEF TracesAreInStep
    <3>1. /\ capture.maximum = FrameLimit /\ capture.inputs.count = result.input_frames
          /\ capture.times.unread = <<>> /\ capture.times.count = result.input_frames
          /\ result.input_frames = result.rendered_frames /\ capture.terminal.marked = FALSE
      BY <1>1, <1>2, WhoCaptures DEF TracesAreInStep, FramesAreCounted, InFrame, Captured
    <3>2. CapturedInput(capture', input, quits)
      BY <1>4
    <3>3. Len(<<input>>) = 1 /\ FrameLimit \in Nat
      BY FrameLimitAssumption
    <3>4. CASE quits
      <4>1. /\ loop'.pc = "quit" /\ result'.quit_requested = TRUE
            /\ result'.input_frames = result.input_frames + 1
        BY <2>1, <2>4, <3>4
      <4> QED
        BY <1>2, <2>4, <3>1, <3>2, <3>3, <3>4, <4>1 DEF TracesAreInStep, CapturedInput
    <3>5. CASE ~quits
      <4>1. /\ loop'.pc = "apply" /\ result'.quit_requested = FALSE /\ loop'.input = input
            /\ result'.input_frames = result.input_frames + 1
        BY <2>1, <2>4, <3>5
      <4> QED
        BY <1>2, <2>4, <3>1, <3>2, <3>3, <3>5, <4>1 DEF TracesAreInStep, CapturedInput
    <3> QED
      BY <3>4, <3>5
  <2>10. ReplayFollows'
    <3>1. replay' \in Replays /\ replay'.state # "Failed"
      BY <1>1, <1>2 DEF ReplayFollows
    <3>2. Captures => Repeats(replay)'
      BY <1>1, <1>2, RepeatsStays DEF ReplayFollows
    <3>3. Captures /\ quits => Unread'
      <4>1. <<input>> # <<>>
        OBVIOUS
      <4> QED
        BY <1>4, <2>1, <2>5, <4>1 DEF Unread, CapturedInput
    <3> QED
      BY <2>1, <2>5, <3>1, <3>2, <3>3 DEF ReplayFollows
  <2> QED
    BY <2>6, <2>7, <2>8, <2>9, <2>10 DEF RunInvariant
<1> QED
  BY <1>1, <1>3, <1>4, FrameIsTaken


\* PrepareRunStart: the diagnostic start opens play with its mission deployed.
LEMMA PrepareRunStartKeeps ==
    ASSUME RunInvariant, PrepareRunStart, UNCHANGED replay
    PROVE  RunInvariant'
<1>1. /\ RunTypes /\ SessionIsStored /\ PlayIsAuthorized /\ FramesAreCounted
      /\ TracesAreInStep /\ ReplayFollows
  BY DEF RunInvariant
<1>2. /\ loop.pc = "start" /\ InFrame
      /\ UNCHANGED <<stored, cards, result, capture, replay>>
  BY DEF PrepareRunStart, InFrame
<1>3. app.front_end = InitialFrontEndState /\ play.mission = "Ready" /\ launch.active = FALSE
  BY <1>1, <1>2 DEF PlayIsAuthorized, InitialFrontEndState, RunTypes
<1>4. ASSUME UNCHANGED <<launch, app, play>>,
             \/ loop' = [pc |-> "frame"]
             \/ /\ loop' = [pc |-> "leaving", failure |-> "operational"]
                /\ launch.start = "diagnostic"
      PROVE  RunInvariant'
  <2>1. \/ loop'.pc = "frame" /\ InFrame'
        \/ loop'.pc = "leaving" /\ loop'.failure = "operational" /\ ~InFrame' /\ ~Captures
    BY <1>1, <1>4, WhoCaptures DEF InFrame
  <2>2. RunTypes'
    BY <1>1, <1>2, <1>4 DEF RunTypes, LoopOK, InFrame
  <2>3. SessionIsStored' /\ PlayIsAuthorized'
    BY <1>1, <1>2, <1>4, <2>1, SessionStays, PlayStays
  <2>4. FramesAreCounted'
    BY <1>1, <1>2, <2>1 DEF FramesAreCounted, InFrame
  <2>5. TracesAreInStep'
    BY <1>1, <1>2, <2>1 DEF TracesAreInStep, Captures
  <2>6. ReplayFollows'
    BY <1>1, <1>2, <1>4, <2>1, RepeatsStays DEF ReplayFollows, Captures
  <2> QED
    BY <2>2, <2>3, <2>4, <2>5, <2>6 DEF RunInvariant
<1>5. ASSUME launch.start = "diagnostic",
             play' = Redeployed(play), app' = [app EXCEPT !.front_end.mode = "Gameplay"],
             launch' = [launch EXCEPT !.active = TRUE], loop' = [pc |-> "frame"]
      PROVE  RunInvariant'
  <2>1. loop'.pc = "frame" /\ InFrame' /\ ~Captures /\ ~Captures'
    BY <1>1, <1>2, <1>5, WhoCaptures DEF InFrame, Captures
  <2>2. /\ play' \in Plays /\ play'.mission = "Active"
    BY <1>1, <1>2, <1>5, RedeployedType DEF RunTypes
  <2>3. /\ launch' \in [start : {"capture", "current", "diagnostic", "retail"}, active : BOOLEAN]
        /\ launch'.start = "diagnostic" /\ launch'.active = TRUE
    BY <1>1, <1>5 DEF RunTypes
  <2> DEFINE t == [app.front_end EXCEPT !.mode = "Gameplay"]
  <2>4. t \in FrontEndStates /\ t.mode = "Gameplay"
    <3>1. app.front_end \in FrontEndStates /\ app.front_end.row = 0
      BY <1>1, <1>3 DEF RunTypes, Apps, InitialFrontEndState, CreateAgentRow
    <3>2. "Gameplay" \in Modes /\ 0 \in RowsOf["Gameplay"]
      BY ModeRows DEF Modes
    <3> QED
      BY <3>1, <3>2, OtherMode
  <2>5. app' = [app EXCEPT !.front_end = t]
    BY <1>5
  <2> HIDE DEF t
  <2>6. /\ app' \in Apps /\ app'.front_end = t
        /\ app'.profiles = app.profiles /\ app'.characters = app.characters
        /\ app'.card = app.card /\ app'.first_card = app.first_card
        /\ app'.can_create_first_profile = app.can_create_first_profile
        /\ app'.can_create_first_character = app.can_create_first_character
        /\ app'.active_profile = app.active_profile
        /\ app'.active_character = app.active_character
    <3>1. app \in Apps
      BY <1>1 DEF RunTypes
    <3> QED
      BY <2>4, <2>5, <3>1 DEF Apps
  <2>7. RunTypes'
    BY <1>1, <1>2, <1>5, <2>2, <2>3, <2>6 DEF RunTypes, LoopOK
  <2>8. SessionIsStored'
    BY <1>1, <1>2, <2>1, <2>6 DEF SessionIsStored, StoredSession, ActiveProfileIsConfirmed
  <2>9. PlayIsAuthorized'
    BY <2>1, <2>2, <2>3, <2>4, <2>6 DEF PlayIsAuthorized
  <2>10. FramesAreCounted'
    BY <1>1, <1>2, <2>1 DEF FramesAreCounted, InFrame
  <2>11. TracesAreInStep' /\ ReplayFollows'
    BY <1>1, <1>2, <2>1 DEF TracesAreInStep, ReplayFollows
  <2> QED
    BY <2>7, <2>8, <2>9, <2>10, <2>11 DEF RunInvariant
<1>6. DeployDiagnosticMission.ok => DeployDiagnosticMission.play = Redeployed(play)
  <2>1. DeployDiagnosticMission = [Unchanged EXCEPT !.play = Redeployed(play)]
    BY <1>3 DEF DeployDiagnosticMission, MissionRejects, MissionAfter, Redeployed
  <2> QED
    BY <2>1 DEF Unchanged
<1> QED
  BY <1>4, <1>5, <1>6 DEF PrepareRunStart, Leave

\* Render: a frame more is drawn, and the replay may now read it.
LEMMA RenderKeeps ==
    ASSUME RunInvariant, Render, UNCHANGED replay
    PROVE  RunInvariant'
<1>1. /\ RunTypes /\ SessionIsStored /\ PlayIsAuthorized /\ FramesAreCounted
      /\ TracesAreInStep /\ ReplayFollows
  BY DEF RunInvariant
<1>2. /\ loop.pc = "render" /\ InFrame
      /\ UNCHANGED <<launch, stored, app, cards, play, capture, replay>>
  BY DEF Render, InFrame
<1>3. loop.plan \in Plans
  BY <1>1, <1>2 DEF RunTypes, LoopOK
<1>4. \/ /\ result' = [result EXCEPT !.rendered_frames = @ + 1]
         /\ loop' = [pc |-> "rendered", plan |-> loop.plan]
      \/ /\ result' = result
         /\ loop' = [pc |-> "leaving", failure |-> "operational"]
  BY DEF Render, Leave
<1>5. \/ loop'.pc = "rendered" /\ loop'.plan = loop.plan /\ InFrame'
      \/ loop'.pc = "leaving" /\ loop'.failure = "operational" /\ ~InFrame'
  BY <1>4 DEF InFrame
<1>6. /\ result' \in Results
      /\ result'.rendered_frames =
            IF loop'.pc = "rendered" THEN result.rendered_frames + 1 ELSE result.rendered_frames
      /\ result'.input_frames = result.input_frames /\ result'.unexecuted = result.unexecuted
      /\ result'.quit_requested = result.quit_requested
      /\ result.rendered_frames \in Nat /\ result.input_frames \in Nat
  <2>1. result \in Results
    BY <1>1 DEF RunTypes
  <2> QED
    BY <1>4, <2>1 DEF Results
<1>7. RunTypes'
  BY <1>1, <1>2, <1>3, <1>4, <1>6 DEF RunTypes, LoopOK, InFrame
<1>8. SessionIsStored' /\ PlayIsAuthorized'
  BY <1>1, <1>2, <1>5, SessionStays, PlayStays
<1>9. FramesAreCounted'
  BY <1>1, <1>2, <1>5, <1>6, FrameLimitAssumption DEF FramesAreCounted, InFrame
<1>10. TracesAreInStep'
  BY <1>1, <1>2, <1>5, <1>6 DEF TracesAreInStep, Captures
<1>11. ReplayFollows'
  <2>1. Captures => Len(capture.inputs.unread) = 1
    BY <1>1, <1>2 DEF TracesAreInStep
  <2>2. Captures => capture.inputs.unread # <<>>
    BY <2>1
  <2>3. Captures /\ loop'.pc = "rendered" => Unread'
    BY <1>2, <2>2 DEF Unread, Captures
  <2> DEFINE r == Replayed(Head(capture.inputs.unread), Head(capture.times.unread))
  <2>4. ASSUME Captures, loop'.pc = "rendered"
        PROVE  IsPlayed(r)'
    <3>1. IsPlayed(r)
      BY <1>1, <1>2, <2>4 DEF ReplayFollows
    <3>2. r' = r
      BY <1>2, ReplayedStays
    <3> HIDE DEF r
    <3> QED
      BY <1>2, <1>5, <2>4, <3>1, <3>2 DEF IsPlayed, Repeats, MirrorsSession, RepeatsPlay,
         ActiveProfileIsConfirmed, ActiveCharacterIsConfirmed
  <2> QED
    BY <1>1, <1>2, <1>5, <2>3, <2>4 DEF ReplayFollows, Captures
<1> QED
  BY <1>7, <1>8, <1>9, <1>10, <1>11 DEF RunInvariant

\* NextFrame: the replay has read the frame before the next begins.
LEMMA NextFrameKeeps ==
    ASSUME RunInvariant, NextFrame, ~Unread, UNCHANGED replay
    PROVE  RunInvariant'
<1>1. /\ RunTypes /\ SessionIsStored /\ PlayIsAuthorized /\ FramesAreCounted
      /\ TracesAreInStep /\ ReplayFollows
  BY DEF RunInvariant
<1>2. /\ loop.pc = "rendered" /\ InFrame
      /\ UNCHANGED <<launch, stored, app, cards, play, result, capture, replay>>
  BY DEF NextFrame, InFrame
<1>3. \/ loop' = [pc |-> "frame"]
      \/ /\ result.rendered_frames >= FrameLimit
         /\ loop' \in [pc : {"leaving"}, failure : {"none", "operational"}]
  <2>1. result.rendered_frames \in Nat /\ FrameLimit \in Nat
    BY <1>1, FrameLimitAssumption DEF RunTypes, Results
  <2> QED
    BY <2>1 DEF NextFrame, EndRun, Leave
<1>4. \/ loop'.pc = "frame" /\ InFrame'
      \/ loop'.pc = "leaving" /\ ~InFrame' /\ result.rendered_frames >= FrameLimit
  BY <1>3 DEF InFrame
<1>5. RunTypes'
  BY <1>1, <1>2, <1>3 DEF RunTypes, LoopOK, InFrame
<1>6. SessionIsStored' /\ PlayIsAuthorized'
  BY <1>1, <1>2, <1>4, SessionStays, PlayStays
<1>7. FramesAreCounted'
  <2>1. result.rendered_frames \in Nat /\ FrameLimit \in Nat
    BY <1>1, FrameLimitAssumption DEF RunTypes, Results
  <2> QED
    BY <1>1, <1>2, <1>4, <2>1 DEF FramesAreCounted, InFrame
<1>8. TracesAreInStep'
  <2>1. Captures => capture.inputs.unread = <<>> /\ capture.times.unread = <<>>
    <3>1. Captures => capture.inputs.unread = <<>>
      BY <1>2 DEF Unread
    <3>2. Len(<<>>) = 0
      OBVIOUS
    <3> QED
      BY <1>1, <1>2, <3>1, <3>2 DEF TracesAreInStep
  <2> QED
    BY <1>1, <1>2, <1>4, <2>1 DEF TracesAreInStep, Captures
<1>9. ReplayFollows'
  <2>1. Captures => Repeats(replay)
    BY <1>1, <1>2 DEF ReplayFollows, IsPlayed
  <2> QED
    BY <1>1, <1>2, <1>4, <2>1, RepeatsStays DEF ReplayFollows, Captures
<1> QED
  BY <1>5, <1>6, <1>7, <1>8, <1>9 DEF RunInvariant


\* Quit: the run leaves with the marked frame captured.
LEMMA QuitKeeps ==
    ASSUME RunInvariant, Quit, UNCHANGED replay
    PROVE  RunInvariant'
<1>1. /\ RunTypes /\ SessionIsStored /\ PlayIsAuthorized /\ FramesAreCounted
      /\ TracesAreInStep /\ ReplayFollows
  BY DEF RunInvariant
<1>2. /\ loop.pc = "quit" /\ InFrame
      /\ UNCHANGED <<launch, stored, app, cards, play, result, capture, replay>>
      /\ loop' \in [pc : {"leaving"}, failure : {"none", "operational"}]
  BY DEF Quit, InFrame, EndRun, Leave
<1>3. loop'.pc = "leaving" /\ ~InFrame' /\ result.quit_requested
  BY <1>1, <1>2 DEF InFrame, FramesAreCounted
<1>4. RunTypes'
  BY <1>1, <1>2, <1>3 DEF RunTypes, LoopOK
<1>5. SessionIsStored' /\ PlayIsAuthorized'
  BY <1>1, <1>2, <1>3, SessionStays, PlayStays
<1>6. FramesAreCounted'
  BY <1>1, <1>2, <1>3 DEF FramesAreCounted
<1>7. TracesAreInStep' /\ ReplayFollows'
  BY <1>1, <1>2, <1>3 DEF TracesAreInStep, ReplayFollows, Captures
<1> QED
  BY <1>4, <1>5, <1>6, <1>7 DEF RunInvariant

\* A run that leaves can finish its capture.
LEMMA LeavingCaptureIsFinished ==
    ASSUME RunTypes, TracesAreInStep, loop.pc \notin {"apply"}, Captures
    PROVE  CanFinish(capture)
<1>1. result.quit_requested \in BOOLEAN
  BY DEF RunTypes, Results
<1> QED
  BY <1>1 DEF TracesAreInStep, CanFinish

\* Return: the capture is finished and the completion named.
LEMMA ReturnKeeps ==
    ASSUME RunInvariant, Return, UNCHANGED replay
    PROVE  RunInvariant'
<1>1. /\ RunTypes /\ SessionIsStored /\ PlayIsAuthorized /\ FramesAreCounted
      /\ TracesAreInStep /\ ReplayFollows
  BY DEF RunInvariant
<1>2. /\ loop.pc = "leaving" /\ ~InFrame
      /\ UNCHANGED <<launch, stored, app, cards, play, result, capture, replay>>
      /\ loop' = [pc |-> "returned", completion |-> Completion(loop.failure)]
  BY DEF Return, InFrame
<1>3. loop'.pc = "returned" /\ ~InFrame' /\ loop'.completion = Completion(loop.failure)
  BY <1>2 DEF InFrame
<1>4. loop.failure \in {"none", "operational"}
  BY <1>1, <1>2 DEF RunTypes, LoopOK
<1>5. /\ Completion(loop.failure) \in {"OperationalFailure", "QuitRequested", "FrameLimitReached"}
      /\ Completion(loop.failure) = "QuitRequested" => result.quit_requested
      /\ Completion(loop.failure) = "FrameLimitReached" =>
           loop.failure = "none" /\ ~result.quit_requested
  <2>1. Captures => CanFinish(capture)
    BY <1>1, <1>2, LeavingCaptureIsFinished
  <2>2. result.quit_requested \in BOOLEAN
    BY <1>1 DEF RunTypes, Results
  <2> QED
    BY <1>4, <2>1, <2>2 DEF Completion
<1>6. RunTypes'
  BY <1>1, <1>2, <1>3, <1>5 DEF RunTypes, LoopOK
<1>7. SessionIsStored' /\ PlayIsAuthorized'
  BY <1>1, <1>2, <1>3, SessionStays DEF PlayIsAuthorized
<1>8. FramesAreCounted'
  BY <1>1, <1>2, <1>3, <1>5 DEF FramesAreCounted, InFrame
<1>9. TracesAreInStep' /\ ReplayFollows'
  BY <1>1, <1>2, <1>3 DEF TracesAreInStep, ReplayFollows, Captures
<1> QED
  BY <1>6, <1>7, <1>8, <1>9 DEF RunInvariant

\* Skipping the one frame left leaves nothing unread.
LEMMA LastFrameIsSkipped ==
    ASSUME NEW S, NEW trace \in [count : Nat, unread : Seq(S)], Len(trace.unread) \in {0, 1}
    PROVE  Skip(trace) = [count |-> trace.count, unread |-> <<>>]
<1>1. trace.unread \in Seq(S)
  OBVIOUS
<1>2. trace.unread # <<>> => Len(Tail(trace.unread)) = 0
  BY <1>1, EmptySeq, HeadTailProperties
<1>3. trace.unread # <<>> => Tail(trace.unread) = <<>>
  BY <1>1, <1>2, EmptySeq, HeadTailProperties
<1> DEFINE rest == IF trace.unread = <<>> THEN trace.unread ELSE Tail(trace.unread)
<1>4. rest = <<>>
  BY <1>3
<1>5. Skip(trace) = [trace EXCEPT !.unread = rest]
  BY DEF Skip
<1> HIDE DEF rest
<1> QED
  BY <1>4, <1>5

\* ReplayNext: the replay comes where it was bound to come, or is complete.
LEMMA ReplayNextKeeps ==
    ASSUME RunInvariant, ReplayNext
    PROVE  RunInvariant'
<1>1. /\ RunTypes /\ SessionIsStored /\ PlayIsAuthorized /\ FramesAreCounted
      /\ TracesAreInStep /\ ReplayFollows
  BY DEF RunInvariant
<1>2. /\ Captures /\ loop.pc \in {"rendered", "quit"} /\ InFrame
      /\ capture.inputs.unread # <<>>
      /\ capture' = [capture EXCEPT !.inputs = Skip(@), !.times = Skip(@)]
      /\ UNCHANGED <<launch, stored, app, cards, play, loop, result>>
  BY DEF ReplayNext, Unread, InFrame
<1>3. capture \in Captured /\ result.input_frames \in Nat
  BY <1>1, <1>2, WhoCaptures DEF RunTypes, Results
<1> DEFINE input == Head(capture.inputs.unread)
           elapsed == Head(capture.times.unread)
           inputs == Skip(capture.inputs)
           times == Skip(capture.times)
<1>4. /\ Len(capture.inputs.unread) = 1
      /\ \/ capture.times.unread = <<>>
         \/ Len(capture.times.unread) = 1 /\ capture.times.unread # <<>>
  <2>1. Len(capture.inputs.unread) = 1
    BY <1>1, <1>2 DEF TracesAreInStep
  <2>2. capture.times.unread = <<>> \/ Len(capture.times.unread) = 1
    BY <1>1, <1>2 DEF TracesAreInStep
  <2> QED
    BY <2>1, <2>2
<1>5. /\ inputs = [count |-> capture.inputs.count, unread |-> <<>>]
      /\ times = [count |-> capture.times.count, unread |-> <<>>]
  <2>1. /\ capture.inputs \in [count : Nat, unread : Seq(Inputs)]
        /\ capture.times \in [count : Nat, unread : Seq(Elapsed)]
    BY <1>3 DEF Captured
  <2>2. Len(capture.times.unread) \in {0, 1}
    BY <1>4, Len(<<>>) = 0
  <2> QED
    BY <1>4, <2>1, <2>2, LastFrameIsSkipped
<1> HIDE DEF input, elapsed, inputs, times
<1>6. /\ capture' \in Captured
      /\ capture'.phase = capture.phase /\ capture'.maximum = capture.maximum
      /\ capture'.inputs.count = capture.inputs.count /\ capture'.inputs.unread = <<>>
      /\ capture'.times.count = capture.times.count /\ capture'.times.unread = <<>>
      /\ capture'.terminal = capture.terminal /\ capture'.pending = capture.pending
  <2>1. capture' = [capture EXCEPT !.inputs = inputs, !.times = times]
    BY <1>2 DEF inputs, times
  <2>2. inputs \in [count : Nat, unread : Seq(Inputs)] /\ times \in [count : Nat, unread : Seq(Elapsed)]
    BY <1>3, <1>5 DEF Captured
  <2>3. /\ inputs.count = capture.inputs.count /\ inputs.unread = <<>>
        /\ times.count = capture.times.count /\ times.unread = <<>>
    BY <1>5
  <2>4. capture' \in Captured
    BY <1>3, <2>1, <2>2 DEF Captured
  <2>5. /\ capture'.phase = capture.phase /\ capture'.maximum = capture.maximum
        /\ capture'.inputs = inputs /\ capture'.times = times
        /\ capture'.terminal = capture.terminal /\ capture'.pending = capture.pending
    BY <1>3, <2>1 DEF Captured
  <2> QED
    BY <2>3, <2>4, <2>5
<1>7. InFrame' /\ Captures' /\ ~Unread' /\ Unread /\ launch.start = "capture"
  BY <1>1, <1>2, <1>3, <1>6, WhoCaptures DEF InFrame, Captures, Unread, NoCapture, Captured
<1>8. RunTypes'
  <2>1. LoopOK'
    BY <1>1, <1>2 DEF RunTypes, LoopOK
  <2> QED
    BY <1>1, <1>2, <1>6, <1>7, <2>1 DEF RunTypes
<1>9. SessionIsStored' /\ PlayIsAuthorized'
  BY <1>1, <1>2, <1>7, SessionStays, PlayStays
<1>10. FramesAreCounted'
  BY <1>1, <1>2, <1>7 DEF FramesAreCounted
<1>11. TracesAreInStep'
  BY <1>1, <1>2, <1>6, <1>7 DEF TracesAreInStep
<1>12. CASE loop.pc = "rendered"
  <2>1. /\ capture.times.count = result.input_frames /\ capture.inputs.count = result.input_frames
        /\ capture.times.unread # <<>>
    <3>1. result.quit_requested = FALSE
      BY <1>1, <1>2, <1>12 DEF FramesAreCounted, RunTypes, Results
    <3>2. Len(capture.times.unread) = 1
      BY <1>1, <1>2, <1>12 DEF TracesAreInStep
    <3>3. Len(<<>>) = 0
      OBVIOUS
    <3> QED
      BY <1>1, <1>2, <1>12, <3>1, <3>2, <3>3 DEF TracesAreInStep
  <2>2. ~ReadsTerminal(Finish(capture)) /\ CanRead(Finish(capture))
    BY <1>2, <1>3, <1>4, <2>1 DEF ReadsTerminal, CanRead, Finish, Cursor
  <2>3. replay.state = "Ready" /\ IsPlayed(Replayed(input, elapsed))
    BY <1>1, <1>2, <1>7, <1>12 DEF ReplayFollows, input, elapsed
  <2>4. replay' = Replayed(input, elapsed)
    BY <2>2, <2>3 DEF ReplayNext, Finish, input, elapsed
  <2>5. IsPlayed(replay)'
    BY <1>2, <2>3, <2>4 DEF IsPlayed, Repeats, MirrorsSession, RepeatsPlay,
       ActiveProfileIsConfirmed, ActiveCharacterIsConfirmed
  <2>6. replay' \in Replays /\ replay'.state = "Ready"
    BY <2>5 DEF IsPlayed, Repeats, MirrorsSession
  <2>7. ReplayFollows'
    BY <1>2, <1>7, <1>12, <2>5, <2>6 DEF ReplayFollows
  <2> QED
    BY <1>8, <1>9, <1>10, <1>11, <2>7 DEF RunInvariant
<1>13. CASE loop.pc = "quit"
  <2>1. /\ capture.times.count = result.input_frames - 1
        /\ capture.inputs.count = result.input_frames
        /\ capture.times.unread = <<>>
        /\ capture.terminal.marked /\ capture.terminal.frame = result.input_frames - 1
        /\ capture.terminal.host \/ capture.terminal.logical
    BY <1>1, <1>2, <1>13 DEF TracesAreInStep, FramesAreCounted
  <2>2. ReadsTerminal(Finish(capture)) /\ CanRead(Finish(capture))
    <3>1. Cursor(capture.inputs) = result.input_frames - 1
      BY <1>3, <1>4, <2>1 DEF Cursor
    <3>2. /\ Finish(capture).inputs = capture.inputs /\ Finish(capture).times = capture.times
          /\ Finish(capture).terminal = capture.terminal
      BY DEF Finish
    <3> QED
      BY <1>2, <1>3, <2>1, <3>1, <3>2 DEF ReadsTerminal, CanRead
  <2>3. Repeats(replay) /\ replay \in Replays /\ replay.state = "Ready"
    BY <1>1, <1>2, <1>7, <1>13 DEF ReplayFollows, Repeats, MirrorsSession
  <2>4. replay' = [replay EXCEPT !.state = "Complete"]
    BY <2>2, <2>3 DEF ReplayNext
  <2>5. replay' \in Replays /\ replay'.state = "Complete"
    BY <2>3, <2>4 DEF Replays
  <2>6. [replay' EXCEPT !.state = "Ready"] = replay
    BY <2>3, <2>4 DEF Replays
  <2>7. Repeats([replay EXCEPT !.state = "Ready"])'
    BY <1>2, <2>3, <2>6 DEF Repeats, MirrorsSession, RepeatsPlay,
       ActiveProfileIsConfirmed, ActiveCharacterIsConfirmed
  <2>8. ReplayFollows'
    BY <1>2, <1>7, <1>13, <2>5, <2>7 DEF ReplayFollows
  <2> QED
    BY <1>8, <1>9, <1>10, <1>11, <2>8 DEF RunInvariant
<1> QED
  BY <1>2, <1>12, <1>13


\* A command that succeeded, in the mirror: the replay has yet to play the frame.
LEMMA FrameIsMirrored ==
    ASSUME RunTypes, InFrame, SessionIsStored, ~launch.active, replay \in Replays, Repeats(replay),
           NEW input, NEW o \in ApplyFrontEndCommand(Reduction(input).command), o.ok
    PROVE  LET r == SessionAfter(input)
               command == Reduction(input).command
           IN /\ ReplayReduction(input) = Reduction(input)
              /\ r \in Replays /\ MirrorsSession(r, o.app, o.stored)
              /\ command.type # "StartCampaign" => RepeatsPlay(r, play)
              /\ command.type = "StartCampaign" =>
                   /\ r.remainder = play.remainder /\ r.trigger = NotInside
                   /\ r.target = NotAcquired /\ r.mission = "Active"
<1> DEFINE command == Reduction(input).command
           m == Mirrored(command)
           r == SessionAfter(input)
<1>1. ReplayReduction(input) = Reduction(input)
  BY SameReductionInReplay DEF Repeats
<1>2. command \in Commands
  BY RunReduction DEF SoundAnswer, Reductions
<1>3. /\ m \in Replays /\ MirrorsSession(m, o.app, o.stored)
      /\ m.front_end = replay.front_end /\ RepeatsPlay(m, replay)
  BY <1>2, MirrorIsTrue DEF Repeats
<1>4. RepeatsPlay(m, play)
  BY <1>3 DEF RepeatsPlay, Repeats
<1>5. r = IF command.type = "StartCampaign"
          THEN [m EXCEPT !.mission = "Active", !.trigger = NotInside, !.target = NotAcquired]
          ELSE m
  BY <1>1 DEF SessionAfter, Deploys, MissionAfter
<1> HIDE DEF m, r, command
<1>6. CASE command.type = "StartCampaign"
  <2>1. r = [m EXCEPT !.mission = "Active", !.trigger = NotInside, !.target = NotAcquired]
    BY <1>5, <1>6
  <2>2. r \in Replays
    BY <1>3, <2>1, RulesType DEF Replays, Missions
  <2>3. /\ r.state = m.state /\ r.profiles = m.profiles /\ r.characters = m.characters
        /\ r.by_profile = m.by_profile /\ r.active_slot = m.active_slot
        /\ r.can_create_first_profile = m.can_create_first_profile
        /\ r.profile_confirmed = m.profile_confirmed
        /\ r.character_confirmed = m.character_confirmed
        /\ r.remainder = m.remainder /\ r.trigger = NotInside
        /\ r.target = NotAcquired /\ r.mission = "Active"
    BY <1>3, <2>1 DEF Replays
  <2>4. MirrorsSession(r, o.app, o.stored)
    BY <1>3, <2>3 DEF MirrorsSession
  <2>5. r.remainder = play.remainder
    BY <1>4, <2>3 DEF RepeatsPlay
  <2> QED
    BY <1>1, <1>6, <2>2, <2>3, <2>4, <2>5 DEF r, command
<1>7. CASE command.type # "StartCampaign"
  <2>1. r = m
    BY <1>5, <1>7
  <2> QED
    BY <1>1, <1>3, <1>4, <1>7, <2>1 DEF r, command
<1> QED
  BY <1>6, <1>7

\* The frame's time that is captured.
LEMMA TimeIsCaptured ==
    ASSUME RunTypes, FramesAreCounted, TracesAreInStep, loop.pc = "apply",
           NEW elapsed \in Elapsed, NEW taken, taken = CapturedTime(elapsed)
    PROVE  /\ taken # Refused
           /\ taken \in IF launch.start = "capture" THEN Captured ELSE {NoCapture}
           /\ Captures <=> taken # NoCapture
           /\ Captures =>
                /\ taken.maximum = capture.maximum /\ taken.phase = "AwaitInput"
                /\ taken.inputs = capture.inputs /\ taken.terminal = capture.terminal
                /\ taken.times.count = result.input_frames
                /\ taken.times.unread = <<elapsed>>
<1>1. ASSUME ~Captures
      PROVE  taken = NoCapture /\ launch.start # "capture" /\ taken # Refused
  <2>1. taken = NoCapture /\ launch.start # "capture"
    BY <1>1, WhoCaptures DEF CapturedTime
  <2>2. DOMAIN NoCapture = {"phase"} /\ DOMAIN Refused = {"refused"}
    BY DEF NoCapture, Refused
  <2> QED
    BY <2>1, <2>2
<1>2. ASSUME Captures
      PROVE  /\ taken \in Captured /\ taken # Refused /\ launch.start = "capture"
             /\ taken.phase = "AwaitInput" /\ taken.inputs = capture.inputs
             /\ taken.times.count = result.input_frames
             /\ taken.times.unread = <<elapsed>>
             /\ taken.terminal = capture.terminal /\ taken.maximum = capture.maximum
  <2>1. /\ capture \in Captured /\ capture.phase = "AwaitElapsedOrTerminal"
        /\ capture.maximum = FrameLimit /\ capture.pending = result.input_frames - 1
        /\ capture.times.count = result.input_frames - 1 /\ capture.times.unread = <<>>
        /\ launch.start = "capture"
    BY <1>2, WhoCaptures DEF TracesAreInStep
  <2>2. result.input_frames - 1 < FrameLimit /\ result.input_frames \in Nat
    <3>1. result.rendered_frames \in Nat /\ result.input_frames \in Nat
      BY DEF RunTypes, Results
    <3> QED
      BY <3>1, FrameLimitAssumption DEF FramesAreCounted
  <2>3. taken = AppendElapsed(capture, elapsed)
    BY <1>2 DEF CapturedTime
  <2>4. Append(<<>>, elapsed) = <<elapsed>>
    OBVIOUS
  <2>5. capture.pending < capture.maximum /\ capture.pending = capture.times.count
    BY <2>1, <2>2
  <2>6. /\ taken \in Captured /\ taken # Refused
        /\ taken.phase = "AwaitInput" /\ taken.inputs = capture.inputs
        /\ taken.times.count = capture.times.count + 1
        /\ taken.times.unread = Append(capture.times.unread, elapsed)
        /\ taken.terminal = capture.terminal /\ taken.maximum = capture.maximum
    BY <2>1, <2>3, <2>5, TimeIsTaken
  <2> QED
    BY <2>1, <2>2, <2>4, <2>6
<1>3. \A c \in Captured : c # NoCapture
  BY DEF Captured, NoCapture
<1> QED
  BY <1>1, <1>2, <1>3


\* ApplyCommand: the mirror of the command shows the session the command leaves.
LEMMA ApplyCommandKeeps ==
    ASSUME RunInvariant, ApplyCommand, UNCHANGED replay
    PROVE  RunInvariant'
<1>1. /\ RunTypes /\ SessionIsStored /\ PlayIsAuthorized /\ FramesAreCounted
      /\ TracesAreInStep /\ ReplayFollows
  BY DEF RunInvariant
<1>2. loop.pc = "apply" /\ InFrame /\ UNCHANGED <<result, replay>>
  BY DEF ApplyCommand, InFrame
<1>3. PICK input \in Inputs :
         loop = [pc |-> "apply", input |-> input, reduction |-> Reduction(input)]
  BY <1>1, <1>2 DEF RunTypes, LoopOK
<1> DEFINE command == Reduction(input).command
           front_end == Reduction(input).state
           was_playing == app.front_end.mode = "Gameplay"
<1>4. PICK elapsed \in Elapsed, o \in ApplyFrontEndCommand(command) :
         IF CapturedTime(elapsed) = Refused
         THEN Leave("capture") /\ UNCHANGED <<launch, stored, app, cards, play, capture>>
         ELSE /\ capture' = CapturedTime(elapsed)
              /\ stored' = o.stored /\ cards' = o.cards /\ play' = o.play
              /\ IF ~o.ok
                 THEN Leave("operational") /\ app' = o.app /\ UNCHANGED launch
                 ELSE /\ app' = [o.app EXCEPT !.front_end = front_end]
                      /\ launch' = [launch EXCEPT !.active = StillActive(front_end)]
                      /\ loop' = [pc |-> "simulate", input |-> input, elapsed |-> elapsed,
                                  was_playing |-> was_playing,
                                  aborted_now |-> /\ was_playing /\ o.play.mission = "Active"
                                                  /\ front_end.mode # "Gameplay"]
  BY <1>3 DEF ApplyCommand
<1>5. /\ CapturedTime(elapsed) # Refused
      /\ capture' \in IF launch.start = "capture" THEN Captured ELSE {NoCapture}
      /\ Captures' <=> Captures
      /\ Captures =>
           /\ capture'.maximum = capture.maximum /\ capture'.phase = "AwaitInput"
           /\ capture'.inputs = capture.inputs /\ capture'.terminal = capture.terminal
           /\ capture'.times.count = result.input_frames
           /\ capture'.times.unread = <<elapsed>>
  <2>1. CapturedTime(elapsed) # Refused
    BY <1>1, <1>2, TimeIsCaptured
  <2>2. capture' = CapturedTime(elapsed)
    BY <1>4, <2>1
  <2> QED
    BY <1>1, <1>2, <2>1, <2>2, TimeIsCaptured DEF Captures
<1>6. /\ stored' = o.stored /\ cards' = o.cards /\ play' = o.play
      /\ ~o.ok => /\ loop' = [pc |-> "leaving", failure |-> "operational"]
                  /\ app' = o.app /\ launch' = launch
      /\ o.ok => /\ app' = [o.app EXCEPT !.front_end = front_end]
                 /\ launch' = [launch EXCEPT !.active = StillActive(front_end)]
                 /\ loop' = [pc |-> "simulate", input |-> input, elapsed |-> elapsed,
                             was_playing |-> was_playing,
                             aborted_now |-> /\ was_playing /\ o.play.mission = "Active"
                                             /\ front_end.mode # "Gameplay"]
  BY <1>4, <1>5 DEF Leave
<1>7. /\ command \in Commands /\ front_end \in FrontEndStates
      /\ front_end.mode = "Gameplay" =>
           /\ (launch.active /\ was_playing) \/ ActiveCharacterIsConfirmed(app)
           /\ command.type = "StartCampaign" \/ (was_playing /\ command.type = "None")
      /\ command.type = "StartCampaign" => front_end.mode = "Gameplay" /\ ~was_playing
      /\ was_playing => command.type = "None"
  BY <1>1, RunReduction DEF SoundAnswer, Reductions
<1>8. /\ SoundOutcome(o)
      /\ command.type # "StartCampaign" => o.play = play
      /\ o.ok /\ command.type = "StartCampaign" =>
                /\ ActiveCharacterIsConfirmed(app)
                /\ play.mission # "Active" /\ o.play = Redeployed(play) /\ o.app = app
      /\ command.type = "None" => o.app = app
  BY <1>1, <1>2, <1>7, CommandIsSound DEF Unchanged
<1>9. /\ result.rendered_frames \in Nat /\ result.rendered_frames < FrameLimit /\ FrameLimit \in Nat
      /\ result.input_frames = result.rendered_frames + 1 /\ result.quit_requested = FALSE
      /\ result.unexecuted = 0
  BY <1>1, <1>2, FrameLimitAssumption DEF FramesAreCounted, RunTypes, Results, InFrame
<1>10. TracesAreInStep'
  <2> SUFFICES ASSUME Captures
               PROVE  TracesAreInStep'
    BY <1>5 DEF TracesAreInStep
  <2>1. /\ capture.maximum = FrameLimit /\ capture.inputs.count = result.input_frames
        /\ capture.inputs.unread = <<input>> /\ capture.terminal.marked = FALSE
    BY <1>1, <1>2, <1>3, <1>9, WhoCaptures DEF TracesAreInStep, Captured
  <2>2. \/ loop'.pc = "leaving"
        \/ loop'.pc = "simulate" /\ loop'.input = input /\ loop'.elapsed = elapsed
    BY <1>6 DEF SoundOutcome
  <2> QED
    BY <1>2, <1>5, <1>9, <2>1, <2>2 DEF TracesAreInStep
<1>11. CASE ~o.ok
  <2>1. loop'.pc = "leaving" /\ loop'.failure = "operational" /\ ~InFrame'
    BY <1>6, <1>11 DEF InFrame
  <2>2. RunTypes'
    BY <1>1, <1>2, <1>5, <1>6, <1>8, <1>11, <2>1 DEF RunTypes, LoopOK, SoundOutcome
  <2>3. SessionIsStored'
    BY <1>6, <1>8, <1>11, <2>1 DEF SessionIsStored, SoundOutcome, StoredSession,
       ActiveProfileIsConfirmed
  <2>4. PlayIsAuthorized' /\ FramesAreCounted'
    BY <1>2, <1>9, <2>1 DEF PlayIsAuthorized, FramesAreCounted
  <2>5. ReplayFollows'
    BY <1>1, <1>2, <2>1 DEF ReplayFollows
  <2> QED
    BY <1>10, <2>2, <2>3, <2>4, <2>5 DEF RunInvariant
<1>12. CASE o.ok
  <2>1. /\ loop'.pc = "simulate" /\ InFrame' /\ loop'.input = input /\ loop'.elapsed = elapsed
        /\ loop'.was_playing = was_playing
        /\ loop'.aborted_now <=> /\ was_playing /\ o.play.mission = "Active"
                                 /\ front_end.mode # "Gameplay"
    BY <1>6, <1>12 DEF InFrame
  <2>2. /\ app' \in Apps /\ app'.front_end = front_end
        /\ app'.profiles = o.app.profiles /\ app'.characters = o.app.characters
        /\ app'.card = o.app.card /\ app'.first_card = o.app.first_card
        /\ app'.can_create_first_profile = o.app.can_create_first_profile
        /\ app'.can_create_first_character = o.app.can_create_first_character
        /\ app'.active_profile = o.app.active_profile
        /\ app'.active_character = o.app.active_character
    <3>1. o.app \in Apps
      BY <1>8 DEF SoundOutcome
    <3>2. app' = [o.app EXCEPT !.front_end = front_end]
      BY <1>6, <1>12
    <3> HIDE DEF front_end
    <3> QED
      BY <1>7, <3>1, <3>2 DEF Apps
  <2>3. /\ ActiveProfileIsConfirmed(app') <=> ActiveProfileIsConfirmed(o.app)
        /\ ActiveCharacterIsConfirmed(app') <=> ActiveCharacterIsConfirmed(o.app)
    BY <2>2 DEF ActiveProfileIsConfirmed, ActiveCharacterIsConfirmed
  <2>4. /\ launch' \in [start : {"capture", "current", "diagnostic", "retail"}, active : BOOLEAN]
        /\ launch'.start = launch.start
        /\ launch'.active <=> launch.active /\ front_end.mode = "Gameplay"
    <3>1. launch \in [start : {"capture", "current", "diagnostic", "retail"}, active : BOOLEAN]
      BY <1>1 DEF RunTypes
    <3>2. StillActive(front_end) \in BOOLEAN
          /\ (StillActive(front_end) <=> launch.active /\ front_end.mode = "Gameplay")
      BY <3>1 DEF StillActive
    <3>3. launch' = [launch EXCEPT !.active = StillActive(front_end)]
      BY <1>6, <1>12
    <3> HIDE DEF front_end
    <3> QED
      BY <3>1, <3>2, <3>3
  <2>5. play' \in Plays
    <3>1. play \in Plays
      BY <1>1, <1>2 DEF RunTypes
    <3> QED
      BY <1>6, <1>8, <1>12, <3>1, RedeployedType
  <2>6. RunTypes'
    <3>1. loop' \in [pc : {"simulate"}, input : Inputs, elapsed : Elapsed,
                     was_playing : BOOLEAN, aborted_now : BOOLEAN]
      <4> DEFINE aborted == /\ was_playing /\ o.play.mission = "Active"
                            /\ front_end.mode # "Gameplay"
      <4>1. was_playing \in BOOLEAN /\ aborted \in BOOLEAN
        OBVIOUS
      <4>2. loop' = [pc |-> "simulate", input |-> input, elapsed |-> elapsed,
                     was_playing |-> was_playing, aborted_now |-> aborted]
        BY <1>6, <1>12
      <4> HIDE DEF aborted, was_playing, front_end
      <4> QED
        BY <4>1, <4>2
    <3>2. LoopOK'
      BY <2>1, <3>1 DEF LoopOK
    <3> QED
      BY <1>1, <1>2, <1>5, <1>6, <1>8, <2>2, <2>4, <2>5, <3>2 DEF RunTypes, SoundOutcome
  <2>7. SessionIsStored'
    <3>1. StoredSession(o.app, o.stored, o.cards, TRUE)
      BY <1>8, <1>12 DEF SoundOutcome
    <3> QED
      BY <1>6, <2>1, <2>2, <2>3, <3>1 DEF SessionIsStored, StoredSession
  <2>8. PlayIsAuthorized'
    <3>1. /\ play.mission = "Active" => was_playing
          /\ was_playing => play.mission = "Active"
          /\ launch.active => launch.start = "diagnostic" /\ was_playing
      BY <1>1, <1>2 DEF PlayIsAuthorized
    <3>2. o.play.mission = "Active" <=> was_playing \/ command.type = "StartCampaign"
      <4>1. CASE command.type = "StartCampaign"
        <5>1. Redeployed(play).mission = "Active"
          BY <1>1, <1>2, RedeployedType DEF RunTypes
        <5> QED
          BY <1>8, <1>12, <4>1, <5>1
      <4>2. CASE command.type # "StartCampaign"
        BY <1>8, <3>1, <4>2
      <4> QED
        BY <4>1, <4>2
    <3>3. front_end.mode = "Gameplay" => launch'.active \/ ActiveCharacterIsConfirmed(app')
      BY <1>7, <1>8, <1>12, <2>3, <2>4
    <3>4. loop'.aborted_now <=> play'.mission = "Active" /\ app'.front_end.mode # "Gameplay"
      BY <1>6, <1>7, <2>1, <2>2, <3>2
    <3>5. app'.front_end.mode = "Gameplay" => play'.mission = "Active"
      BY <1>6, <1>7, <2>2, <3>2
    <3> HIDE DEF front_end, was_playing, command
    <3> QED
      BY <2>1, <2>2, <2>4, <3>1, <3>3, <3>4, <3>5
         DEF PlayIsAuthorized, ActiveCharacterIsConfirmed, ActiveProfileIsConfirmed
  <2>9. FramesAreCounted'
    BY <1>2, <1>9, <2>1 DEF FramesAreCounted, InFrame
  <2>10. ReplayFollows'
    <3>1. replay' \in Replays /\ replay'.state # "Failed"
      BY <1>1, <1>2 DEF ReplayFollows
    <3> SUFFICES ASSUME Captures
                 PROVE  replay'.state = "Ready" /\ IsApplied(loop.input)'
      BY <1>5, <2>1, <3>1 DEF ReplayFollows
    <3>2. ~launch.active /\ replay \in Replays /\ Repeats(replay)
      BY <1>1, <1>2, WhoCaptures DEF PlayIsAuthorized, ReplayFollows
    <3> DEFINE r == SessionAfter(input)
    <3>3. /\ ReplayReduction(input) = Reduction(input)
          /\ r \in Replays /\ MirrorsSession(r, o.app, o.stored)
          /\ command.type # "StartCampaign" => RepeatsPlay(r, play)
          /\ command.type = "StartCampaign" =>
                   /\ r.remainder = play.remainder /\ r.trigger = NotInside
                   /\ r.target = NotAcquired /\ r.mission = "Active"
      BY <1>1, <1>2, <1>12, <3>2, FrameIsMirrored
    <3>4. Deploys(input) <=> command.type = "StartCampaign"
      BY <3>3 DEF Deploys
    <3>5. /\ replay.state = "Ready" /\ replay.front_end = app.front_end
          /\ replay.mission = play.mission /\ replay.trigger = play.trigger
      BY <3>2 DEF Repeats, MirrorsSession, RepeatsPlay
    <3>6. MirrorsSession(r, app', stored')
      BY <1>6, <2>2, <2>3, <3>3 DEF MirrorsSession
    <3>7. /\ r.remainder = play'.remainder /\ r.trigger = play'.trigger
          /\ r.target = play'.target /\ r.mission = play'.mission
          /\ ~Deploys(input) => r.position = play'.position
          /\ Deploys(input) => play'.position = Origin /\ ~MissionRejects(replay.mission, "Deploy")
      <4>1. CASE Deploys(input)
        <5>1. play \in Plays
          BY <1>1, <1>2 DEF RunTypes
        <5>2. play' = Redeployed(play) /\ play.mission # "Active"
          BY <1>6, <1>8, <1>12, <3>4, <4>1
        <5>3. ~MissionRejects(replay.mission, "Deploy")
          BY <3>5, <5>2 DEF MissionRejects
        <5> HIDE DEF r
        <5> QED
          BY <3>3, <3>4, <4>1, <5>1, <5>2, <5>3, RedeployedType
      <4>2. CASE ~Deploys(input)
        <5> HIDE DEF r
        <5> QED
          BY <1>6, <1>8, <3>3, <3>4, <4>2 DEF RepeatsPlay
      <4> QED
        BY <4>1, <4>2
    <3>8. /\ loop'.was_playing <=> replay.front_end.mode = "Gameplay"
          /\ loop'.was_playing => ~Deploys(input) /\ replay.trigger = play'.trigger
          /\ loop'.aborted_now <=>
               /\ loop'.was_playing /\ replay.mission = "Active"
               /\ app'.front_end.mode # "Gameplay"
      BY <1>6, <1>7, <1>8, <2>1, <2>2, <3>4, <3>5
    <3>9. /\ ReplayReduction(input)' = ReplayReduction(input) /\ Deploys(input)' = Deploys(input)
          /\ SessionAfter(input)' = SessionAfter(input)
      BY <1>2, ReplayedStays
    <3>10. IsApplied(input)'
      <4>1. (ReplayReduction(input).state = app.front_end)'
        BY <2>2, <3>3, <3>9
      <4> HIDE DEF r, front_end, was_playing, command
      <4> QED
        BY <1>2, <3>3, <3>6, <3>7, <3>8, <3>9, <4>1 DEF IsApplied, r, MirrorsSession,
           ActiveProfileIsConfirmed, ActiveCharacterIsConfirmed
    <3> QED
      BY <1>2, <2>1, <3>5, <3>10
  <2> QED
    BY <1>10, <2>6, <2>7, <2>8, <2>9, <2>10 DEF RunInvariant
<1> QED
  BY <1>8, <1>11, <1>12 DEF SoundOutcome

\* What a frame of play computes from any play: a plan, at most the planned steps, and, if
\* all were taken, a representable position.  A frame that is not allowed to play takes no
\* step, and only one that was playing before can complete the target.
LEMMA FrameIsPlayed ==
    ASSUME NEW before, before.remainder \in Remainders, before.position \in Positions,
           before.target \in Targets, NEW input \in Inputs, NEW elapsed \in Elapsed,
           NEW allowed \in BOOLEAN, NEW was_playing \in BOOLEAN, NEW objective_complete,
           NEW frame,
           frame = PlayedFrame(before, input, elapsed, allowed, was_playing, objective_complete)
    PROVE  /\ frame.plan = BeginFrame(before.remainder, IF allowed THEN elapsed ELSE 0)
           /\ frame.plan \in Plans
           /\ frame.steps \in 0..frame.plan.steps
           /\ frame.path \in [1..frame.plan.steps -> Int \X Int]
           /\ \A k \in 1..frame.steps : frame.path[k] \in Positions
           /\ frame.target \in Targets
           /\ frame.target.target_complete /\ ~before.target.target_complete =>
                allowed /\ was_playing
           /\ ~allowed => frame.plan.steps = 0 /\ frame.plan.remainder = before.remainder
           /\ ~was_playing => /\ frame.steps = frame.plan.steps
                              /\ \A k \in 1..frame.plan.steps : frame.path[k] = before.position
<1> DEFINE delta == IF allowed /\ was_playing THEN PlanDebugLocomotionStep(input.held) ELSE <<0, 0>>
           enabled == allowed /\ was_playing /\ objective_complete
           held == "target" \in input.held
           fire == "fire" \in input.pressed
           plan == BeginFrame(before.remainder, IF allowed THEN elapsed ELSE 0)
<1>1. /\ frame.plan = plan
      /\ frame.steps = Executed(before.position, delta, plan.steps)
      /\ frame.path = [k \in 1..plan.steps |-> At(before.position, delta, k)]
      /\ frame.target = AdvanceTargetFire(before.target, enabled, input.pointer, held, fire)
  BY DEF PlayedFrame
<1>2. 0 \in Int /\ elapsed \in Int
  BY RunAssumption
<1>3. plan \in Plans /\ plan.steps \in Nat
  BY <1>2, FrameIsPlanned DEF Plans
<1>4. ~allowed => plan.steps = 0 /\ plan.remainder = before.remainder
  BY NoTimeNoStep
<1>5. before.position \in Int \X Int /\ delta \in Int \X Int
  BY DEF Positions, PlanDebugLocomotionStep, Axis
<1> HIDE DEF plan
<1>6. frame.steps \in 0..plan.steps
  BY <1>1, <1>3, StepsTaken
<1>7. \A k \in 1..plan.steps : At(before.position, delta, k) \in Int \X Int
  BY <1>3, <1>5 DEF At
<1>8. \A k \in 1..frame.steps : frame.path[k] \in Positions
  <2>1. \A k \in 1..frame.steps : IsRepresentable(At(before.position, delta, k))
    BY <1>1, <1>3, StepsTaken
  <2>2. \A k \in 1..frame.steps : k \in 1..plan.steps
    BY <1>3, <1>6
  <2> QED
    BY <1>1, <1>7, <2>1, <2>2 DEF Positions
<1>9. frame.target \in Targets
      /\ (frame.target.target_complete /\ ~before.target.target_complete =>
            allowed /\ was_playing)
  <2>1. held \in BOOLEAN /\ fire \in BOOLEAN
    OBVIOUS
  <2>2. frame.target \in Targets
    <3> HIDE DEF enabled, held, fire
    <3> QED
      BY <1>1, <2>1, RulesType
  <2>3. ~enabled => frame.target = [before.target EXCEPT !.acquired = FALSE]
    BY <1>1 DEF AdvanceTargetFire
  <2>4. ~enabled => frame.target.target_complete = before.target.target_complete
    BY <2>3 DEF Targets
  <2>5. enabled => allowed /\ was_playing
    OBVIOUS
  <2> HIDE DEF enabled
  <2>6. CASE enabled
    BY <2>2, <2>5, <2>6
  <2>7. CASE ~enabled
    <3>1. frame.target.target_complete <=> before.target.target_complete
      BY <2>4, <2>7
    <3> QED
      BY <2>2, <3>1
  <2> QED
    BY <2>6, <2>7
<1>10. ASSUME ~was_playing
       PROVE  /\ frame.steps = plan.steps
              /\ \A k \in 1..plan.steps : frame.path[k] = before.position
  <2>1. delta = <<0, 0>>
    BY <1>10
  <2> QED
    BY <1>1, <1>3, <2>1, StandingStill
<1>11. frame.path \in [1..plan.steps -> Int \X Int]
  BY <1>1, <1>7
<1> HIDE DEF delta, enabled, held, fire
<1> QED
  BY <1>1, <1>3, <1>4, <1>6, <1>8, <1>9, <1>10, <1>11 DEF plan

\* The frame the run plays in Simulate, and the event it reports.
MayPlay == SimulationIsAllowed(app, launch.active)
Frame == PlayedFrame(play, loop.input, loop.elapsed, MayPlay, loop.was_playing,
                     play.trigger.objective_complete)
Event == MissionEvent(play.mission, loop.aborted_now, play.target, Frame.target)

\* A frame is played exactly if the menu shows play, its event is one the mission accepts,
\* and only a frame of play completes the mission.
LEMMA FrameIsSimulated ==
    ASSUME RunTypes, PlayIsAuthorized, loop.pc = "simulate"
    PROVE  /\ loop.input \in Inputs /\ loop.elapsed \in Elapsed
           /\ loop.was_playing \in BOOLEAN /\ loop.aborted_now \in BOOLEAN
           /\ MayPlay \in BOOLEAN /\ (MayPlay <=> app.front_end.mode = "Gameplay")
           /\ Frame.plan \in Plans /\ Frame.steps \in 0..Frame.plan.steps
           /\ \A k \in 1..Frame.steps : Frame.path[k] \in Positions
           /\ Frame.target \in Targets
           /\ ~MayPlay => Frame.plan.steps = 0 /\ Frame.plan.remainder = play.remainder
           /\ Event \in {"None", "Complete", "Abort"}
           /\ ~MissionRejects(play.mission, Event)
           /\ Event = "Complete" => app.front_end.mode = "Gameplay"
           /\ Event = "Abort" <=> loop.aborted_now
<1>1. play \in Plays /\ app \in Apps /\ launch.active \in BOOLEAN
      /\ loop.input \in Inputs /\ loop.elapsed \in Elapsed
      /\ loop.was_playing \in BOOLEAN /\ loop.aborted_now \in BOOLEAN
  BY DEF RunTypes, InFrame, LoopOK
<1>2. /\ play.remainder \in Remainders /\ play.position \in Positions
      /\ play.target \in Targets /\ play.mission \in Missions
      /\ app.front_end \in FrontEndStates
  BY <1>1 DEF Plays, Apps
<1>3. MayPlay \in BOOLEAN
  BY DEF MayPlay, SimulationIsAllowed, AllowsSimulation, IsValidFrontEndState
<1>4. MayPlay <=> app.front_end.mode = "Gameplay"
  <2>1. IsValidFrontEndState(app.front_end)
    BY <1>2, ModeRows
  <2>2. MayPlay <=> /\ IsValidFrontEndState(app.front_end) /\ app.front_end.mode = "Gameplay"
                    /\ \/ launch.active /\ app.front_end.mode = "Gameplay"
                       \/ ActiveCharacterIsConfirmed(app)
    BY <1>1, SessionOffers DEF MayPlay
  <2>3. app.front_end.mode = "Gameplay" => launch.active \/ ActiveCharacterIsConfirmed(app)
    BY DEF PlayIsAuthorized, InFrame
  <2> QED
    BY <2>1, <2>2, <2>3
<1>5. /\ Frame.plan \in Plans /\ Frame.steps \in 0..Frame.plan.steps
      /\ \A k \in 1..Frame.steps : Frame.path[k] \in Positions
      /\ Frame.target \in Targets
      /\ Frame.target.target_complete /\ ~play.target.target_complete =>
           MayPlay /\ loop.was_playing
      /\ ~MayPlay => Frame.plan.steps = 0 /\ Frame.plan.remainder = play.remainder
  BY <1>1, <1>2, <1>3, FrameIsPlayed DEF Frame
<1>6. loop.aborted_now => play.mission = "Active"
  BY DEF PlayIsAuthorized, InFrame
<1>7. /\ Event \in {"None", "Complete", "Abort"} /\ ~MissionRejects(play.mission, Event)
      /\ Event = "Complete" => app.front_end.mode = "Gameplay"
      /\ Event = "Abort" <=> loop.aborted_now
  BY <1>1, <1>4, <1>5, <1>6 DEF Event, MissionEvent, MissionRejects
<1> QED
  BY <1>1, <1>3, <1>4, <1>5, <1>7

\* What Simulate leaves: the run ends on a step that cannot be represented, or all of the
\* planned steps are taken.
LEMMA SimulateTakesTheSteps ==
    ASSUME RunTypes, PlayIsAuthorized, Simulate
    PROVE  /\ UNCHANGED <<stored, cards, capture>>
           /\ result' = [result EXCEPT
                !.unexecuted = @ + Frame.plan.steps - Frame.steps,
                !.clamped_frames = @ + (IF Frame.plan.clamped THEN 1 ELSE 0),
                !.dropped_frames = @ + (IF Frame.plan.dropped THEN 1 ELSE 0)]
           /\ \/ /\ Frame.steps < Frame.plan.steps
                 /\ loop' = [pc |-> "leaving", failure |-> "operational"]
                 /\ UNCHANGED <<launch, app>>
              \/ /\ Frame.steps = Frame.plan.steps
                 /\ play' = [play EXCEPT
                      !.remainder = Frame.plan.remainder,
                      !.position = IF Frame.steps = 0 THEN @ ELSE Frame.path[Frame.steps],
                      !.trigger = IF MayPlay
                                  THEN AdvanceProximityTrigger(@, Frame.path, Frame.plan.steps)
                                  ELSE @,
                      !.target = Frame.target, !.mission = MissionAfter(@, Event)]
                 /\ app' = IF Event = "Complete"
                           THEN [app EXCEPT !.front_end = ReturnToBriefing(@,
                                    CurrentFrontEndCapabilities(app, launch.active))]
                           ELSE app
                 /\ launch' = [launch EXCEPT !.active = StillActive(app'.front_end)]
                 /\ loop' = [pc |-> "render", plan |-> Frame.plan]
<1>1. loop.pc = "simulate"
  BY DEF Simulate
<1>2. Frame.plan \in Plans /\ Frame.steps \in 0..Frame.plan.steps
      /\ ~MissionRejects(play.mission, Event)
  BY <1>1, FrameIsSimulated
<1>3. Frame.plan.steps \in Nat
  BY <1>2 DEF Plans
<1>4. ~(Frame.steps < Frame.plan.steps) => Frame.steps = Frame.plan.steps
  BY <1>2, <1>3
<1>5. play \in Plays
  BY <1>1 DEF RunTypes, InFrame
<1> DEFINE moved == [play EXCEPT !.remainder = Frame.plan.remainder,
                       !.position = IF Frame.steps = 0 THEN @ ELSE Frame.path[Frame.steps]]
<1>6. /\ UNCHANGED <<stored, cards, capture>>
      /\ result' = [result EXCEPT
           !.unexecuted = @ + Frame.plan.steps - Frame.steps,
           !.clamped_frames = @ + (IF Frame.plan.clamped THEN 1 ELSE 0),
           !.dropped_frames = @ + (IF Frame.plan.dropped THEN 1 ELSE 0)]
  BY DEF Simulate, Frame, MayPlay
<1>7. IF Frame.steps < Frame.plan.steps \/ MissionRejects(play.mission, Event)
      THEN Leave("operational") /\ play' = moved /\ UNCHANGED <<launch, app>>
      ELSE /\ play' = [moved EXCEPT
                !.trigger = IF MayPlay
                            THEN AdvanceProximityTrigger(@, Frame.path, Frame.plan.steps) ELSE @,
                !.target = Frame.target,
                !.mission = MissionAfter(@, Event)]
           /\ app' = IF Event = "Complete" THEN [app EXCEPT !.front_end =
                         ReturnToBriefing(@, CurrentFrontEndCapabilities(app, launch.active))]
                     ELSE app
           /\ launch' = [launch EXCEPT !.active = StillActive(app'.front_end)]
           /\ loop' = [pc |-> "render", plan |-> Frame.plan]
  BY DEF Simulate, Frame, MayPlay, Event
<1> QED
  BY <1>2, <1>4, <1>5, <1>6, <1>7 DEF Leave, Plays

\* The run's own part of the invariant after a frame of play.
LEMMA SimulateKeepsTheRun ==
    ASSUME RunInvariant, Simulate
    PROVE  /\ RunTypes' /\ SessionIsStored' /\ PlayIsAuthorized' /\ FramesAreCounted'
           /\ TracesAreInStep'
<1>1. RunTypes /\ SessionIsStored /\ PlayIsAuthorized /\ FramesAreCounted /\ TracesAreInStep
  BY DEF RunInvariant
<1>2. loop.pc = "simulate" /\ InFrame
  BY DEF Simulate, InFrame
<1>3. /\ Frame.plan \in Plans /\ Frame.steps \in 0..Frame.plan.steps
      /\ \A k \in 1..Frame.steps : Frame.path[k] \in Positions
      /\ Frame.target \in Targets
      /\ Event \in {"None", "Complete", "Abort"} /\ ~MissionRejects(play.mission, Event)
      /\ Event = "Complete" => app.front_end.mode = "Gameplay"
      /\ Event = "Abort" <=> loop.aborted_now
  BY <1>1, <1>2, FrameIsSimulated
<1>4. /\ UNCHANGED <<stored, cards, capture>>
      /\ result' = [result EXCEPT
           !.unexecuted = @ + Frame.plan.steps - Frame.steps,
           !.clamped_frames = @ + (IF Frame.plan.clamped THEN 1 ELSE 0),
           !.dropped_frames = @ + (IF Frame.plan.dropped THEN 1 ELSE 0)]
  BY <1>1, SimulateTakesTheSteps
<1>5. /\ result \in Results /\ Frame.plan.steps \in Nat /\ Frame.steps \in Nat
      /\ Frame.steps <= Frame.plan.steps
      /\ Frame.plan.clamped \in BOOLEAN /\ Frame.plan.dropped \in BOOLEAN
  BY <1>1, <1>3 DEF RunTypes, Plans
<1>6. /\ result' \in Results
      /\ result'.input_frames = result.input_frames
      /\ result'.rendered_frames = result.rendered_frames
      /\ result'.quit_requested = result.quit_requested
      /\ result'.unexecuted = result.unexecuted + Frame.plan.steps - Frame.steps
  <2> DEFINE u == result.unexecuted + Frame.plan.steps - Frame.steps
             c == result.clamped_frames + (IF Frame.plan.clamped THEN 1 ELSE 0)
             d == result.dropped_frames + (IF Frame.plan.dropped THEN 1 ELSE 0)
  <2>1. u \in Nat
    BY <1>5 DEF Results
  <2>2. c \in Nat
    BY <1>5 DEF Results
  <2>3. d \in Nat
    BY <1>5 DEF Results
  <2>4. result' = [result EXCEPT !.unexecuted = u, !.clamped_frames = c, !.dropped_frames = d]
    BY <1>4, <1>5 DEF Results
  <2>5. result'.unexecuted = u
    <3> HIDE DEF u, c, d
    <3> QED
      BY <1>5, <2>1, <2>4 DEF Results
  <2>6. /\ result' \in Results
        /\ result'.input_frames = result.input_frames
        /\ result'.rendered_frames = result.rendered_frames
        /\ result'.quit_requested = result.quit_requested
    <3> HIDE DEF u, c, d
    <3> QED
      BY <1>5, <2>1, <2>2, <2>3, <2>4 DEF Results
  <2> QED
    BY <2>5, <2>6
<1>7. \/ loop'.pc = "leaving" /\ loop'.failure = "operational" /\ ~InFrame'
         /\ loop' = [pc |-> "leaving", failure |-> "operational"]
         /\ UNCHANGED <<launch, app>>
      \/ loop'.pc = "render" /\ loop'.plan = Frame.plan /\ InFrame'
         /\ loop' = [pc |-> "render", plan |-> Frame.plan]
  BY <1>1, SimulateTakesTheSteps DEF InFrame
<1>8. FramesAreCounted'
  <2>1. /\ result.rendered_frames \in Nat /\ result.rendered_frames < FrameLimit
        /\ result.input_frames = result.rendered_frames + 1
        /\ result.quit_requested = FALSE /\ result.unexecuted = 0
    BY <1>1, <1>2, <1>5 DEF FramesAreCounted, Results
  <2>2. loop'.pc = "render" => result'.unexecuted = 0
    <3>1. loop'.pc = "render" => Frame.steps = Frame.plan.steps
      BY <1>1, SimulateTakesTheSteps
    <3> QED
      BY <1>5, <1>6, <2>1, <3>1
  <2> QED
    BY <1>6, <1>7, <2>1, <2>2, FrameLimitAssumption DEF FramesAreCounted
<1>9. TracesAreInStep'
  <2>1. /\ (Captures' <=> Captures) /\ result'.input_frames = result.input_frames
        /\ result'.quit_requested = result.quit_requested
    BY <1>4, <1>6 DEF Captures
  <2>2. Captures => /\ Len(<<loop.input>>) = 1 /\ Len(<<loop.elapsed>>) = 1
                    /\ capture'.inputs.unread = <<loop.input>>
                    /\ capture'.times.unread = <<loop.elapsed>>
    BY <1>1, <1>2, <1>4 DEF TracesAreInStep
  <2> QED
    BY <1>1, <1>2, <1>4, <1>7, <2>1, <2>2 DEF TracesAreInStep
<1>10. CASE loop'.pc = "leaving"
  <2>1. RunTypes'
    BY <1>1, <1>4, <1>6, <1>7, <1>10 DEF RunTypes, LoopOK
  <2>2. SessionIsStored'
    BY <1>1, <1>4, <1>2, <1>7, <1>10, SessionStays
  <2>3. PlayIsAuthorized'
    BY <1>7, <1>10 DEF PlayIsAuthorized
  <2> QED
    BY <1>8, <1>9, <2>1, <2>2, <2>3
<1>11. CASE loop'.pc = "render"
  <2>1. /\ InFrame' /\ loop' = [pc |-> "render", plan |-> Frame.plan]
        /\ Frame.steps = Frame.plan.steps
        /\ play' = [play EXCEPT
              !.remainder = Frame.plan.remainder,
              !.position = IF Frame.steps = 0 THEN @ ELSE Frame.path[Frame.steps],
              !.trigger = IF MayPlay
                          THEN AdvanceProximityTrigger(@, Frame.path, Frame.plan.steps) ELSE @,
              !.target = Frame.target, !.mission = MissionAfter(@, Event)]
        /\ app' = IF Event = "Complete"
                  THEN [app EXCEPT !.front_end = ReturnToBriefing(@,
                           CurrentFrontEndCapabilities(app, launch.active))]
                  ELSE app
        /\ launch' = [launch EXCEPT !.active = StillActive(app'.front_end)]
    BY <1>1, <1>7, <1>11, SimulateTakesTheSteps
  <2>2. play \in Plays /\ app \in Apps /\ app.front_end \in FrontEndStates
    BY <1>1, <1>2 DEF RunTypes, Apps
  <2>3. play' \in Plays /\ play'.mission = MissionAfter(play.mission, Event)
    <3> DEFINE position == IF Frame.steps = 0 THEN play.position ELSE Frame.path[Frame.steps]
               trigger == IF MayPlay
                          THEN AdvanceProximityTrigger(play.trigger, Frame.path, Frame.plan.steps)
                          ELSE play.trigger
               mission == MissionAfter(play.mission, Event)
    <3>1. position \in Positions
      <4>1. Frame.steps # 0 => Frame.steps \in 1..Frame.steps
        BY <1>5
      <4> QED
        BY <1>3, <2>2, <4>1 DEF Plays
    <3>2. trigger \in Triggers
      BY <2>2, RulesType DEF Plays
    <3>3. mission \in Missions
      BY <1>3, <2>2, RulesType DEF Plays
    <3>4. play' = [play EXCEPT !.remainder = Frame.plan.remainder, !.position = position,
                               !.trigger = trigger, !.target = Frame.target, !.mission = mission]
      BY <2>1, <2>2 DEF Plays
    <3>5. Frame.plan.remainder \in Remainders
      BY <1>3 DEF Plans
    <3> HIDE DEF position, trigger, mission
    <3>6. play' \in Plays /\ play'.mission = mission
      BY <1>3, <2>2, <3>1, <3>2, <3>3, <3>4, <3>5 DEF Plays
    <3> QED
      BY <3>6 DEF mission
  <2>4. /\ app' \in Apps
        /\ Event # "Complete" => app' = app
        /\ Event = "Complete" => app'.front_end.mode # "Gameplay"
        /\ app'.profiles = app.profiles /\ app'.characters = app.characters
        /\ app'.card = app.card /\ app'.first_card = app.first_card
        /\ app'.can_create_first_profile = app.can_create_first_profile
        /\ app'.can_create_first_character = app.can_create_first_character
        /\ app'.active_profile = app.active_profile
        /\ app'.active_character = app.active_character
    <3>1. CASE Event # "Complete"
      BY <2>1, <2>2, <3>1
    <3>2. CASE Event = "Complete"
      <4> DEFINE s == ReturnToBriefing(app.front_end,
                                       CurrentFrontEndCapabilities(app, launch.active))
      <4>1. s \in FrontEndStates /\ s.mode # "Gameplay"
        BY <1>3, <2>2, <3>2, LeavingPlay
      <4>2. app' = [app EXCEPT !.front_end = s]
        BY <2>1, <2>2, <3>2 DEF Apps
      <4> HIDE DEF s
      <4> QED
        BY <2>2, <3>2, <4>1, <4>2 DEF Apps
    <3> QED
      BY <3>1, <3>2
  <2>5. /\ launch' \in [start : {"capture", "current", "diagnostic", "retail"}, active : BOOLEAN]
        /\ launch'.start = launch.start
        /\ launch'.active <=> launch.active /\ app'.front_end.mode = "Gameplay"
    <3> DEFINE active == StillActive(app'.front_end)
    <3>1. launch \in [start : {"capture", "current", "diagnostic", "retail"}, active : BOOLEAN]
      BY <1>1 DEF RunTypes
    <3>2. active \in BOOLEAN /\ (active <=> launch.active /\ app'.front_end.mode = "Gameplay")
      BY <3>1 DEF StillActive
    <3>3. launch' = [launch EXCEPT !.active = active]
      BY <2>1
    <3> HIDE DEF active
    <3> QED
      BY <3>1, <3>2, <3>3
  <2>6. RunTypes'
    <3>1. LoopOK'
      BY <1>3, <2>1 DEF LoopOK
    <3> QED
      BY <1>1, <1>4, <1>6, <2>3, <2>4, <2>5, <3>1 DEF RunTypes
  <2>7. /\ ActiveProfileIsConfirmed(app') <=> ActiveProfileIsConfirmed(app)
        /\ ActiveCharacterIsConfirmed(app') <=> ActiveCharacterIsConfirmed(app)
    BY <2>4 DEF ActiveProfileIsConfirmed, ActiveCharacterIsConfirmed
  <2>8. SessionIsStored'
    BY <1>1, <1>2, <1>4, <2>1, <2>4, <2>7 DEF SessionIsStored, StoredSession
  <2>9. PlayIsAuthorized'
    <3>1. /\ app.front_end.mode = "Gameplay" =>
               play.mission = "Active" /\ (launch.active \/ ActiveCharacterIsConfirmed(app))
          /\ play.mission = "Active" => app.front_end.mode = "Gameplay" \/ loop.aborted_now
          /\ launch.active => launch.start = "diagnostic" /\ app.front_end.mode = "Gameplay"
          /\ loop.aborted_now <=> play.mission = "Active" /\ app.front_end.mode # "Gameplay"
      BY <1>1, <1>2 DEF PlayIsAuthorized
    <3>2. /\ app'.front_end.mode = "Gameplay" =>
               app' = app /\ Event = "None" /\ play'.mission = "Active"
      BY <1>3, <2>3, <2>4, <3>1 DEF MissionAfter
    <3>3. play'.mission = "Active" => app'.front_end.mode = "Gameplay"
      BY <1>3, <2>3, <2>4, <3>1 DEF MissionAfter
    <3>4. app'.front_end.mode = "Gameplay" => launch'.active \/ ActiveCharacterIsConfirmed(app)'
      BY <2>4, <2>5, <2>7, <3>1, <3>2
         DEF ActiveCharacterIsConfirmed, ActiveProfileIsConfirmed
    <3> QED
      BY <1>11, <2>5, <3>1, <3>2, <3>3, <3>4 DEF PlayIsAuthorized
  <2> QED
    BY <1>8, <1>9, <2>6, <2>8, <2>9
<1> QED
  BY <1>7, <1>10, <1>11

\* The replay plays the frame the run plays: the mirror lets it, the scheduler and the
\* target are the same, and so is every place the run comes through.  The actor of a
\* mission deployed in this frame stands still, wherever the replay still has it.
LEMMA SameFrameInReplay ==
    ASSUME RunInvariant, loop.pc = "simulate", Captures, NEW again,
           again = FrameAgain(loop.input, loop.elapsed)
    PROVE  /\ again.plan = Frame.plan /\ again.steps = Frame.steps
           /\ again.target = Frame.target
           /\ DOMAIN again.path = 1..Frame.plan.steps
           /\ ~Deploys(loop.input) => again.path = Frame.path
           /\ Deploys(loop.input) =>
                /\ Frame.steps = Frame.plan.steps
                /\ Frame.path = [k \in 1..Frame.plan.steps |-> Origin]
<1> DEFINE session == SessionAfter(loop.input)
           allowed == AllowsSimulation(ReplayReduction(loop.input).state, ReplayCapabilities,
                                       session.profile_confirmed, session.character_confirmed)
           was_playing == replay.front_end.mode = "Gameplay"
           complete == replay.trigger.objective_complete
<1>1. /\ RunTypes /\ PlayIsAuthorized /\ replay \in Replays /\ IsApplied(loop.input)
      /\ replay.state = "Ready" /\ ~launch.active
  BY WhoCaptures DEF RunInvariant, ReplayFollows, PlayIsAuthorized, InFrame
<1>2. /\ session \in Replays /\ ReplayReduction(loop.input).state = app.front_end
      /\ MirrorsSession(session, app, stored)
      /\ session.remainder = play.remainder /\ session.trigger = play.trigger
      /\ session.target = play.target /\ session.mission = play.mission
      /\ Deploys(loop.input) => play.position = Origin
      /\ ~Deploys(loop.input) => session.position = play.position
      /\ loop.was_playing <=> was_playing
      /\ loop.was_playing => ~Deploys(loop.input) /\ replay.trigger = play.trigger
  BY <1>1 DEF IsApplied
<1>3. /\ loop.input \in Inputs /\ loop.elapsed \in Elapsed /\ loop.was_playing \in BOOLEAN
      /\ MayPlay \in BOOLEAN /\ (MayPlay <=> app.front_end.mode = "Gameplay")
      /\ play \in Plays /\ app \in Apps /\ app.front_end \in FrontEndStates
  BY <1>1, FrameIsSimulated DEF RunTypes, InFrame, Apps
<1>4. allowed \in BOOLEAN /\ was_playing \in BOOLEAN
  BY DEF AllowsSimulation, IsValidFrontEndState
<1>5. allowed <=> MayPlay
  <2>1. IsValidFrontEndState(app.front_end)
    BY <1>3, ModeRows
  <2>2. AllowsGameplay(ReplayCapabilities, session.profile_confirmed, session.character_confirmed)
          <=> ActiveCharacterIsConfirmed(app)
    BY <1>2 DEF AllowsGameplay, SatisfiesGameplayGate, ReplayCapabilities, MirrorsSession,
       ActiveCharacterIsConfirmed
  <2>3. app.front_end.mode = "Gameplay" => ActiveCharacterIsConfirmed(app)
    BY <1>1 DEF PlayIsAuthorized, InFrame
  <2>4. allowed <=> app.front_end.mode = "Gameplay" /\ ActiveCharacterIsConfirmed(app)
    BY <1>2, <2>1, <2>2 DEF AllowsSimulation
  <2> QED
    BY <1>3, <2>3, <2>4
<1>6. again = PlayedFrame(session, loop.input, loop.elapsed, allowed, was_playing, complete)
  BY DEF FrameAgain
<1>7. allowed = MayPlay /\ was_playing = loop.was_playing
  <2> HIDE DEF allowed, was_playing
  <2> QED
    BY <1>2, <1>3, <1>4, <1>5
<1>8. Frame = PlayedFrame(play, loop.input, loop.elapsed, allowed, was_playing,
                          play.trigger.objective_complete)
  BY <1>7 DEF Frame
<1>9. /\ session.remainder \in Remainders /\ session.position \in Positions
      /\ session.target \in Targets
      /\ play.remainder \in Remainders /\ play.position \in Positions /\ play.target \in Targets
  BY <1>2, <1>3 DEF Replays, Plays
<1> HIDE DEF allowed, was_playing, session
<1>10. /\ again.plan = BeginFrame(session.remainder, IF allowed THEN loop.elapsed ELSE 0)
       /\ again.path \in [1..again.plan.steps -> Int \X Int]
       /\ ~was_playing => again.steps = again.plan.steps
  BY <1>3, <1>4, <1>6, <1>9, FrameIsPlayed
<1>11. /\ Frame.plan = BeginFrame(play.remainder, IF allowed THEN loop.elapsed ELSE 0)
       /\ Frame.path \in [1..Frame.plan.steps -> Int \X Int]
       /\ ~was_playing => /\ Frame.steps = Frame.plan.steps
                          /\ \A k \in 1..Frame.plan.steps : Frame.path[k] = play.position
  BY <1>3, <1>4, <1>8, <1>9, FrameIsPlayed
<1>12. again.plan = Frame.plan
  BY <1>2, <1>10, <1>11
<1>13. DOMAIN again.path = 1..Frame.plan.steps
  BY <1>10, <1>12
<1>14. again.target = Frame.target
  <2> DEFINE enabled == allowed /\ was_playing /\ complete
             seen == allowed /\ was_playing /\ play.trigger.objective_complete
             held == "target" \in loop.input.held
             fire == "fire" \in loop.input.pressed
  <2>1. /\ again.target = AdvanceTargetFire(session.target, enabled, loop.input.pointer, held, fire)
        /\ Frame.target = AdvanceTargetFire(play.target, seen, loop.input.pointer, held, fire)
    BY <1>6, <1>8 DEF PlayedFrame
  <2>2. enabled = seen
    BY <1>2
  <2> HIDE DEF enabled, seen, held, fire
  <2> QED
    BY <1>2, <2>1, <2>2
<1>15. CASE Deploys(loop.input)
  <2>1. ~was_playing
    BY <1>2, <1>15
  <2>2. again.steps = Frame.steps /\ Frame.steps = Frame.plan.steps
    BY <1>10, <1>11, <1>12, <2>1
  <2>3. \A k \in 1..Frame.plan.steps : Frame.path[k] = Origin
    BY <1>2, <1>11, <1>15, <2>1
  <2>4. Frame.path = [k \in 1..Frame.plan.steps |-> Origin]
    BY <1>11, <2>3
  <2> QED
    BY <1>12, <1>13, <1>14, <1>15, <2>2, <2>4
<1>16. CASE ~Deploys(loop.input)
  <2> DEFINE delta == IF allowed /\ was_playing THEN PlanDebugLocomotionStep(loop.input.held)
                      ELSE <<0, 0>>
  <2>1. /\ again.steps = Executed(session.position, delta, again.plan.steps)
        /\ again.path = [k \in 1..again.plan.steps |-> At(session.position, delta, k)]
        /\ Frame.steps = Executed(play.position, delta, Frame.plan.steps)
        /\ Frame.path = [k \in 1..Frame.plan.steps |-> At(play.position, delta, k)]
    BY <1>6, <1>8 DEF PlayedFrame
  <2>2. session.position = play.position
    BY <1>2, <1>16
  <2> HIDE DEF delta
  <2>3. again.steps = Frame.steps /\ again.path = Frame.path
    BY <1>12, <2>1, <2>2
  <2> QED
    BY <1>12, <1>13, <1>14, <1>16, <2>3
<1> QED
  BY <1>15, <1>16

\* What the replay comes to is what the run comes to.
LEMMA FrameIsRepeated ==
    ASSUME RunInvariant, Simulate, Captures, loop'.pc = "render", NEW r,
           r = Replayed(loop.input, loop.elapsed)
    PROVE  /\ r \in Replays /\ r.front_end = app'.front_end
           /\ MirrorsSession(r, app', stored') /\ RepeatsPlay(r, play')
           /\ r.plan = loop'.plan
<1> DEFINE session == SessionAfter(loop.input)
           again == FrameAgain(loop.input, loop.elapsed)
           path == IF Deploys(loop.input) THEN [k \in DOMAIN again.path |-> Origin] ELSE again.path
           event == EventAgain(loop.input, again.target)
           state == ReplayReduction(loop.input).state
<1>1. loop.pc = "simulate" /\ RunTypes /\ PlayIsAuthorized /\ IsApplied(loop.input)
      /\ replay.state = "Ready" /\ ~launch.active
  BY WhoCaptures DEF RunInvariant, ReplayFollows, PlayIsAuthorized, InFrame, Simulate
<1>2. /\ session \in Replays /\ state = app.front_end
      /\ MirrorsSession(session, app, stored)
      /\ session.remainder = play.remainder /\ session.trigger = play.trigger
      /\ session.target = play.target /\ session.mission = play.mission
      /\ Deploys(loop.input) =>
           play.position = Origin /\ ~MissionRejects(replay.mission, "Deploy")
      /\ ~Deploys(loop.input) => session.position = play.position
      /\ loop.was_playing <=> replay.front_end.mode = "Gameplay"
      /\ loop.aborted_now <=>
           /\ loop.was_playing /\ replay.mission = "Active"
           /\ app.front_end.mode # "Gameplay"
  BY <1>1 DEF IsApplied
<1>3. /\ Frame.plan \in Plans /\ Frame.steps \in 0..Frame.plan.steps
      /\ ~MissionRejects(play.mission, Event) /\ loop.aborted_now \in BOOLEAN
      /\ MayPlay \in BOOLEAN /\ (~MayPlay => Frame.plan.steps = 0)
  BY <1>1, FrameIsSimulated
<1>4. /\ UNCHANGED stored
      /\ Frame.steps = Frame.plan.steps
      /\ play' = [play EXCEPT
            !.remainder = Frame.plan.remainder,
            !.position = IF Frame.steps = 0 THEN @ ELSE Frame.path[Frame.steps],
            !.trigger = IF MayPlay
                        THEN AdvanceProximityTrigger(@, Frame.path, Frame.plan.steps) ELSE @,
            !.target = Frame.target, !.mission = MissionAfter(@, Event)]
      /\ app' = IF Event = "Complete"
                THEN [app EXCEPT !.front_end = ReturnToBriefing(@,
                         CurrentFrontEndCapabilities(app, launch.active))]
                ELSE app
      /\ loop' = [pc |-> "render", plan |-> Frame.plan]
  <2>1. loop'.pc # "leaving"
    OBVIOUS
  <2> QED
    BY <1>1, <2>1, SimulateTakesTheSteps
<1>5. /\ again.plan = Frame.plan /\ again.steps = Frame.steps /\ again.target = Frame.target
      /\ DOMAIN again.path = 1..Frame.plan.steps
      /\ ~Deploys(loop.input) => again.path = Frame.path
      /\ Deploys(loop.input) => Frame.path = [k \in 1..Frame.plan.steps |-> Origin]
  BY <1>1, SameFrameInReplay
<1>6. path = Frame.path
  BY <1>5
<1>7. event = Event
  <2> DEFINE aborted == /\ replay.front_end.mode = "Gameplay" /\ replay.mission = "Active"
                        /\ state.mode # "Gameplay"
  <2>1. aborted \in BOOLEAN /\ (aborted <=> loop.aborted_now)
    BY <1>2
  <2>2. event = MissionEvent(session.mission, aborted, session.target, again.target)
    BY DEF EventAgain
  <2>3. aborted = loop.aborted_now
    <3> HIDE DEF aborted
    <3> QED
      BY <1>3, <2>1
  <2> HIDE DEF aborted, event, session, again
  <2> QED
    BY <1>2, <1>5, <2>2, <2>3 DEF Event
<1> DEFINE front_end == IF Event = "Complete" THEN ReturnToBriefing(state, ReplayCapabilities)
                        ELSE state
           position == IF Deploys(loop.input) THEN Origin
                       ELSE IF Frame.plan.steps = 0 THEN session.position
                       ELSE again.path[Frame.plan.steps]
           trigger == AdvanceProximityTrigger(session.trigger, path, Frame.plan.steps)
           mission == MissionAfter(session.mission, Event)
<1>8. r = [session EXCEPT !.front_end = front_end, !.remainder = Frame.plan.remainder,
             !.position = position, !.trigger = trigger, !.target = Frame.target,
             !.mission = mission, !.plan = Frame.plan]
  <2>1. /\ ~(Deploys(loop.input) /\ MissionRejects(replay.mission, "Deploy"))
        /\ ~(again.steps < again.plan.steps) /\ ~MissionRejects(session.mission, event)
    <3>1. Frame.plan.steps \in Nat
      BY <1>3 DEF Plans
    <3> HIDE DEF session, again, event
    <3> QED
      BY <1>2, <1>3, <1>4, <1>5, <1>7, <3>1
  <2>2. r = [session EXCEPT
               !.front_end = IF event = "Complete"
                             THEN ReturnToBriefing(state, ReplayCapabilities) ELSE state,
               !.remainder = again.plan.remainder,
               !.position = IF Deploys(loop.input) THEN Origin
                            ELSE IF again.plan.steps = 0 THEN @ ELSE again.path[again.plan.steps],
               !.trigger = AdvanceProximityTrigger(@, path, again.plan.steps),
               !.target = again.target, !.mission = MissionAfter(@, event), !.plan = again.plan]
    BY <2>1 DEF Replayed
  <2> HIDE DEF session, again, event, path, state
  <2> QED
    BY <1>2, <1>5, <1>7, <2>2 DEF Replays
<1>9. front_end = app'.front_end
  <2>1. CurrentFrontEndCapabilities(app, launch.active).supports_character_selection = TRUE
        /\ ReplayCapabilities.supports_character_selection = TRUE
    BY <1>1 DEF CurrentFrontEndCapabilities, ReplayCapabilities
  <2>2. ReturnToBriefing(state, ReplayCapabilities)
          = ReturnToBriefing(app.front_end, CurrentFrontEndCapabilities(app, launch.active))
    BY <1>2, <2>1 DEF ReturnToBriefing
  <2>3. app \in Apps
    BY <1>1 DEF RunTypes
  <2> HIDE DEF state
  <2> QED
    BY <1>2, <1>4, <2>2, <2>3 DEF Apps
<1>10. position = play'.position
  <2>1. play \in Plays /\ Frame.plan.steps \in Nat
    BY <1>1, <1>3 DEF RunTypes, InFrame, Plans
  <2>2. play'.position = IF Frame.steps = 0 THEN play.position ELSE Frame.path[Frame.steps]
    BY <1>4, <2>1 DEF Plays
  <2> HIDE DEF session, again
  <2>3. CASE Deploys(loop.input)
    BY <1>2, <1>4, <1>5, <2>1, <2>2, <2>3
  <2>4. CASE ~Deploys(loop.input)
    BY <1>2, <1>4, <1>5, <2>2, <2>4
  <2> QED
    BY <2>3, <2>4
<1>11. trigger = play'.trigger
  <2>1. play \in Plays
    BY <1>1 DEF RunTypes, InFrame
  <2>2. play'.trigger = IF MayPlay
                        THEN AdvanceProximityTrigger(play.trigger, Frame.path, Frame.plan.steps)
                        ELSE play.trigger
    BY <1>4, <2>1 DEF Plays
  <2>3. ~MayPlay => AdvanceProximityTrigger(play.trigger, Frame.path, Frame.plan.steps)
                      = play.trigger
    BY <1>3 DEF AdvanceProximityTrigger
  <2> HIDE DEF session, path
  <2> QED
    BY <1>2, <1>6, <2>2, <2>3
<1>12. /\ mission = play'.mission /\ Frame.target = play'.target
       /\ Frame.plan.remainder = play'.remainder
  <2>1. play \in Plays
    BY <1>1 DEF RunTypes, InFrame
  <2> HIDE DEF session
  <2> QED
    BY <1>2, <1>4, <2>1 DEF Plays
<1>13. play' \in Plays /\ app' \in Apps
  <2>1. InFrame'
    BY DEF InFrame
  <2> QED
    BY <2>1, SimulateKeepsTheRun DEF RunTypes
<1>14. /\ front_end \in FrontEndStates /\ position \in Positions /\ trigger \in Triggers
       /\ mission \in Missions /\ Frame.target \in Targets /\ Frame.plan.remainder \in Remainders
  <2> HIDE DEF front_end, position, trigger, mission
  <2> QED
    BY <1>9, <1>10, <1>11, <1>12, <1>13 DEF Plays, Apps
<1> HIDE DEF front_end, position, trigger, mission, session, again, path, event, state
<1>15. /\ r \in Replays /\ r.front_end = front_end /\ r.remainder = Frame.plan.remainder
       /\ r.position = position /\ r.trigger = trigger /\ r.target = Frame.target
       /\ r.mission = mission /\ r.plan = Frame.plan
       /\ r.state = session.state /\ r.profiles = session.profiles
       /\ r.by_profile = session.by_profile /\ r.active_slot = session.active_slot
       /\ r.characters = session.characters
       /\ r.can_create_first_profile = session.can_create_first_profile
       /\ r.profile_confirmed = session.profile_confirmed
       /\ r.character_confirmed = session.character_confirmed
  BY <1>2, <1>3, <1>8, <1>14 DEF Replays
<1>16. RepeatsPlay(r, play')
  BY <1>10, <1>11, <1>12, <1>15 DEF RepeatsPlay
<1>17. MirrorsSession(r, app', stored')
  <2>1. /\ app'.profiles = app.profiles /\ app'.characters = app.characters
        /\ app'.active_profile = app.active_profile
        /\ app'.active_character = app.active_character
    <3>1. app \in Apps
      BY <1>1 DEF RunTypes
    <3> QED
      BY <1>4, <3>1 DEF Apps
  <2> QED
    BY <1>2, <1>4, <1>15, <2>1
       DEF MirrorsSession, ActiveProfileIsConfirmed, ActiveCharacterIsConfirmed
<1> QED
  BY <1>4, <1>9, <1>15, <1>16, <1>17

\* Simulate: run and replay play the same frame.
LEMMA SimulateKeeps ==
    ASSUME RunInvariant, Simulate, UNCHANGED replay
    PROVE  RunInvariant'
<1>1. /\ RunTypes' /\ SessionIsStored' /\ PlayIsAuthorized' /\ FramesAreCounted'
      /\ TracesAreInStep'
  BY SimulateKeepsTheRun
<1>2. /\ RunTypes /\ PlayIsAuthorized /\ TracesAreInStep /\ ReplayFollows
      /\ loop.pc = "simulate"
  BY DEF RunInvariant, Simulate
<1>3. /\ UNCHANGED capture
      /\ \/ loop' = [pc |-> "leaving", failure |-> "operational"]
         \/ loop' = [pc |-> "render", plan |-> Frame.plan]
  BY <1>2, SimulateTakesTheSteps
<1>4. ReplayFollows'
  <2>1. replay' \in Replays /\ replay'.state # "Failed" /\ (Captures' <=> Captures)
    BY <1>2, <1>3 DEF ReplayFollows, Captures
  <2>2. CASE loop'.pc = "render" /\ Captures
    <3> DEFINE r == Replayed(loop.input, loop.elapsed)
    <3>1. /\ r \in Replays /\ r.front_end = app'.front_end
          /\ MirrorsSession(r, app', stored') /\ RepeatsPlay(r, play')
          /\ r.plan = loop'.plan
      BY <2>2, FrameIsRepeated
    <3>2. /\ Head(capture'.inputs.unread) = loop.input /\ Head(capture'.times.unread) = loop.elapsed
      BY <1>2, <1>3, <2>2 DEF TracesAreInStep
    <3>3. Replayed(Head(capture.inputs.unread), Head(capture.times.unread))' = r
      <4>1. \A input, elapsed : Replayed(input, elapsed)' = Replayed(input, elapsed)
        BY ReplayedStays
      <4> QED
        BY <3>2, <4>1
    <3>4. replay.state = "Ready"
      BY <1>2, <2>2 DEF ReplayFollows
    <3> HIDE DEF r
    <3>5. IsPlayed(Replayed(Head(capture.inputs.unread), Head(capture.times.unread)))'
      BY <3>1, <3>3 DEF IsPlayed, Repeats, MirrorsSession, RepeatsPlay,
         ActiveProfileIsConfirmed, ActiveCharacterIsConfirmed
    <3> QED
      BY <2>1, <2>2, <3>4, <3>5 DEF ReplayFollows
  <2>3. CASE loop'.pc # "render" \/ ~Captures
    BY <1>3, <2>1, <2>3 DEF ReplayFollows
  <2> QED
    BY <2>2, <2>3
<1> QED
  BY <1>1, <1>4 DEF RunInvariant

-------------------------------------------------------------------------------
(***************************************************************************)
(* The theorems.                                                           *)
(***************************************************************************)

\* Before the start nothing is confirmed, counted, captured or replayed.
LEMMA RunInvariantAtStart ==
    ASSUME Init
    PROVE  RunInvariant
<1>1. /\ launch \in [start : {"capture", "current", "diagnostic", "retail"}, active : {FALSE}]
      /\ stored \in Catalogs /\ app = StartedApp(stored) /\ cards = 0 /\ play = NewPlay
      /\ loop = [pc |-> "start"] /\ result = NewResult
      /\ capture = IF launch.start = "capture" THEN NewCapture(FrameLimit) ELSE NoCapture
      /\ replay = ReplaySession(stored)
  BY DEF Init, RunInit
<1>2. stored \in Seq(Nat)
  BY <1>1, RunAssumption
<1>3. Len(stored) \in Nat /\ (stored = <<>> <=> Len(stored) = 0)
  BY <1>2, EmptySeq
<1>4. InitialFrontEndState \in FrontEndStates /\ InitialFrontEndState.mode = "Title"
  BY ModeRows DEF InitialFrontEndState
<1>5. /\ None \in {None} /\ ~IsShown(None, Len(stored))
      /\ \A n \in Nat : ~IsShown(None, n)
  BY <1>3, ShownEntries
<1>6. 0 \in Remainders /\ Origin \in Positions /\ NotInside \in Triggers
      /\ NotAcquired \in Targets /\ "Ready" \in Missions
  BY ReachedPositions, RulesType, SchedulerAssumption DEF Remainders, Missions
<1>7. RunTypes
  <2>1. app \in Apps
    <3> DEFINE none == stored = <<>>
    <3>1. none \in BOOLEAN
      OBVIOUS
    <3>2. app = [front_end |-> InitialFrontEndState, profiles |-> Len(stored), characters |-> 0,
                 active_profile |-> None, active_character |-> None,
                 can_create_first_profile |-> none, can_create_first_character |-> FALSE,
                 card |-> FALSE, first_card |-> FALSE]
      BY <1>1 DEF StartedApp
    <3> HIDE DEF none
    <3> QED
      BY <1>3, <1>4, <3>1, <3>2 DEF Apps
  <2>2. play \in Plays
    BY <1>1, <1>6 DEF NewPlay, Plays
  <2>3. result \in Results
    BY <1>1 DEF NewResult, Results
  <2>4. FrameLimit \in Nat /\ NewCapture(FrameLimit) \in Captured
    BY FrameLimitAssumption DEF NewCapture, Captured, PlannedFrames, NoTrace, NoTerminal
  <2>5. LoopOK
    BY <1>1 DEF LoopOK
  <2>6. launch \in [start : {"capture", "current", "diagnostic", "retail"}, active : BOOLEAN]
    BY <1>1
  <2> QED
    BY <1>1, <1>2, <2>1, <2>2, <2>3, <2>4, <2>5, <2>6 DEF RunTypes
<1>8. SessionIsStored
  <2>1. /\ app.active_profile = None /\ app.active_character = None
        /\ app.card = FALSE /\ app.first_card = FALSE /\ app.characters = 0
        /\ app.can_create_first_character = FALSE /\ app.profiles = Len(stored)
    BY <1>1 DEF StartedApp
  <2>2. app.can_create_first_profile <=> stored = <<>>
    BY <1>1 DEF StartedApp
  <2> QED
    BY <1>1, <1>3, <2>1, <2>2 DEF SessionIsStored, StoredSession
<1>9. PlayIsAuthorized
  BY <1>1, <1>4 DEF PlayIsAuthorized, StartedApp, NewPlay
<1>10. FramesAreCounted
  BY <1>1, FrameLimitAssumption DEF FramesAreCounted, NewResult
<1>11. TracesAreInStep
  BY <1>1, FrameLimitAssumption
     DEF TracesAreInStep, NewResult, NewCapture, PlannedFrames, NoTrace, NoTerminal, Captures
<1>12. ReplayFollows
  <2>1. replay \in Replays
    <3> DEFINE none == stored = <<>>
    <3>1. none \in BOOLEAN
      OBVIOUS
    <3>2. BeginFrame(0, 0) \in Plans
      BY <1>6, FrameIsPlanned
    <3>3. replay = [state |-> "Ready", front_end |-> InitialFrontEndState,
                    profiles |-> Len(stored), by_profile |-> stored,
                    active_slot |-> None, characters |-> 0,
                    can_create_first_profile |-> none,
                    profile_confirmed |-> FALSE, character_confirmed |-> FALSE,
                    remainder |-> 0, position |-> Origin, trigger |-> NotInside,
                    target |-> NotAcquired, mission |-> "Ready", plan |-> BeginFrame(0, 0)]
      BY <1>1 DEF ReplaySession
    <3> HIDE DEF none
    <3> QED
      BY <1>2, <1>3, <1>4, <1>6, <3>1, <3>2, <3>3 DEF Replays
  <2>2. Repeats(replay)
    BY <1>1, <1>3, <1>5 DEF Repeats, MirrorsSession, RepeatsPlay, ReplaySession, StartedApp, NewPlay,
       ActiveProfileIsConfirmed, ActiveCharacterIsConfirmed
  <2> QED
    BY <1>1, <2>1, <2>2 DEF ReplayFollows, ReplaySession
<1> QED
  BY <1>7, <1>8, <1>9, <1>10, <1>11, <1>12 DEF RunInvariant

\* A step that changes nothing.
LEMMA StutteringKeeps ==
    ASSUME RunInvariant, UNCHANGED vars
    PROVE  RunInvariant'
<1>1. UNCHANGED <<launch, stored, app, cards, play, loop, result, capture, replay>>
  BY DEF vars
<1>2. RunTypes'
  <2>1. LoopOK'
    BY <1>1 DEF RunInvariant, RunTypes, LoopOK, Reduction, Menu, CurrentFrontEndCapabilities,
       ActiveProfileIsConfirmed, ActiveCharacterIsConfirmed
  <2> QED
    BY <1>1, <2>1 DEF RunInvariant, RunTypes, InFrame
<1>3. SessionIsStored'
  BY <1>1, SessionStays DEF RunInvariant, InFrame
<1>4. PlayIsAuthorized' /\ FramesAreCounted' /\ TracesAreInStep'
  BY <1>1 DEF RunInvariant, PlayIsAuthorized, FramesAreCounted, TracesAreInStep, InFrame, Captures,
     ActiveProfileIsConfirmed, ActiveCharacterIsConfirmed
<1>5. ReplayFollows'
  <2>1. (Captures' <=> Captures) /\ (Unread' <=> Unread)
    BY <1>1 DEF Captures, Unread
  <2>2. ReplayFollows
    BY DEF RunInvariant
  <2>3. \A r : (Repeats(r)' <=> Repeats(r))
    BY <1>1 DEF Repeats, MirrorsSession, RepeatsPlay, ActiveProfileIsConfirmed,
       ActiveCharacterIsConfirmed
  <2> QED
    BY <1>1, <2>1, <2>2, <2>3, ReplayedStays DEF ReplayFollows, IsApplied, IsPlayed
<1> QED
  BY <1>2, <1>3, <1>4, <1>5 DEF RunInvariant

\* The inductive invariant: the values and the loop's place, the session behind the menu,
\* play behind its gate, the frame counts, the traces and the replay beside the run.
THEOREM RunInvariantHolds == Spec => []RunInvariant
<1>1. Init => RunInvariant
  BY RunInvariantAtStart
<1>2. RunInvariant /\ [Next]_vars => RunInvariant'
  <2> SUFFICES ASSUME RunInvariant, [Next]_vars
               PROVE  RunInvariant'
    OBVIOUS
  <2>1. CASE ~Unread /\ RunStep /\ UNCHANGED replay
    BY <2>1, PumpInputKeeps, PrepareRunStartKeeps, RenderKeeps, NextFrameKeeps, QuitKeeps,
       ReturnKeeps, ApplyCommandKeeps, SimulateKeeps DEF RunStep
  <2>2. CASE ReplayNext
    BY <2>2, ReplayNextKeeps
  <2>3. CASE UNCHANGED vars
    BY <2>3, StutteringKeeps
  <2> QED
    BY <2>1, <2>2, <2>3 DEF Next
<1> QED
  BY <1>1, <1>2, PTL DEF Spec

\* main.cpp compares a replay with its run once, at the end, and the two must agree: the
\* replay of any run repeats the menu, scheduler, actor, objective, target and mission of
\* every frame, and never fails.
THEOREM ReplayHolds == Spec => []ReplayReproducesTheRun
<1>1. RunInvariant => ReplayReproducesTheRun
  <2> SUFFICES ASSUME RunInvariant
               PROVE  ReplayReproducesTheRun
    OBVIOUS
  <2>1. replay \in Replays /\ replay.state # "Failed"
    BY DEF RunInvariant, ReplayFollows
  <2> SUFFICES ASSUME Captures, loop.pc \in {"rendered", "quit"}, ~Unread
               PROVE  /\ replay.front_end = app.front_end
                      /\ \A part \in DOMAIN play : replay[part] = play[part]
                      /\ replay.profile_confirmed = ActiveProfileIsConfirmed(app)
                      /\ replay.character_confirmed = ActiveCharacterIsConfirmed(app)
                      /\ loop.pc = "rendered" => replay.plan = loop.plan
                      /\ loop.pc = "quit" <=> replay.state = "Complete"
    BY <2>1 DEF ReplayReproducesTheRun
  <2>2. play \in Plays /\ app \in Apps
    BY DEF RunInvariant, RunTypes, InFrame
  <2> DEFINE r == IF loop.pc = "quit" THEN [replay EXCEPT !.state = "Ready"] ELSE replay
  <2>3. /\ Repeats(r)
        /\ loop.pc = "rendered" => replay.plan = loop.plan
        /\ loop.pc = "quit" => replay.state = "Complete"
    BY DEF RunInvariant, ReplayFollows, IsPlayed
  <2>4. /\ r.front_end = replay.front_end /\ r.remainder = replay.remainder
        /\ r.position = replay.position /\ r.trigger = replay.trigger
        /\ r.target = replay.target /\ r.mission = replay.mission
        /\ r.profile_confirmed = replay.profile_confirmed
        /\ r.character_confirmed = replay.character_confirmed
        /\ loop.pc = "rendered" => r.state = replay.state
    BY <2>1 DEF Replays
  <2> HIDE DEF r
  <2>5. /\ replay.front_end = app.front_end
        /\ replay.remainder = play.remainder /\ replay.position = play.position
        /\ replay.trigger = play.trigger /\ replay.target = play.target
        /\ replay.mission = play.mission
        /\ loop.pc = "rendered" => replay.state = "Ready"
    BY <2>3, <2>4 DEF Repeats, MirrorsSession, RepeatsPlay
  <2>6. \A part \in DOMAIN play : replay[part] = play[part]
    BY <2>2, <2>5 DEF Plays
  <2>7. replay.profile_confirmed = ActiveProfileIsConfirmed(app)
    <3>1. replay.profile_confirmed <=> ActiveProfileIsConfirmed(app)
      BY <2>3, <2>4 DEF Repeats, MirrorsSession
    <3>2. replay.profile_confirmed \in BOOLEAN /\ ActiveProfileIsConfirmed(app) \in BOOLEAN
      BY <2>1, <2>2, SessionOffers DEF Replays
    <3> QED
      BY <3>1, <3>2
  <2>8. replay.character_confirmed = ActiveCharacterIsConfirmed(app)
    <3>1. replay.character_confirmed <=> ActiveCharacterIsConfirmed(app)
      BY <2>3, <2>4 DEF Repeats, MirrorsSession
    <3>2. replay.character_confirmed \in BOOLEAN /\ ActiveCharacterIsConfirmed(app) \in BOOLEAN
      BY <2>1, <2>2, SessionOffers DEF Replays
    <3> QED
      BY <3>1, <3>2
  <2>9. loop.pc = "quit" <=> replay.state = "Complete"
    BY <2>3, <2>5
  <2> QED
    BY <2>3, <2>5, <2>6, <2>7, <2>8, <2>9
<1> QED
  BY <1>1, RunInvariantHolds, PTL

\* CurrentFrontEndCapabilities and the commands keep the gate of play: it is open only to
\* a confirmed character or the diagnostic start, and the menu lists what is stored.
THEOREM MenuHolds == Spec => []MenuIsTruthful
<1>1. RunInvariant => MenuIsTruthful
  <2> SUFFICES ASSUME RunInvariant
               PROVE  MenuIsTruthful
    OBVIOUS
  <2>1. app \in Apps /\ launch.active \in BOOLEAN /\ stored \in Seq(Nat)
    BY DEF RunInvariant, RunTypes
  <2>2. GameplayIsAuthorized
    <3> SUFFICES ASSUME loop.pc \in {"frame", "rendered", "quit"}
                 PROVE  /\ app.front_end.mode = "Gameplay" <=> play.mission = "Active"
                        /\ app.front_end.mode = "Gameplay" =>
                              launch.active \/ ActiveCharacterIsConfirmed(app)
                        /\ ActiveCharacterIsConfirmed(app) =>
                              app.active_profile # None /\ app.active_character # None
                        /\ launch.active => app.front_end.mode = "Gameplay"
      BY DEF GameplayIsAuthorized
    <3>1. ActiveCharacterIsConfirmed(app) =>
            app.active_profile # None /\ app.active_character # None
      BY <2>1, SessionOffers
    <3> QED
      BY <3>1 DEF RunInvariant, PlayIsAuthorized, InFrame
  <2>3. ShownIsStored
    <3>1. StoredSession(app, stored, cards, InFrame)
      BY DEF RunInvariant, SessionIsStored
    <3>2. InFrame /\ app.active_character # None => app.active_character < app.characters
      <4>1. app.active_character # None => app.active_character \in Nat
        BY <2>1 DEF Apps
      <4>2. app.characters \in Nat
        BY <2>1 DEF Apps
      <4> QED
        BY <3>1, <4>1, <4>2, ShownEntries DEF StoredSession
    <3> QED
      BY <3>1, <3>2 DEF ShownIsStored, StoredSession, InFrame
  <2> QED
    BY <2>2, <2>3 DEF MenuIsTruthful
<1> QED
  BY <1>1, RunInvariantHolds, PTL

\* However a run ends, RunWithCapture can finish its capture and PlanRunCaptureReplay
\* takes it; a run that reached its frame limit left a complete capture.
THEOREM CaptureHolds == Spec => []CaptureKeepsStep
<1>1. RunInvariant => CaptureKeepsStep
  <2> SUFFICES ASSUME RunInvariant, loop.pc = "returned"
               PROVE  /\ loop.completion # "CaptureFailure"
                      /\ Captures =>
                           /\ IsReplayable(Finish(capture))
                           /\ capture.inputs.count = result.input_frames
                           /\ capture.terminal.marked <=> result.quit_requested
                           /\ result.quit_requested => capture.times.count = result.rendered_frames
                           /\ loop.completion = "QuitRequested" => result.quit_requested
                           /\ loop.completion = "FrameLimitReached" => IsCompleteRunCaptureOutcome
    BY DEF CaptureKeepsStep
  <2>1. loop.completion \in {"OperationalFailure", "QuitRequested", "FrameLimitReached"}
    BY DEF RunInvariant, RunTypes, LoopOK
  <2> SUFFICES ASSUME Captures
               PROVE  /\ IsReplayable(Finish(capture))
                      /\ capture.inputs.count = result.input_frames
                      /\ capture.terminal.marked <=> result.quit_requested
                      /\ result.quit_requested => capture.times.count = result.rendered_frames
                      /\ loop.completion = "QuitRequested" => result.quit_requested
                      /\ loop.completion = "FrameLimitReached" => IsCompleteRunCaptureOutcome
    BY <2>1
  <2>2. /\ result.input_frames \in Nat /\ result.rendered_frames \in Nat
        /\ result.quit_requested \in BOOLEAN /\ FrameLimit \in Nat /\ FrameLimit > 0
    BY FrameLimitAssumption DEF RunInvariant, RunTypes, Results
  <2>3. /\ capture.maximum = FrameLimit /\ capture.inputs.count = result.input_frames
        /\ capture.terminal.marked <=> result.quit_requested
        /\ result.quit_requested =>
             /\ capture.terminal.frame = result.input_frames - 1
             /\ capture.terminal.host \/ capture.terminal.logical
             /\ capture.times.count = result.input_frames - 1
             /\ result.input_frames <= FrameLimit
        /\ ~result.quit_requested =>
             capture.times.count = result.input_frames /\ result.input_frames <= FrameLimit
    BY DEF RunInvariant, TracesAreInStep
  <2>4. /\ result.quit_requested => result.input_frames = result.rendered_frames + 1
        /\ loop.completion = "QuitRequested" => result.quit_requested
        /\ loop.completion = "FrameLimitReached" =>
             /\ result.rendered_frames = FrameLimit /\ result.input_frames = FrameLimit
             /\ result.unexecuted = 0 /\ ~result.quit_requested
    BY DEF RunInvariant, FramesAreCounted
  <2>5. IsReplayable(Finish(capture))
    <3>1. CASE result.quit_requested
      BY <2>2, <2>3, <3>1 DEF IsReplayable, Finish
    <3>2. CASE ~result.quit_requested
      BY <2>2, <2>3, <3>2 DEF IsReplayable, Finish
    <3> QED
      BY <3>1, <3>2
  <2>6. result.quit_requested => capture.times.count = result.rendered_frames
    BY <2>2, <2>3, <2>4
  <2>7. ASSUME loop.completion = "FrameLimitReached"
        PROVE  IsCompleteRunCaptureOutcome
    BY <2>3, <2>4, <2>7 DEF IsCompleteRunCaptureOutcome
  <2> QED
    BY <2>3, <2>4, <2>5, <2>6, <2>7
<1> QED
  BY <1>1, RunInvariantHolds, PTL

\* FrameScheduler and Simulate: no time of a frame is lost or played twice, at most the
\* frame budget is played, and the menu plays none of it.
THEOREM TimeHolds == Spec => TimeIsPlayedOrDropped
<1> DEFINE Given == IF app.front_end.mode = "Gameplay" THEN ClampedDelta(loop.elapsed) ELSE 0
           Accounted ==
             (loop.pc = "simulate" /\ loop'.pc = "render") =>
               LET plan == loop'.plan
                   given == IF app.front_end.mode = "Gameplay" THEN ClampedDelta(loop.elapsed)
                            ELSE 0
               IN /\ play.remainder + given =
                       plan.steps * SimulationStep + plan.dropped_time + play'.remainder
                  /\ play'.remainder \in 0..(SimulationStep - 1)
                  /\ plan.steps <= MaxStepsPerFrame /\ plan.dropped_time % SimulationStep = 0
                  /\ plan.dropped_time > 0 => plan.steps = MaxStepsPerFrame
                  /\ app.front_end.mode # "Gameplay" =>
                       play'.position = play.position /\ play'.remainder = play.remainder
<1>1. RunInvariant /\ [Next]_vars => [Accounted]_vars
  <2> SUFFICES ASSUME RunInvariant, Next, loop.pc = "simulate", loop'.pc = "render"
               PROVE  Accounted
    OBVIOUS
  <2>1. Simulate /\ RunTypes /\ PlayIsAuthorized
    BY DEF RunInvariant, Next, RunStep, PumpInput, PrepareRunStart, Render, NextFrame, Quit, Return,
       ApplyCommand, ReplayNext, Returned, Unread
  <2>2. /\ play \in Plays /\ loop.elapsed \in Int
        /\ MayPlay <=> app.front_end.mode = "Gameplay"
        /\ ~MayPlay => Frame.plan.steps = 0 /\ Frame.plan.remainder = play.remainder
    BY <2>1, FrameIsSimulated, RunAssumption DEF RunTypes, InFrame
  <2>3. /\ Frame.steps = Frame.plan.steps /\ loop'.plan = Frame.plan
        /\ play' = [play EXCEPT
             !.remainder = Frame.plan.remainder,
             !.position = IF Frame.steps = 0 THEN @ ELSE Frame.path[Frame.steps],
             !.trigger = IF MayPlay
                         THEN AdvanceProximityTrigger(@, Frame.path, Frame.plan.steps) ELSE @,
             !.target = Frame.target, !.mission = MissionAfter(@, Event)]
    <3>1. loop'.pc # "leaving"
      OBVIOUS
    <3> QED
      BY <2>1, <3>1, SimulateTakesTheSteps
  <2>4. /\ play'.remainder = Frame.plan.remainder
        /\ Frame.steps = 0 => play'.position = play.position
    BY <2>2, <2>3 DEF Plays
  <2> DEFINE time == IF MayPlay THEN loop.elapsed ELSE 0
  <2>5. Frame.plan = BeginFrame(play.remainder, time)
    BY DEF Frame, PlayedFrame
  <2>6. play.remainder \in Remainders /\ time \in Int
    BY <2>2 DEF Plays
  <2>7. ClampedDelta(time) = Given
    <3>1. ClampedDelta(0) = 0
      BY SchedulerAssumption DEF ClampedDelta
    <3> QED
      BY <2>2, <3>1
  <2> HIDE DEF time
  <2>8. /\ Frame.plan \in Plans /\ Frame.plan.steps <= MaxStepsPerFrame
        /\ play.remainder + ClampedDelta(time)
             = Frame.plan.steps * SimulationStep + Frame.plan.dropped_time + Frame.plan.remainder
        /\ Frame.plan.dropped_time % SimulationStep = 0
        /\ Frame.plan.dropped_time > 0 => Frame.plan.steps = MaxStepsPerFrame
    BY <2>5, <2>6, FrameIsPlanned
  <2>9. Frame.plan.remainder \in 0..(SimulationStep - 1)
    BY <2>8 DEF Plans, Remainders
  <2> QED
    BY <2>2, <2>3, <2>4, <2>7, <2>8, <2>9
<1>2. Spec => [][Accounted]_vars
  BY <1>1, RunInvariantHolds, PTL DEF Spec
<1> QED
  BY <1>2 DEF TimeIsPlayedOrDropped

===============================================================================
