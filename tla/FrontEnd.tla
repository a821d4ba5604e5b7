------------------------------ MODULE FrontEnd ------------------------------
(***************************************************************************)
(* The player-facing menu of apps/openomega/front_end.h: a pure reducer    *)
(* from a state, the edges of one input frame and what the session can do  *)
(* to the next state and a command.  The application carries the command   *)
(* out before it publishes the state; the replay of a capture uses the     *)
(* same reducer.                                                           *)
(***************************************************************************)
EXTENDS Naturals

CONSTANT VisibleSlots    \* kFrontEndVisibleProfiles, kFrontEndVisibleCharacters

ASSUME VisibleSlotsAssumption == VisibleSlots \in Nat \ {0}

\* FrontEndMainRow.  A position in a list is a number, First = 0.
CreateAgentRow == 0
LoadAgentRow == 1
QuitRow == 2
AssetTopologyRow == 3

\* The rows that are valid in each FrontEndMode.
RowsOf == [Title |-> {CreateAgentRow, LoadAgentRow, QuitRow},
           ProfileOwnerStaging |-> {CreateAgentRow, LoadAgentRow},
           AgentSelection |-> {CreateAgentRow, LoadAgentRow},
           BriefingRoom |-> {CreateAgentRow, LoadAgentRow},
           Gameplay |-> {CreateAgentRow, LoadAgentRow},
           AgentCreation |-> {CreateAgentRow},
           Controls |-> {QuitRow},
           AssetTopology |-> {AssetTopologyRow}]

InitialFrontEndState ==
    [mode |-> "Title", row |-> CreateAgentRow, profile_slot |-> 0, character_slot |-> 0]

IsValidFrontEndState(state) ==
    /\ {state.profile_slot, state.character_slot} \subseteq 0..(VisibleSlots - 1)
    /\ state.row \in RowsOf[state.mode]

\* The slot at which a bounded list of `total` entries shows entry `id`, if it does:
\* entries are numbered in the order of their identifiers, `none` is no slot.
Visible(total) == IF total < VisibleSlots THEN total ELSE VisibleSlots
IsShown(id, total) == id \in 0..(Visible(total) - 1)

\* Fire and target are select and back outside of play; left and right always
\* share previous and next, which themselves are the forward and backward actions.
ResolveFrontEndInputEdges(mode, pressed) ==
    LET menu == mode # "Gameplay"
    IN [primary |-> "primary" \in pressed \/ (menu /\ "fire" \in pressed),
        previous |-> {"forward", "left"} \cap pressed # {},
        next |-> {"backward", "right"} \cap pressed # {},
        cancel |-> "cancel" \in pressed \/ (menu /\ "target" \in pressed)]

-------------------------------------------------------------------------------
(* What a session offers: the lists it shows, whose choices are confirmed, *)
(* and its FrontEndCapabilities.                                           *)

SatisfiesGameplayGate(caps, profile_confirmed, character_confirmed) ==
    /\ caps.requires_active_profile => profile_confirmed
    /\ caps.requires_active_character => character_confirmed

AllowsGameplay(caps, profile_confirmed, character_confirmed) ==
    /\ caps.can_start_campaign
    /\ SatisfiesGameplayGate(caps, profile_confirmed, character_confirmed)

AllowsSimulation(state, caps, profile_confirmed, character_confirmed) ==
    /\ IsValidFrontEndState(state) /\ state.mode = "Gameplay"
    /\ AllowsGameplay(caps, profile_confirmed, character_confirmed)

\* menu = [profiles, characters : the lists' lengths; profile_confirmed, character_confirmed]
ProfileIsUsable(menu) == menu.profile_confirmed /\ Visible(menu.profiles) # 0
CharacterIsUsable(menu) == menu.character_confirmed /\ Visible(menu.characters) # 0
GameplayIsPermitted(menu, caps) ==
    AllowsGameplay(caps, ProfileIsUsable(menu), CharacterIsUsable(menu))

\* A mode whose precondition has gone is left for the title.
MayStay(state, menu, caps) ==
    CASE state.mode = "AgentCreation" -> caps.supports_character_selection
      [] state.mode = "AgentSelection" ->
            caps.supports_character_selection /\ ProfileIsUsable(menu)
      [] state.mode = "BriefingRoom" ->
            caps.supports_character_selection /\ GameplayIsPermitted(menu, caps)
      [] state.mode = "Gameplay" -> GameplayIsPermitted(menu, caps)
      [] OTHER -> TRUE

\* A position that the list no longer shows goes back to the first.
Clamped(state, menu) ==
    [state EXCEPT !.profile_slot = IF IsShown(@, menu.profiles) THEN @ ELSE 0,
                  !.character_slot = IF IsShown(@, menu.characters) THEN @ ELSE 0]

NoCommand == [type |-> "None", profile_slot |-> 0, character_slot |-> 0]
Show(state) == [state |-> state, command |-> NoCommand]
Ask(state, type) == [state |-> state, command |-> [NoCommand EXCEPT !.type = type]]
AskFor(state, type, profile) ==
    [state |-> state, command |-> [type |-> type, profile_slot |-> profile,
                                   character_slot |-> 0]]

-------------------------------------------------------------------------------
(* One frame's cancel, primary or navigation.                              *)

AfterPlay(state, caps) ==
    IF caps.supports_character_selection THEN [state EXCEPT !.mode = "BriefingRoom"]
                                         ELSE InitialFrontEndState

\* A completed mission leads back to the briefing with the first row selected.
ReturnToBriefing(state, caps) ==
    IF caps.supports_character_selection
    THEN [state EXCEPT !.mode = "BriefingRoom", !.row = CreateAgentRow]
    ELSE InitialFrontEndState

Cancel(state, caps) ==
    CASE state.mode = "Title" -> state
      [] state.mode \in {"ProfileOwnerStaging", "AgentSelection"} ->
            [InitialFrontEndState EXCEPT !.row = state.row]
      [] state.mode = "BriefingRoom" -> [state EXCEPT !.mode = "AgentSelection"]
      [] state.mode = "Gameplay" -> AfterPlay(state, caps)
      [] OTHER -> InitialFrontEndState

\* An owner is confirmed if there is one, else created if that is possible.
Owner(state, otherwise, menu, caps) ==
    CASE Visible(menu.profiles) # 0 -> AskFor(state, "ConfirmProfileOwner", state.profile_slot)
      [] Visible(menu.profiles) = 0 /\ caps.can_create_first_profile ->
            Ask(state, "CreateProfileOwner")
      [] OTHER -> Show(otherwise)

TitleLoad(state, menu) ==
    LET selection == [state EXCEPT !.mode = "AgentSelection", !.character_slot = 0]
    IN CASE Visible(menu.profiles) = 0 -> Show(state)
         [] Visible(menu.profiles) # 0 /\ ProfileIsUsable(menu) -> Show(selection)
         [] OTHER -> AskFor(selection, "ConfirmProfileOwner", state.profile_slot)

TitleCreate(state, menu, caps) ==
    LET creation == [state EXCEPT !.mode = "AgentCreation", !.character_slot = 0]
    IN IF ProfileIsUsable(menu) THEN Show(creation)
       ELSE Owner(creation, InitialFrontEndState, menu, caps)

TitlePrimary(state, menu, caps) ==
    CASE state.row = QuitRow -> Ask(state, "RequestQuit")
      [] state.row # QuitRow /\ ~caps.supports_character_selection -> Show(state)
      [] state.row = LoadAgentRow /\ caps.supports_character_selection -> TitleLoad(state, menu)
      [] OTHER -> TitleCreate(state, menu, caps)

CreationPrimary(state, menu, caps) ==
    CASE ~ProfileIsUsable(menu) -> Owner(state, state, menu, caps)
      [] /\ ProfileIsUsable(menu)
         /\ Visible(menu.characters) = 0 /\ caps.can_create_first_character ->
            AskFor([state EXCEPT !.mode = "AgentSelection", !.character_slot = 0],
                   "CreateAgent", state.profile_slot)
      [] OTHER -> Show(state)

\* `selected` is whether the position was shown before it was clamped.
SelectionPrimary(state, selected) ==
    IF ~selected THEN Show(state)
    ELSE [state |-> [state EXCEPT !.mode = "BriefingRoom"],
          command |-> [type |-> "ConfirmAgent", profile_slot |-> state.profile_slot,
                       character_slot |-> state.character_slot]]

StagingPrimary(state, selected, menu, caps) ==
    IF ~selected
    THEN IF Visible(menu.profiles) = 0 THEN Owner(state, state, menu, caps) ELSE Show(state)
    ELSE AskFor([state EXCEPT !.mode = IF state.row = CreateAgentRow THEN "AgentCreation"
                                       ELSE "AgentSelection",
                              !.character_slot = 0],
                "ConfirmProfileOwner", state.profile_slot)

Primary(state, prior, menu, caps) ==
    CASE state.mode = "Title" -> TitlePrimary(state, menu, caps)
      [] state.mode = "AgentCreation" -> CreationPrimary(state, menu, caps)
      [] state.mode = "AgentSelection" ->
            SelectionPrimary(state, IsShown(prior.character_slot, menu.characters))
      [] state.mode = "ProfileOwnerStaging" ->
            StagingPrimary(state, IsShown(prior.profile_slot, menu.profiles), menu, caps)
      [] state.mode = "BriefingRoom" -> Ask([state EXCEPT !.mode = "Gameplay"], "StartCampaign")
      [] state.mode = "Gameplay" -> Show(AfterPlay(state, caps))
      [] OTHER -> Show(InitialFrontEndState)

\* One position up or down in a list of `size`, not past its ends.
Moved(position, size, input) ==
    CASE input.previous /\ position > 0 -> position - 1
      [] ~input.previous /\ position + 1 < size -> position + 1
      [] OTHER -> position

Navigate(state, input, menu) ==
    CASE state.mode = "Title" -> [state EXCEPT !.row = Moved(@, QuitRow + 1, input)]
      [] state.mode = "ProfileOwnerStaging" ->
            [state EXCEPT !.profile_slot = Moved(@, Visible(menu.profiles), input)]
      [] state.mode = "AgentSelection" ->
            [state EXCEPT !.character_slot = Moved(@, Visible(menu.characters), input)]
      [] OTHER -> state

\* Cancel goes before primary and primary before navigation.
ReduceFrontEnd(prior, input, menu, caps) ==
    LET state == Clamped(prior, menu)
    IN CASE ~IsValidFrontEndState(prior) -> Show(InitialFrontEndState)
         [] IsValidFrontEndState(prior) /\ ~MayStay(state, menu, caps) ->
               Show(InitialFrontEndState)
         [] OTHER ->
               IF input.cancel THEN Show(Cancel(state, caps))
               ELSE IF input.primary THEN Primary(state, prior, menu, caps)
               ELSE IF input.previous = input.next THEN Show(state)
               ELSE Show(Navigate(state, input, menu))

===============================================================================
