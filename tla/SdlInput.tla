------------------------------- MODULE SdlInput -------------------------------
(***************************************************************************)
(* apps/openomega/sdl_input_service.cpp: PumpEvents drains SDL's event     *)
(* queue into the input tracker, follows the primary gamepad as pads come  *)
(* and go, and drops every control when the window loses the focus.  The   *)
(* tracker (src/runtime/input_tracker.cpp) comes first, as operators: which*)
(* bound controls are down, how many of them hold each action, the edges of*)
(* the current frame and the frame's event budget.  It is a record         *)
(*   [down, down_count, pressed, released, pointer, accepted]              *)
(* where a set of actions stands for the flags of action_states_.          *)
(*                                                                         *)
(* The player, the pads and SDL are external: keys and pad buttons change  *)
(* at any time, also while the queue is drained; keys are heard with the   *)
(* focus only, a pad only once it was opened, and a pad that is plugged in *)
(* again is another pad.  `lost` is a history variable: the controls whose *)
(* last event the tracker rejected.                                        *)
(* The flags PumpEvents returns (a request to quit, the screenshot key,    *)
(* any press at all) are inputs of the frame loop and left out, and so are *)
(* the counts of rejected events, which are reported only.                 *)
(***************************************************************************)
EXTENDS Naturals, FiniteSets, Sequences

CONSTANTS
    Devices,     \* InputDevice
    Bindings,    \* InputBindingTable: [control -> action], a control is <<device, code>>
    MaxEventsPerFrame,
    Keys,        \* keyboard and mouse controls
    Buttons,     \* codes of pad buttons
    Pads,        \* pads, by SDL_JoystickID
    QueueLimit   \* bound on the events that wait

Bound == DOMAIN Bindings
Actions == {Bindings[c] : c \in Bound}

ASSUME BindingsAssumption == \A c \in Bound : c[1] \in Devices
ASSUME BoundsAssumption == {MaxEventsPerFrame, QueueLimit} \subseteq Nat \ {0}

VARIABLES
    tracker,     \* the InputTracker
    primary,     \* Impl::gamepad with its id, or NoPad
    reported,    \* actions held in the snapshot that the last EndFrame returned
    queue,       \* SDL's event queue
    focus,       \* whether the window has the focus
    plugged,     \* pads that are connected
    fresh,       \* pads that were never connected
    held,        \* keys and <<pad, button>> held down by the player
    lost

vars == <<tracker, primary, reported, queue, focus, plugged, fresh, held, lost>>
host == <<queue, focus, plugged, fresh, held>>

-------------------------------------------------------------------------------
(* InputTracker.                                                           *)

NewTracker == [down |-> {}, down_count |-> [a \in Actions |-> 0],
               pressed |-> {}, released |-> {}, pointer |-> "none",
               accepted |-> 0]

Accepts(t) == t.accepted < MaxEventsPerFrame

\* A plausible error: every control that goes down is an edge of its action.
PressEveryControl(t, control) ==
    LET action == Bindings[control]
    IN [t EXCEPT !.down = @ \cup {control}, !.pressed = @ \cup {action},
                 !.down_count[action] = @ + 1]

Press(t, control) ==
    LET action == Bindings[control]
    IN [t EXCEPT !.down = @ \cup {control},
                 !.pressed = IF t.down_count[action] = 0 THEN @ \cup {action} ELSE @,
                 !.down_count[action] = @ + 1]

Release(t, control) ==
    LET action == Bindings[control]
    IN [t EXCEPT !.down = @ \ {control},
                 !.released = IF t.down_count[action] = 1 THEN @ \cup {action} ELSE @,
                 !.down_count[action] = @ - 1]

\* An event beyond the budget changes nothing; a repeated level report neither.
PushEvent(t, control, pressed) ==
    LET u == [t EXCEPT !.accepted = @ + 1]
    IN CASE ~Accepts(t) -> t
         [] Accepts(t) /\ control \in Bound /\ pressed /\ control \notin t.down ->
               Press(u, control)
         [] Accepts(t) /\ control \in t.down /\ ~pressed -> Release(u, control)
         [] OTHER -> u

\* Every control of the device goes up; an action that nothing holds any more is
\* released in this frame.
ResetDevice(t, device) ==
    LET gone == {c \in t.down : c[1] = device}
        left == [a \in Actions |->
                    t.down_count[a] - Cardinality({c \in gone : Bindings[c] = a})]
    IN [t EXCEPT !.down = @ \ gone, !.down_count = left,
                 !.released = @ \cup {a \in Actions : t.down_count[a] > 0 /\ left[a] = 0}]

ResetAllControls(t) ==
    [t EXCEPT !.down = {}, !.down_count = [a \in Actions |-> 0],
              !.released = @ \cup {a \in Actions : t.down_count[a] > 0}]

SetPointerPosition(t, position) == [t EXCEPT !.pointer = position]
ClearPointerPosition(t) == [t EXCEPT !.pointer = "none"]

\* The snapshot of EndFrame, and the tracker as the next frame finds it.
Snapshot(t) == [held |-> {a \in Actions : t.down_count[a] > 0},
                pressed |-> t.pressed, released |-> t.released, pointer |-> t.pointer]
AfterFrame(t) == [t EXCEPT !.pressed = {}, !.released = {}, !.accepted = 0]

-------------------------------------------------------------------------------
(* SdlInputService.                                                        *)

NoPad == "no pad"
PadDevice == "gamepad"

\* A key is of no pad, and `held` tells keys from the buttons of pads.
ASSUME ControlAssumption ==
    /\ NoPad \notin Pads
    /\ \A k \in Keys : k[1] \notin Pads \cup {NoPad, PadDevice}

\* The control an event of the primary pad stands for.
ControlOf(button) == <<PadDevice, button>>

\* SDL_OpenGamepad may fail for any pad; the first that opens becomes the primary.
OpenFirstAvailable(candidates) == {NoPad} \cup candidates

Init ==
    /\ tracker = NewTracker /\ reported = {}
    /\ queue = <<>> /\ focus = TRUE /\ held = {} /\ lost = {}
    /\ plugged \in SUBSET Pads /\ fresh = Pads \ plugged
    /\ primary \in OpenFirstAvailable(plugged)

-------------------------------------------------------------------------------
(* The player and SDL.                                                     *)

Posts(event) == Len(queue) < QueueLimit /\ queue' = Append(queue, event)
Key(control, pressed) == [type |-> "key", control |-> control, pressed |-> pressed]
Button(pad, button, pressed) ==
    [type |-> "button", pad |-> pad, button |-> button, pressed |-> pressed]
Service == <<tracker, primary, reported, lost>>

MoveKey ==
    /\ \E control \in Keys :
         /\ held' = IF control \in held THEN held \ {control} ELSE held \cup {control}
         /\ IF focus THEN Posts(Key(control, control \notin held)) ELSE UNCHANGED queue
    /\ UNCHANGED <<focus, plugged, fresh, Service>>

\* Without the focus a pad still reports releases, but no presses.
MoveButton ==
    /\ \E pad \in plugged, button \in Buttons :
         LET goes_down == <<pad, button>> \notin held
         IN /\ held' = IF goes_down THEN held \cup {<<pad, button>>} ELSE held \ {<<pad, button>>}
            /\ IF pad = primary /\ (focus \/ ~goes_down)
               THEN Posts(Button(pad, button, goes_down)) ELSE UNCHANGED queue
    /\ UNCHANGED <<focus, plugged, fresh, Service>>

PlugIn ==
    /\ \E pad \in fresh :
         /\ plugged' = plugged \cup {pad} /\ fresh' = fresh \ {pad}
         /\ Posts([type |-> "added"])
    /\ UNCHANGED <<focus, held, Service>>

Unplug ==
    /\ \E pad \in plugged :
         /\ plugged' = plugged \ {pad}
         /\ held' = {h \in held : h[1] # pad}
         /\ Posts([type |-> "removed", pad |-> pad])
    /\ UNCHANGED <<focus, fresh, Service>>

ChangeFocus ==
    /\ focus' = ~focus
    /\ IF focus THEN Posts([type |-> "focus lost"]) ELSE UNCHANGED queue
    /\ UNCHANGED <<plugged, fresh, held, Service>>

\* Events that move no control: the mouse, and the screenshot key, a key repeat or a
\* request to quit.
OtherEvent ==
    /\ \E type \in {"motion", "other"} : Posts([type |-> type])
    /\ UNCHANGED <<focus, plugged, fresh, held, Service>>

-------------------------------------------------------------------------------
(* PumpEvents, one event at a time, and the end of the frame.              *)

PollControl(control, pressed) ==
    /\ tracker' = PushEvent(tracker, control, pressed)
    /\ lost' = IF Accepts(tracker) THEN lost \ {control} ELSE lost \cup {control}

\* A plausible error: the primary is exchanged and its controls stay as they are.
PollRemovedKeepingControls(event) ==
    /\ IF event.pad = primary THEN primary' \in OpenFirstAvailable(plugged)
       ELSE UNCHANGED primary
    /\ UNCHANGED <<tracker, lost>>

\* The removed primary is closed, its controls go up, and another pad takes over.
PollRemoved(event) ==
    IF event.pad = primary
    THEN /\ tracker' = ResetDevice(tracker, PadDevice)
         /\ lost' = {c \in lost : c[1] # PadDevice}
         /\ primary' \in OpenFirstAvailable(plugged)
    ELSE UNCHANGED <<tracker, primary, lost>>

PollEvent ==
    /\ queue # <<>>
    /\ queue' = Tail(queue)
    /\ LET event == Head(queue)
       IN    \/ /\ event.type = "key"
                /\ PollControl(event.control, event.pressed) /\ UNCHANGED primary
             \/ /\ event.type = "button" /\ event.pad = primary
                /\ PollControl(ControlOf(event.button), event.pressed) /\ UNCHANGED primary
             \/ /\ event.type = "removed" /\ PollRemoved(event)
             \/ /\ event.type = "added" /\ primary = NoPad
                /\ primary' \in OpenFirstAvailable(plugged)
                /\ UNCHANGED <<tracker, lost>>
             \/ /\ event.type = "focus lost"
                /\ tracker' = ClearPointerPosition(ResetAllControls(tracker))
                /\ lost' = {} /\ UNCHANGED primary
             \/ /\ event.type = "motion"
                /\ tracker' = SetPointerPosition(tracker, "somewhere")
                /\ UNCHANGED <<primary, lost>>
             \/ /\ \/ event.type = "other"
                   \/ event.type = "button" /\ event.pad # primary
                   \/ event.type = "added" /\ primary # NoPad
                /\ UNCHANGED <<tracker, primary, lost>>
    /\ UNCHANGED <<reported, focus, plugged, fresh, held>>

EndFrame ==
    /\ queue = <<>>
    /\ reported' = Snapshot(tracker).held /\ tracker' = AfterFrame(tracker)
    /\ UNCHANGED <<primary, lost, host>>

Next == MoveKey \/ MoveButton \/ PlugIn \/ Unplug \/ ChangeFocus \/ OtherEvent
            \/ PollEvent \/ EndFrame

Spec == Init /\ [][Next]_vars

-------------------------------------------------------------------------------
(* Properties.                                                             *)

\* The player still holds the control of the open pad, or the key.
PlayerHolds(control) ==
    IF control[1] = PadDevice THEN <<primary, control[2]>> \in held ELSE control \in held

\* An action is held by as many controls as are down and bound to it, and a control
\* stays down only while the player holds it on a key or on the pad that is the primary
\* now, unless the frame's budget rejected its last event: neither a removed pad nor a
\* lost focus leaves anything held, whatever was in the queue.
NothingStaysDown ==
    /\ \A a \in Actions :
          tracker.down_count[a] = Cardinality({c \in tracker.down : Bindings[c] = a})
    /\ queue = <<>> => \A c \in tracker.down : PlayerHolds(c) \/ c \in lost
    /\ (\E c \in tracker.down : c[1] = PadDevice) => primary # NoPad

\* The edges of a frame tell how its held actions differ from those of the frame before:
\* one edge alone is that change, none is no change, and both are a control that went up
\* and down in between, although events are rejected, pads vanish and the focus is lost.
EdgesTellChanges ==
    queue = <<>> =>
        LET snapshot == Snapshot(tracker)
        IN \A a \in Actions :
             LET before == a \in reported
                 after == a \in snapshot.held
                 pressed == a \in snapshot.pressed
                 released == a \in snapshot.released
             IN /\ pressed /\ ~released => ~before /\ after
                /\ released /\ ~pressed => before /\ ~after
                /\ ~pressed /\ ~released => before = after

===============================================================================
