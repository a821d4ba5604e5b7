----------------------------- MODULE SdlInputProofs -----------------------------
(***************************************************************************)
(* Proofs about SdlInput and the tracker it fills, for any bindings,       *)
(* any number of keys, pads and buttons, any budget of events per frame    *)
(* and any length of SDL's queue.                                          *)
(*                                                                         *)
(* The argument about controls looks into the queue: a control that the    *)
(* player does not hold is up, or its last event was rejected, or an event *)
(* that waits will take it up; and an event that presses it is followed by *)
(* one that takes it up again.                                             *)
(***************************************************************************)
EXTENDS SdlInput, FiniteSetTheorems, TLAPS

-------------------------------------------------------------------------------
(* The tracker.                                                            *)

Trackers == [down : SUBSET Bound, down_count : [Actions -> Nat],
             pressed : SUBSET Actions, released : SUBSET Actions,
             pointer : {"none", "somewhere"}, accepted : 0..MaxEventsPerFrame]

Holding(down, a) == {c \in down : Bindings[c] = a}

\* Each action is held by as many controls as its count says.
TrackerOK(t) ==
    /\ t \in Trackers
    /\ IsFiniteSet(t.down)
    /\ \A a \in Actions : t.down_count[a] = Cardinality(Holding(t.down, a))

\* The edges so far tell how the held actions differ from those held before.
EdgesTell(t, before) ==
    \A a \in Actions :
        /\ a \in t.pressed /\ a \notin t.released => a \notin before /\ t.down_count[a] > 0
        /\ a \in t.released /\ a \notin t.pressed => a \in before /\ t.down_count[a] = 0
        /\ a \notin t.pressed /\ a \notin t.released => (a \in before <=> t.down_count[a] > 0)

-------------------------------------------------------------------------------
(* The queue.                                                              *)

Controls == Keys \cup {ControlOf(b) : b \in Buttons}

Events ==
    [type : {"key"}, control : Keys, pressed : BOOLEAN]
        \cup [type : {"button"}, pad : Pads, button : Buttons, pressed : BOOLEAN]
        \cup [type : {"removed"}, pad : Pads]
        \cup [type : {"added", "focus lost", "motion", "other"}]

TypeOK ==
    /\ TrackerOK(tracker) /\ tracker.down \subseteq Controls
    /\ primary \in Pads \cup {NoPad} /\ reported \subseteq Actions
    /\ queue \in Seq(Events) /\ focus \in BOOLEAN
    /\ plugged \subseteq Pads /\ fresh \subseteq Pads

Speaks(event, c) ==
    \/ event.type = "key" /\ event.control = c
    \/ event.type = "button" /\ ControlOf(event.button) = c
Presses(event, c) == Speaks(event, c) /\ event.pressed
Drops(event, c, pad) ==      \* while `pad` is the primary
    \/ Speaks(event, c) /\ ~event.pressed
    \/ event.type = "removed" /\ event.pad = pad /\ c[1] = PadDevice
    \/ event.type = "focus lost"

\* The events of pads: buttons of the primary only, none after its removal, and a pad
\* whose removal waits is gone for good.
QueueOK ==
    /\ plugged \cap fresh = {}
    /\ \A i \in DOMAIN queue : queue[i].type = "button" => queue[i].pad = primary
    /\ \A i \in DOMAIN queue :
         queue[i].type = "removed" =>
            /\ queue[i].pad \notin plugged \cup fresh
            /\ queue[i].pad = primary =>
                  \A j \in DOMAIN queue : i < j => queue[j].type # "button"

\* The player holds the control, and SDL tells when that ends.
Kept(c) == PlayerHolds(c) /\ (c[1] # PadDevice => focus)

\* What holds the control now, and what presses it later, is undone by an event that waits.
GoesUp(c) ==
    /\ c \in tracker.down \ lost => \E j \in DOMAIN queue : Drops(queue[j], c, primary)
    /\ \A i \in DOMAIN queue :
         Presses(queue[i], c) => \E j \in DOMAIN queue : i < j /\ Drops(queue[j], c, primary)

ControlsSettle == \A c \in Controls : Kept(c) \/ GoesUp(c)

PadIsOpen == (\E c \in tracker.down : c[1] = PadDevice) => primary # NoPad

InputInvariant ==
    TypeOK /\ QueueOK /\ ControlsSettle /\ PadIsOpen /\ EdgesTell(tracker, reported)

-------------------------------------------------------------------------------
(* What the tracker's operators do.                                        *)

LEMMA HoldingIsFinite ==
    ASSUME NEW down, IsFiniteSet(down), NEW a
    PROVE  /\ IsFiniteSet(Holding(down, a)) /\ Cardinality(Holding(down, a)) \in Nat
           /\ Cardinality(Holding(down, a)) = 0 <=> Holding(down, a) = {}
<1>1. Holding(down, a) \in SUBSET down
  BY DEF Holding
<1>2. IsFiniteSet(Holding(down, a))
  BY <1>1, FS_Subset
<1> QED
  BY <1>2, FS_CardinalityType, FS_EmptySet

\* The control that goes down, among those that hold an action.
LEMMA HoldingAdd ==
    ASSUME NEW down, IsFiniteSet(down), NEW c, c \notin down, NEW a
    PROVE  Cardinality(Holding(down \cup {c}, a)) =
              IF Bindings[c] = a THEN Cardinality(Holding(down, a)) + 1
              ELSE Cardinality(Holding(down, a))
<1>1. CASE Bindings[c] = a
  <2>1. Holding(down \cup {c}, a) = Holding(down, a) \cup {c}
    BY <1>1 DEF Holding
  <2>2. c \notin Holding(down, a)
    BY DEF Holding
  <2> QED
    BY <1>1, <2>1, <2>2, HoldingIsFinite, FS_AddElement
<1>2. CASE Bindings[c] # a
  <2>1. Holding(down \cup {c}, a) = Holding(down, a)
    BY <1>2 DEF Holding
  <2> QED
    BY <1>2, <2>1
<1> QED
  BY <1>1, <1>2

LEMMA HoldingRemove ==
    ASSUME NEW down, IsFiniteSet(down), NEW c \in down, NEW a
    PROVE  Cardinality(Holding(down \ {c}, a)) =
              IF Bindings[c] = a THEN Cardinality(Holding(down, a)) - 1
              ELSE Cardinality(Holding(down, a))
<1>1. CASE Bindings[c] = a
  <2>1. Holding(down \ {c}, a) = Holding(down, a) \ {c}
    BY <1>1 DEF Holding
  <2>2. c \in Holding(down, a)
    BY <1>1 DEF Holding
  <2> QED
    BY <1>1, <2>1, <2>2, HoldingIsFinite, FS_RemoveElement
<1>2. CASE Bindings[c] # a
  <2>1. Holding(down \ {c}, a) = Holding(down, a)
    BY <1>2 DEF Holding
  <2> QED
    BY <1>2, <2>1
<1> QED
  BY <1>1, <1>2

LEMMA PressKeeps ==
    ASSUME NEW t, TrackerOK(t), NEW c \in Bound, c \notin t.down,
           NEW before, EdgesTell(t, before)
    PROVE  /\ TrackerOK(Press(t, c)) /\ EdgesTell(Press(t, c), before)
           /\ Press(t, c).down = t.down \cup {c}
<1> DEFINE new == Press(t, c)
           action == Bindings[c]
<1>1. action \in Actions
  BY DEF Actions
<1>2. t \in Trackers /\ IsFiniteSet(t.down)
  BY DEF TrackerOK
<1>3. /\ t.down \subseteq Bound /\ t.pressed \subseteq Actions /\ t.released \subseteq Actions
      /\ t.down_count \in [Actions -> Nat] /\ t.pointer \in {"none", "somewhere"}
      /\ t.accepted \in 0..MaxEventsPerFrame
  BY <1>2 DEF Trackers
<1>4. /\ new = [t EXCEPT !.down = t.down \cup {c},
                         !.pressed = IF t.down_count[action] = 0 THEN t.pressed \cup {action}
                                     ELSE t.pressed,
                         !.down_count =
                            [t.down_count EXCEPT ![action] = t.down_count[action] + 1]]
  BY DEF Press
<1> DEFINE count == [t.down_count EXCEPT ![action] = t.down_count[action] + 1]
<1>5. /\ count \in [Actions -> Nat] /\ count[action] = t.down_count[action] + 1
      /\ \A a \in Actions : a # action => count[a] = t.down_count[a]
  BY <1>1, <1>3
<1>6. /\ new.down = t.down \cup {c} /\ new.released = t.released /\ new.down_count = count
      /\ new.pressed = IF t.down_count[action] = 0 THEN t.pressed \cup {action} ELSE t.pressed
      /\ new \in Trackers
  <2>1. new = [t EXCEPT !.down = t.down \cup {c},
                        !.pressed = IF t.down_count[action] = 0 THEN t.pressed \cup {action}
                                    ELSE t.pressed,
                        !.down_count = count]
    BY <1>4
  <2> HIDE DEF new, count
  <2> QED
    BY <1>1, <1>2, <1>3, <1>5, <2>1 DEF Trackers
<1> HIDE DEF new, count
<1>7. IsFiniteSet(new.down)
  BY <1>2, <1>6, FS_AddElement
<1>8. \A a \in Actions : new.down_count[a] = Cardinality(Holding(new.down, a))
  <2> SUFFICES ASSUME NEW a \in Actions
               PROVE  new.down_count[a] = Cardinality(Holding(new.down, a))
    OBVIOUS
  <2>1. t.down_count[a] = Cardinality(Holding(t.down, a))
    BY DEF TrackerOK
  <2>2. Cardinality(Holding(new.down, a)) =
           IF action = a THEN Cardinality(Holding(t.down, a)) + 1
           ELSE Cardinality(Holding(t.down, a))
    BY <1>2, <1>6, HoldingAdd
  <2> QED
    BY <1>5, <1>6, <2>1, <2>2
<1>9. EdgesTell(new, before)
  <2> SUFFICES ASSUME NEW a \in Actions
               PROVE  /\ a \in new.pressed /\ a \notin new.released
                            => a \notin before /\ new.down_count[a] > 0
                      /\ a \in new.released /\ a \notin new.pressed
                            => a \in before /\ new.down_count[a] = 0
                      /\ a \notin new.pressed /\ a \notin new.released
                            => (a \in before <=> new.down_count[a] > 0)
    BY DEF EdgesTell
  <2>1. t.down_count[a] \in Nat
    BY <1>3
  <2>2. /\ a \in t.pressed /\ a \notin t.released => a \notin before /\ t.down_count[a] > 0
        /\ a \in t.released /\ a \notin t.pressed => a \in before /\ t.down_count[a] = 0
        /\ a \notin t.pressed /\ a \notin t.released => (a \in before <=> t.down_count[a] > 0)
    BY DEF EdgesTell
  <2>3. CASE a # action
    BY <1>5, <1>6, <2>2, <2>3
  <2>4. CASE a = action /\ t.down_count[a] = 0
    BY <1>5, <1>6, <2>2, <2>4
  <2>5. CASE a = action /\ t.down_count[a] # 0
    BY <1>5, <1>6, <2>1, <2>2, <2>5
  <2> QED
    BY <2>3, <2>4, <2>5
<1> QED
  BY <1>6, <1>7, <1>8, <1>9 DEF TrackerOK, new

LEMMA ReleaseKeeps ==
    ASSUME NEW t, TrackerOK(t), NEW c \in t.down, NEW before, EdgesTell(t, before)
    PROVE  /\ TrackerOK(Release(t, c)) /\ EdgesTell(Release(t, c), before)
           /\ Release(t, c).down = t.down \ {c}
<1> DEFINE new == Release(t, c)
           action == Bindings[c]
           count == [t.down_count EXCEPT ![action] = t.down_count[action] - 1]
<1>1. t \in Trackers /\ IsFiniteSet(t.down)
  BY DEF TrackerOK
<1>2. /\ t.down \subseteq Bound /\ t.pressed \subseteq Actions /\ t.released \subseteq Actions
      /\ t.down_count \in [Actions -> Nat] /\ t.pointer \in {"none", "somewhere"}
      /\ t.accepted \in 0..MaxEventsPerFrame
  BY <1>1 DEF Trackers
<1>3. action \in Actions
  BY <1>2 DEF Actions
<1>4. t.down_count[action] \in Nat \ {0}
  <2>1. c \in Holding(t.down, action)
    BY DEF Holding
  <2> QED
    BY <1>1, <1>3, <2>1, HoldingIsFinite DEF TrackerOK
<1>5. /\ count \in [Actions -> Nat] /\ count[action] = t.down_count[action] - 1
      /\ \A a \in Actions : a # action => count[a] = t.down_count[a]
  BY <1>2, <1>3, <1>4
<1>6. new = [t EXCEPT !.down = t.down \ {c},
                      !.released = IF t.down_count[action] = 1 THEN t.released \cup {action}
                                   ELSE t.released,
                      !.down_count = count]
  BY DEF Release
<1>7. /\ new.down = t.down \ {c} /\ new.pressed = t.pressed /\ new.down_count = count
      /\ new.released = IF t.down_count[action] = 1 THEN t.released \cup {action}
                        ELSE t.released
      /\ new \in Trackers
  <2> HIDE DEF count, new
  <2> QED
    BY <1>1, <1>2, <1>3, <1>5, <1>6 DEF Trackers
<1> HIDE DEF new, count
<1>8. IsFiniteSet(new.down)
  BY <1>1, <1>7, FS_RemoveElement
<1>9. \A a \in Actions : new.down_count[a] = Cardinality(Holding(new.down, a))
  <2> SUFFICES ASSUME NEW a \in Actions
               PROVE  new.down_count[a] = Cardinality(Holding(new.down, a))
    OBVIOUS
  <2>1. t.down_count[a] = Cardinality(Holding(t.down, a))
    BY DEF TrackerOK
  <2>2. Cardinality(Holding(new.down, a)) =
           IF action = a THEN Cardinality(Holding(t.down, a)) - 1
           ELSE Cardinality(Holding(t.down, a))
    BY <1>1, <1>7, HoldingRemove
  <2> QED
    BY <1>5, <1>7, <2>1, <2>2
<1>10. EdgesTell(new, before)
  <2> SUFFICES ASSUME NEW a \in Actions
               PROVE  /\ a \in new.pressed /\ a \notin new.released
                            => a \notin before /\ new.down_count[a] > 0
                      /\ a \in new.released /\ a \notin new.pressed
                            => a \in before /\ new.down_count[a] = 0
                      /\ a \notin new.pressed /\ a \notin new.released
                            => (a \in before <=> new.down_count[a] > 0)
    BY DEF EdgesTell
  <2>2. /\ a \in t.pressed /\ a \notin t.released => a \notin before /\ t.down_count[a] > 0
        /\ a \in t.released /\ a \notin t.pressed => a \in before /\ t.down_count[a] = 0
        /\ a \notin t.pressed /\ a \notin t.released => (a \in before <=> t.down_count[a] > 0)
    BY DEF EdgesTell
  <2>3. CASE a # action
    BY <1>5, <1>7, <2>2, <2>3
  <2>4. CASE a = action /\ t.down_count[a] = 1
    BY <1>5, <1>7, <2>2, <2>4
  <2>5. CASE a = action /\ t.down_count[a] # 1
    BY <1>4, <1>5, <1>7, <2>2, <2>5
  <2> QED
    BY <2>3, <2>4, <2>5
<1> QED
  BY <1>7, <1>8, <1>9, <1>10 DEF TrackerOK, new

\* An event of a control: what goes down, and what goes up.
LEMMA PushKeeps ==
    ASSUME NEW t, TrackerOK(t), NEW c, NEW pressed \in BOOLEAN, NEW before,
           EdgesTell(t, before)
    PROVE  LET new == PushEvent(t, c, pressed)
           IN  /\ TrackerOK(new) /\ EdgesTell(new, before)
               /\ new.down \subseteq t.down \cup {c}
               /\ Accepts(t) /\ ~pressed => c \notin new.down
               /\ ~Accepts(t) => new = t
<1> DEFINE u == [t EXCEPT !.accepted = t.accepted + 1]
           new == PushEvent(t, c, pressed)
<1>1. t \in Trackers
  BY DEF TrackerOK
<1>2. CASE ~Accepts(t)
  <2>1. new = t
    BY <1>2 DEF PushEvent
  <2> QED
    BY <1>2, <2>1
<1>3. CASE Accepts(t)
  <2>1. /\ u \in Trackers /\ u.down = t.down /\ u.down_count = t.down_count
        /\ u.pressed = t.pressed /\ u.released = t.released
    BY <1>1, <1>3, BoundsAssumption DEF Trackers, Accepts
  <2> HIDE DEF u
  <2>2. TrackerOK(u) /\ EdgesTell(u, before)
    BY <2>1 DEF TrackerOK, EdgesTell
  <2>3. CASE c \in Bound /\ pressed /\ c \notin t.down
    <3>1. new = Press(u, c)
      BY <1>3, <2>3 DEF PushEvent, u
    <3>2. /\ TrackerOK(Press(u, c)) /\ EdgesTell(Press(u, c), before)
          /\ Press(u, c).down = u.down \cup {c}
      BY <2>1, <2>2, <2>3, PressKeeps
    <3> HIDE DEF new
    <3>3. TrackerOK(new) /\ EdgesTell(new, before) /\ new.down = t.down \cup {c}
      BY <2>1, <3>1, <3>2
    <3> QED
      BY <1>3, <2>3, <3>3 DEF new
  <2>4. CASE c \in t.down /\ ~pressed
    <3>1. new = Release(u, c)
      BY <1>3, <2>4 DEF PushEvent, u
    <3> QED
      BY <1>3, <2>1, <2>2, <2>4, <3>1, ReleaseKeeps
  <2>5. CASE /\ ~(c \in Bound /\ pressed /\ c \notin t.down)
             /\ ~(c \in t.down /\ ~pressed)
    <3>1. new = u
      BY <1>3, <2>5 DEF PushEvent, u
    <3> QED
      BY <1>3, <2>1, <2>2, <2>5, <3>1
  <2> QED
    BY <2>3, <2>4, <2>5
<1> QED
  BY <1>2, <1>3

LEMMA ResetDeviceKeeps ==
    ASSUME NEW t, TrackerOK(t), NEW device, NEW before, EdgesTell(t, before)
    PROVE  LET new == ResetDevice(t, device)
           IN  /\ TrackerOK(new) /\ EdgesTell(new, before)
               /\ new.down = {c \in t.down : c[1] # device}
<1> DEFINE new == ResetDevice(t, device)
           gone == {c \in t.down : c[1] = device}
           left == [a \in Actions |-> t.down_count[a] - Cardinality(Holding(gone, a))]
<1>1. t \in Trackers /\ IsFiniteSet(t.down)
  BY DEF TrackerOK
<1>2. /\ t.down \subseteq Bound /\ t.pressed \subseteq Actions /\ t.released \subseteq Actions
      /\ t.down_count \in [Actions -> Nat] /\ t.pointer \in {"none", "somewhere"}
      /\ t.accepted \in 0..MaxEventsPerFrame
  BY <1>1 DEF Trackers
<1>3. \A a \in Actions : left[a] = Cardinality(Holding(t.down \ gone, a)) /\ left[a] \in Nat
  <2> SUFFICES ASSUME NEW a \in Actions
               PROVE  left[a] = Cardinality(Holding(t.down \ gone, a)) /\ left[a] \in Nat
    OBVIOUS
  <2>1. Holding(t.down \ gone, a) = Holding(t.down, a) \ Holding(gone, a)
    BY DEF Holding
  <2>2. Holding(t.down, a) \cap Holding(gone, a) = Holding(gone, a)
    BY DEF Holding
  <2>3. IsFiniteSet(Holding(t.down, a)) /\ IsFiniteSet(t.down \ gone)
    BY <1>1, HoldingIsFinite, FS_Difference
  <2>4. Cardinality(Holding(t.down, a) \ Holding(gone, a)) =
           Cardinality(Holding(t.down, a)) - Cardinality(Holding(gone, a))
    BY <2>2, <2>3, FS_Difference
  <2>5. Cardinality(Holding(t.down \ gone, a)) \in Nat
    BY <2>3, HoldingIsFinite
  <2>6. left[a] = Cardinality(Holding(t.down, a)) - Cardinality(Holding(gone, a))
    BY DEF TrackerOK
  <2> QED
    BY <2>1, <2>4, <2>5, <2>6
<1>4. left = [a \in Actions |-> left[a]]
  OBVIOUS
<1>5. new = [t EXCEPT !.down = t.down \ gone, !.down_count = left,
                      !.released = t.released
                          \cup {a \in Actions : t.down_count[a] > 0 /\ left[a] = 0}]
  BY DEF ResetDevice, Holding
<1> HIDE DEF left, new
<1>6. left \in [Actions -> Nat]
  BY <1>3, <1>4
<1>7. /\ new.down = t.down \ gone /\ new.down_count = left /\ new.pressed = t.pressed
      /\ new.released = t.released \cup {a \in Actions : t.down_count[a] > 0 /\ left[a] = 0}
      /\ new \in Trackers
  <2> DEFINE up == {a \in Actions : t.down_count[a] > 0 /\ left[a] = 0}
  <2>1. up \subseteq Actions /\ t.down \ gone \subseteq Bound
    BY <1>2
  <2>2. new = [t EXCEPT !.down = t.down \ gone, !.down_count = left,
                        !.released = t.released \cup up]
    BY <1>5
  <2> HIDE DEF up, gone
  <2>3. /\ new.down = t.down \ gone /\ new.down_count = left /\ new.pressed = t.pressed
        /\ new.released = t.released \cup up /\ new \in Trackers
    BY <1>1, <1>2, <1>6, <2>1, <2>2 DEF Trackers
  <2> QED
    BY <2>3 DEF up, gone
<1>8. IsFiniteSet(new.down)
  <2> HIDE DEF gone
  <2>1. IsFiniteSet(t.down \ gone)
    BY <1>1, FS_Difference
  <2>2. new.down = t.down \ gone
    BY <1>7
  <2> QED
    BY <2>1, <2>2, Zenon
<1>9. \A a \in Actions : left[a] > 0 => t.down_count[a] > 0
  <2> SUFFICES ASSUME NEW a \in Actions, left[a] > 0 PROVE t.down_count[a] > 0
    OBVIOUS
  <2> HIDE DEF gone
  <2>1. IsFiniteSet(t.down \ gone)
    BY <1>1, FS_Difference
  <2>6. Cardinality(Holding(t.down \ gone, a)) # 0
    BY <1>3
  <2>2. Holding(t.down \ gone, a) # {}
    BY <2>1, <2>6, HoldingIsFinite
  <2>3. Holding(t.down, a) # {}
    BY <2>2 DEF Holding, gone
  <2>4. Cardinality(Holding(t.down, a)) # 0
    BY <1>1, <2>3, HoldingIsFinite
  <2>5. t.down_count[a] # 0 /\ t.down_count[a] \in Nat
    BY <1>2, <2>4 DEF TrackerOK
  <2> QED
    BY <2>5
<1>10. EdgesTell(new, before)
  <2> SUFFICES ASSUME NEW a \in Actions
               PROVE  /\ a \in new.pressed /\ a \notin new.released
                            => a \notin before /\ new.down_count[a] > 0
                      /\ a \in new.released /\ a \notin new.pressed
                            => a \in before /\ new.down_count[a] = 0
                      /\ a \notin new.pressed /\ a \notin new.released
                            => (a \in before <=> new.down_count[a] > 0)
    BY DEF EdgesTell
  <2>1. /\ a \in t.pressed /\ a \notin t.released => a \notin before /\ t.down_count[a] > 0
        /\ a \in t.released /\ a \notin t.pressed => a \in before /\ t.down_count[a] = 0
        /\ a \notin t.pressed /\ a \notin t.released => (a \in before <=> t.down_count[a] > 0)
    BY DEF EdgesTell
  <2>2. t.down_count[a] \in Nat /\ left[a] \in Nat
    BY <1>2, <1>3
  <2>3. CASE t.down_count[a] > 0 /\ left[a] = 0
    BY <1>7, <2>1, <2>3
  <2>4. CASE t.down_count[a] = 0
    BY <1>7, <1>9, <2>1, <2>2, <2>4
  <2>5. CASE left[a] > 0
    BY <1>7, <1>9, <2>1, <2>2, <2>5
  <2> QED
    BY <2>2, <2>3, <2>4, <2>5
<1>11. new.down = {c \in t.down : c[1] # device}
  BY <1>7
<1> QED
  BY <1>3, <1>7, <1>8, <1>10, <1>11 DEF TrackerOK, new

LEMMA ResetAllKeeps ==
    ASSUME NEW t, TrackerOK(t), NEW before, EdgesTell(t, before)
    PROVE  LET new == ClearPointerPosition(ResetAllControls(t))
           IN  TrackerOK(new) /\ EdgesTell(new, before) /\ new.down = {}
<1> DEFINE new == ClearPointerPosition(ResetAllControls(t))
<1>1. t \in Trackers
  BY DEF TrackerOK
<1>2. /\ t.pressed \subseteq Actions /\ t.released \subseteq Actions
      /\ t.down_count \in [Actions -> Nat]
  BY <1>1 DEF Trackers
<1>3. /\ new.down = {} /\ new.down_count = [a \in Actions |-> 0] /\ new.pressed = t.pressed
      /\ new.released = t.released \cup {a \in Actions : t.down_count[a] > 0}
      /\ new \in Trackers
  BY <1>1, <1>2 DEF Trackers, ClearPointerPosition, ResetAllControls
<1> HIDE DEF new
<1>4. \A a \in Actions : new.down_count[a] = Cardinality(Holding(new.down, a))
  <2>1. \A a : Holding(new.down, a) = {}
    BY <1>3 DEF Holding
  <2> QED
    BY <1>3, <2>1, FS_EmptySet
<1>5. EdgesTell(new, before)
  <2> SUFFICES ASSUME NEW a \in Actions
               PROVE  /\ a \in new.pressed /\ a \notin new.released
                            => a \notin before /\ new.down_count[a] > 0
                      /\ a \in new.released /\ a \notin new.pressed
                            => a \in before /\ new.down_count[a] = 0
                      /\ a \notin new.pressed /\ a \notin new.released
                            => (a \in before <=> new.down_count[a] > 0)
    BY DEF EdgesTell
  <2>1. /\ a \in t.pressed /\ a \notin t.released => a \notin before /\ t.down_count[a] > 0
        /\ a \in t.released /\ a \notin t.pressed => a \in before /\ t.down_count[a] = 0
        /\ a \notin t.pressed /\ a \notin t.released => (a \in before <=> t.down_count[a] > 0)
    BY DEF EdgesTell
  <2>2. t.down_count[a] \in Nat /\ new.down_count[a] = 0
    BY <1>2, <1>3
  <2>3. CASE t.down_count[a] > 0
    BY <1>3, <2>1, <2>2, <2>3
  <2>4. CASE t.down_count[a] = 0
    BY <1>3, <2>1, <2>2, <2>4
  <2> QED
    BY <2>2, <2>3, <2>4
<1> QED
  BY <1>3, <1>4, <1>5, FS_EmptySet DEF TrackerOK, new

LEMMA PointerKeeps ==
    ASSUME NEW t, TrackerOK(t), NEW before, EdgesTell(t, before)
    PROVE  LET new == SetPointerPosition(t, "somewhere")
           IN  TrackerOK(new) /\ EdgesTell(new, before) /\ new.down = t.down
<1> DEFINE new == SetPointerPosition(t, "somewhere")
<1>1. /\ new.down = t.down /\ new.down_count = t.down_count /\ new.pressed = t.pressed
      /\ new.released = t.released /\ new \in Trackers
  BY DEF Trackers, TrackerOK, SetPointerPosition
<1> HIDE DEF new
<1>2. TrackerOK(new) /\ EdgesTell(new, before)
  BY <1>1 DEF TrackerOK, EdgesTell
<1> QED
  BY <1>1, <1>2 DEF new

\* The frame that ends is the one the next edges are told against.
LEMMA FrameKeeps ==
    ASSUME NEW t, TrackerOK(t)
    PROVE  LET new == AfterFrame(t)
           IN  /\ TrackerOK(new) /\ EdgesTell(new, Snapshot(t).held) /\ new.down = t.down
               /\ Snapshot(t).held \subseteq Actions
<1> DEFINE new == AfterFrame(t)
<1>1. /\ new.down = t.down /\ new.down_count = t.down_count /\ new.pressed = {}
      /\ new.released = {} /\ new \in Trackers
  <2>1. t \in Trackers
    BY DEF TrackerOK
  <2>2. 0 \in 0..MaxEventsPerFrame
    BY BoundsAssumption
  <2> QED
    BY <2>1, <2>2 DEF Trackers, AfterFrame
<1>2. Snapshot(t).held = {a \in Actions : t.down_count[a] > 0}
  BY DEF Snapshot
<1> HIDE DEF new
<1>3. TrackerOK(new) /\ EdgesTell(new, Snapshot(t).held)
  BY <1>1, <1>2 DEF TrackerOK, EdgesTell
<1> QED
  BY <1>1, <1>2, <1>3 DEF new

-------------------------------------------------------------------------------
(* Events that arrive and events that are taken.                           *)

LEMMA TailFacts ==
    ASSUME TypeOK, queue # <<>>, queue' = Tail(queue)
    PROVE  /\ Head(queue) \in Events /\ Head(queue) = queue[1] /\ 1 \in DOMAIN queue
           /\ queue' \in Seq(Events) /\ DOMAIN queue' = 1..(Len(queue) - 1)
           /\ \A j \in DOMAIN queue' : j + 1 \in DOMAIN queue /\ queue'[j] = queue[j + 1]
           /\ \A j \in DOMAIN queue : j # 1 => j - 1 \in DOMAIN queue' /\ queue[j] = queue'[j - 1]
<1>1. queue \in Seq(Events)
  BY DEF TypeOK
<1> QED
  BY <1>1

LEMMA AppendFacts ==
    ASSUME TypeOK, NEW e \in Events, queue' = Append(queue, e)
    PROVE  /\ queue' \in Seq(Events) /\ Len(queue) \in Nat
           /\ DOMAIN queue = 1..Len(queue) /\ DOMAIN queue' = 1..(Len(queue) + 1)
           /\ \A j \in DOMAIN queue : queue'[j] = queue[j]
           /\ queue'[Len(queue) + 1] = e
<1>1. queue \in Seq(Events)
  BY DEF TypeOK
<1> QED
  BY <1>1

\* A control that stops being kept is dropped by the event that arrives.
LEMMA AppendSettles ==
    ASSUME TypeOK, NEW e \in Events, queue' = Append(queue, e),
           UNCHANGED <<tracker, lost, primary>>,
           NEW c, Kept(c) \/ GoesUp(c),
           Drops(e, c, primary) \/ (Kept(c) => Kept(c)'),
           Presses(e, c) => Kept(c)'
    PROVE  Kept(c)' \/ GoesUp(c)'
<1>1. /\ Len(queue) \in Nat
      /\ DOMAIN queue = 1..Len(queue) /\ DOMAIN queue' = 1..(Len(queue) + 1)
      /\ \A j \in DOMAIN queue : queue'[j] = queue[j]
      /\ queue'[Len(queue) + 1] = e
  BY AppendFacts
<1>2. tracker' = tracker /\ lost' = lost /\ primary' = primary
  OBVIOUS
<1>3. ASSUME ~Kept(c)' PROVE GoesUp(c)'
  <2>1. ~Presses(e, c)
    BY <1>3
  <2>2. CASE Drops(e, c, primary)
    <3>1. Len(queue) + 1 \in DOMAIN queue'
      BY <1>1
    <3>2. Drops(queue'[Len(queue) + 1], c, primary')
      BY <1>1, <1>2, <2>2, Zenon
    <3>3. \A i \in DOMAIN queue' : Presses(queue'[i], c) => i < Len(queue) + 1
      BY <1>1, <2>1 DEF Presses, Speaks
    <3> QED
      BY <3>1, <3>2, <3>3 DEF GoesUp
  <2>3. CASE ~Drops(e, c, primary)
    <3>1. GoesUp(c)
      BY <1>3, <2>3
    <3>2. \A j \in DOMAIN queue : j \in DOMAIN queue' /\ queue'[j] = queue[j]
      BY <1>1
    <3>3. \A j \in DOMAIN queue : Drops(queue[j], c, primary) => Drops(queue'[j], c, primary')
      BY <1>2, <3>2 DEF Drops, Speaks
    <3>4. \A i \in DOMAIN queue' :
             Presses(queue'[i], c) => i \in DOMAIN queue /\ Presses(queue[i], c)
      BY <1>1, <2>1 DEF Presses, Speaks
    <3> QED
      BY <1>2, <3>1, <3>2, <3>3, <3>4 DEF GoesUp
  <2> QED
    BY <2>2, <2>3
<1> QED
  BY <1>3

\* A control that is down after the event was down before, or pressed by the event.
LEMMA TailSettles ==
    ASSUME TypeOK, queue # <<>>, queue' = Tail(queue), UNCHANGED <<held, focus>>,
           NEW c, Kept(c) \/ GoesUp(c),
           primary' = primary \/ c[1] # PadDevice,
           c \in tracker'.down \ lost' =>
              \/ c \in tracker.down \ lost /\ ~Drops(Head(queue), c, primary)
              \/ Presses(Head(queue), c)
    PROVE  Kept(c)' \/ GoesUp(c)'
<1>1. /\ Head(queue) = queue[1] /\ 1 \in DOMAIN queue
      /\ \A j \in DOMAIN queue' : j + 1 \in DOMAIN queue /\ queue'[j] = queue[j + 1]
      /\ \A j \in DOMAIN queue : j # 1 => j - 1 \in DOMAIN queue' /\ queue[j] = queue'[j - 1]
  BY TailFacts
<1>2. DOMAIN queue \subseteq Nat /\ DOMAIN queue' \subseteq Nat
  BY TailFacts DEF TypeOK
<1>3. Kept(c)' <=> Kept(c)
  BY DEF Kept, PlayerHolds
<1>4. ASSUME GoesUp(c) PROVE GoesUp(c)'
  <2>1. \A j \in DOMAIN queue : j # 1 /\ Drops(queue[j], c, primary) => Drops(queue'[j - 1], c, primary')
    BY <1>1 DEF Drops, Speaks
  <2>2. \A i \in DOMAIN queue' : Presses(queue'[i], c) => Presses(queue[i + 1], c)
    BY <1>1 DEF Presses, Speaks
  <2>3. \A i \in DOMAIN queue' :
          Presses(queue'[i], c) => \E j \in DOMAIN queue' : i < j /\ Drops(queue'[j], c, primary')
    <3> SUFFICES ASSUME NEW i \in DOMAIN queue', Presses(queue'[i], c)
                 PROVE  \E j \in DOMAIN queue' : i < j /\ Drops(queue'[j], c, primary')
      OBVIOUS
    <3>1. i + 1 \in DOMAIN queue /\ Presses(queue[i + 1], c)
      BY <1>1, <2>2
    <3>2. PICK j \in DOMAIN queue : i + 1 < j /\ Drops(queue[j], c, primary)
      BY <1>4, <3>1 DEF GoesUp
    <3>3. j # 1 /\ i < j - 1 /\ j - 1 \in DOMAIN queue'
      BY <1>1, <1>2, <3>2
    <3> QED
      BY <2>1, <3>2, <3>3
  <2>4. ASSUME c \in tracker'.down \ lost'
        PROVE  \E j \in DOMAIN queue' : Drops(queue'[j], c, primary')
    <3>1. CASE Presses(Head(queue), c)
      <4>1. PICK j \in DOMAIN queue : 1 < j /\ Drops(queue[j], c, primary)
        BY <1>1, <1>4, <3>1 DEF GoesUp
      <4> QED
        BY <1>1, <1>2, <2>1, <4>1
    <3>2. CASE c \in tracker.down \ lost /\ ~Drops(Head(queue), c, primary)
      <4>1. PICK j \in DOMAIN queue : Drops(queue[j], c, primary)
        BY <1>4, <3>2 DEF GoesUp
      <4>2. j # 1
        BY <1>1, <3>2, <4>1
      <4> QED
        BY <1>1, <2>1, <4>1, <4>2
    <3> QED
      BY <2>4, <3>1, <3>2
  <2> QED
    BY <2>3, <2>4 DEF GoesUp
<1> QED
  BY <1>3, <1>4

LEMMA AppendQueueOK ==
    ASSUME TypeOK, QueueOK, NEW e \in Events, queue' = Append(queue, e), primary' = primary,
           plugged' \cap fresh' = {}, plugged' \cup fresh' \subseteq plugged \cup fresh,
           e.type = "button" => e.pad = primary /\ primary \in plugged,
           e.type = "removed" => e.pad \notin plugged' \cup fresh'
    PROVE  QueueOK'
<1>1. /\ Len(queue) \in Nat
      /\ DOMAIN queue = 1..Len(queue) /\ DOMAIN queue' = 1..(Len(queue) + 1)
      /\ \A j \in DOMAIN queue : queue'[j] = queue[j]
      /\ queue'[Len(queue) + 1] = e
  BY AppendFacts
<1>2. \A i \in DOMAIN queue' : i \in DOMAIN queue \/ (i = Len(queue) + 1 /\ queue'[i] = e)
  BY <1>1
<1>3. \A i \in DOMAIN queue' : queue'[i].type = "button" => queue'[i].pad = primary'
  BY <1>1, <1>2 DEF QueueOK
<1>4. ASSUME NEW i \in DOMAIN queue', queue'[i].type = "removed"
      PROVE  /\ queue'[i].pad \notin plugged' \cup fresh'
             /\ queue'[i].pad = primary' =>
                   \A j \in DOMAIN queue' : i < j => queue'[j].type # "button"
  <2>1. CASE i = Len(queue) + 1 /\ queue'[i] = e
    <3>1. \A j \in DOMAIN queue' : ~(i < j)
      BY <1>1, <2>1
    <3> QED
      BY <1>4, <2>1, <3>1
  <2>2. CASE i \in DOMAIN queue
    <3>1. queue[i].type = "removed" /\ queue'[i].pad = queue[i].pad
      BY <1>1, <1>4, <2>2
    <3>2. /\ queue[i].pad \notin plugged \cup fresh
          /\ queue[i].pad = primary =>
                \A j \in DOMAIN queue : i < j => queue[j].type # "button"
      BY <2>2, <3>1 DEF QueueOK
    <3>3. queue[i].pad = primary => e.type # "button"
      BY <3>2
    <3> QED
      BY <1>1, <1>2, <3>1, <3>2, <3>3
  <2> QED
    BY <1>2, <2>1, <2>2
<1> QED
  BY <1>3, <1>4 DEF QueueOK

LEMMA TailQueueOK ==
    ASSUME TypeOK, QueueOK, queue # <<>>, queue' = Tail(queue), UNCHANGED <<plugged, fresh>>,
           \/ primary' = primary
           \/ /\ primary' \in OpenFirstAvailable(plugged)
              /\ \A j \in DOMAIN queue : j # 1 => queue[j].type # "button"
    PROVE  QueueOK'
<1>1. /\ \A j \in DOMAIN queue' : j + 1 \in DOMAIN queue /\ queue'[j] = queue[j + 1]
      /\ DOMAIN queue' = 1..(Len(queue) - 1) /\ queue' \in Seq(Events)
  BY TailFacts
<1>2. \A j \in DOMAIN queue' : j \in Nat /\ j # 0 /\ queue'[j] \in Events
  BY <1>1
<1>3. ASSUME NEW i \in DOMAIN queue', queue'[i].type = "button"
      PROVE  queue'[i].pad = primary'
  <2>1. i + 1 \in DOMAIN queue /\ i + 1 # 1 /\ queue[i + 1].type = "button"
    BY <1>1, <1>2, <1>3
  <2> QED
    BY <1>1, <2>1 DEF QueueOK
<1>4. ASSUME NEW i \in DOMAIN queue', queue'[i].type = "removed"
      PROVE  /\ queue'[i].pad \notin plugged' \cup fresh'
             /\ queue'[i].pad = primary' =>
                   \A j \in DOMAIN queue' : i < j => queue'[j].type # "button"
  <2>1. i + 1 \in DOMAIN queue /\ queue'[i] = queue[i + 1]
    BY <1>1
  <2>2. /\ queue[i + 1].pad \notin plugged \cup fresh
        /\ queue[i + 1].pad = primary =>
              \A j \in DOMAIN queue : i + 1 < j => queue[j].type # "button"
    BY <1>4, <2>1 DEF QueueOK
  <2>3. ASSUME queue'[i].pad = primary', NEW j \in DOMAIN queue', i < j
        PROVE  queue'[j].type # "button"
    <3>1. j + 1 \in DOMAIN queue /\ i + 1 < j + 1 /\ j + 1 # 1 /\ queue'[j] = queue[j + 1]
      BY <1>1, <1>2, <2>3
    <3> QED
      BY <2>1, <2>2, <2>3, <3>1
  <2> QED
    BY <2>1, <2>2, <2>3
<1> QED
  BY <1>3, <1>4 DEF QueueOK

-------------------------------------------------------------------------------
(* The player and SDL.                                                     *)

LEMMA ControlKinds ==
    ASSUME NEW c \in Controls
    PROVE  \/ c \in Keys /\ c[1] \notin Pads \cup {NoPad, PadDevice}
           \/ \E b \in Buttons : c = ControlOf(b) /\ c[1] = PadDevice /\ c[2] = b
BY ControlAssumption DEF Controls, ControlOf

\* A button that waits is one of the primary, so there is none without it.
LEMMA ButtonHasPad ==
    ASSUME TypeOK, QueueOK, primary = NoPad
    PROVE  \A j \in DOMAIN queue : queue[j].type # "button"
<1> SUFFICES ASSUME NEW j \in DOMAIN queue, queue[j].type = "button" PROVE FALSE
  OBVIOUS
<1>1. queue[j] \in Events
  BY DEF TypeOK
<1>2. queue[j].pad \in Pads
  BY <1>1 DEF Events
<1> QED
  BY <1>2, ControlAssumption DEF QueueOK

LEMMA MoveKeyStep ==
    ASSUME InputInvariant, MoveKey PROVE InputInvariant'
<1> USE DEF InputInvariant
<1>1. PICK k \in Keys :
         /\ held' = IF k \in held THEN held \ {k} ELSE held \cup {k}
         /\ IF focus THEN Posts(Key(k, k \notin held)) ELSE UNCHANGED queue
  BY DEF MoveKey
<1>2. UNCHANGED <<focus, plugged, fresh, tracker, primary, reported, lost>>
  BY DEF MoveKey, Service
<1> DEFINE e == Key(k, k \notin held)
<1>3. /\ e \in Events /\ e.type = "key" /\ e.control = k
      /\ e.pressed <=> k \notin held
  BY DEF Key, Events
<1>4. \A c \in Controls : c # k => (Kept(c) => Kept(c)')
  <2> SUFFICES ASSUME NEW c \in Controls, c # k, Kept(c) PROVE Kept(c)'
    OBVIOUS
  <2>1. CASE c \in Keys /\ c[1] \notin Pads \cup {NoPad, PadDevice}
    BY <1>1, <1>2, <2>1 DEF Kept, PlayerHolds
  <2>2. CASE c[1] = PadDevice
    <3>1. <<primary, c[2]>>[1] = primary
      OBVIOUS
    <3>2. <<primary, c[2]>> # k
      BY <3>1, ControlAssumption DEF TypeOK
    <3>3. <<primary, c[2]>> \in held'
      BY <1>1, <2>2, <3>2 DEF Kept, PlayerHolds
    <3> QED
      BY <1>2, <2>2, <3>3 DEF Kept, PlayerHolds
  <2> QED
    BY <2>1, <2>2, ControlKinds
<1>5. k \in Controls /\ k[1] # PadDevice
  BY ControlAssumption DEF Controls
<1>6. CASE focus
  <2>1. queue' = Append(queue, e)
    BY <1>1, <1>6 DEF Posts
  <2> HIDE DEF e
  <2>2. \A c : Speaks(e, c) <=> c = k
    BY <1>3 DEF Speaks
  <2>3. QueueOK'
    <3>1. plugged' \cap fresh' = {} /\ plugged' \cup fresh' \subseteq plugged \cup fresh
      BY <1>2 DEF QueueOK
    <3> QED
      BY <1>2, <1>3, <2>1, <3>1, AppendQueueOK
  <2>4. ASSUME NEW c \in Controls PROVE Kept(c)' \/ GoesUp(c)'
    <3>1. Drops(e, c, primary) \/ (Kept(c) => Kept(c)')
      <4>1. CASE c = k /\ k \in held
        <5>1. ~e.pressed
          BY <1>3, <4>1
        <5> QED
          BY <2>2, <4>1, <5>1 DEF Drops
      <4>2. CASE c = k /\ k \notin held
        BY <1>5, <4>2 DEF Kept, PlayerHolds
      <4> QED
        BY <1>4, <4>1, <4>2
    <3>2. Presses(e, c) => Kept(c)'
      <4> SUFFICES ASSUME Presses(e, c) PROVE Kept(c)'
        OBVIOUS
      <4>1. c = k /\ e.pressed
        BY <2>2 DEF Presses
      <4>2. k \in held'
        BY <1>1, <1>3, <4>1
      <4> QED
        BY <1>2, <1>5, <1>6, <4>1, <4>2 DEF Kept, PlayerHolds
    <3>3. Kept(c) \/ GoesUp(c)
      BY DEF ControlsSettle
    <3> QED
      BY <1>2, <1>3, <2>1, <3>1, <3>2, <3>3, AppendSettles
  <2>5. TypeOK'
    BY <1>2, <1>3, <2>1, AppendFacts DEF TypeOK
  <2> QED
    BY <1>2, <2>3, <2>4, <2>5 DEF ControlsSettle, PadIsOpen
<1>7. CASE ~focus
  <2>1. queue' = queue
    BY <1>1, <1>7
  <2>2. \A c \in Controls : Kept(c) => Kept(c)'
    BY <1>4, <1>5, <1>7 DEF Kept
  <2>3. \A c \in Controls : GoesUp(c) => GoesUp(c)'
    BY <1>2, <2>1 DEF GoesUp
  <2>4. TypeOK' /\ QueueOK'
    BY <1>2, <2>1 DEF TypeOK, QueueOK
  <2> QED
    BY <1>2, <2>2, <2>3, <2>4 DEF ControlsSettle, PadIsOpen
<1> QED
  BY <1>6, <1>7

\* What holds when an event arrives and the service has not moved.
LEMMA ArrivalStep ==
    ASSUME InputInvariant, NEW e \in Events, queue' = Append(queue, e),
           UNCHANGED Service, focus' \in BOOLEAN,
           plugged' \subseteq Pads, fresh' \subseteq Pads,
           plugged' \cap fresh' = {}, plugged' \cup fresh' \subseteq plugged \cup fresh,
           e.type = "button" => e.pad = primary /\ primary \in plugged,
           e.type = "removed" => e.pad \notin plugged' \cup fresh',
           \A c \in Controls : Drops(e, c, primary) \/ (Kept(c) => Kept(c)'),
           \A c \in Controls : Presses(e, c) => Kept(c)'
    PROVE  InputInvariant'
<1> USE DEF InputInvariant
<1>1. UNCHANGED <<tracker, primary, reported, lost>>
  BY DEF Service
<1>2. QueueOK'
  BY <1>1, AppendQueueOK
<1>3. \A c \in Controls : Kept(c)' \/ GoesUp(c)'
  BY <1>1, AppendSettles DEF ControlsSettle
<1>4. TypeOK'
  BY <1>1, AppendFacts DEF TypeOK
<1> QED
  BY <1>1, <1>2, <1>3, <1>4 DEF ControlsSettle, PadIsOpen

\* What holds when the player moved and SDL stays silent.
LEMMA SilentStep ==
    ASSUME InputInvariant, UNCHANGED <<queue, plugged, fresh, Service>>, focus' \in BOOLEAN,
           \A c \in Controls : Kept(c) => Kept(c)'
    PROVE  InputInvariant'
<1> USE DEF InputInvariant
<1>1. UNCHANGED <<tracker, primary, reported, lost, queue, plugged, fresh>>
  BY DEF Service
<1>2. \A c \in Controls : GoesUp(c) => GoesUp(c)'
  BY <1>1 DEF GoesUp
<1>3. TypeOK' /\ QueueOK'
  BY <1>1 DEF TypeOK, QueueOK
<1> QED
  BY <1>1, <1>2, <1>3 DEF ControlsSettle, PadIsOpen

LEMMA MoveButtonStep ==
    ASSUME InputInvariant, MoveButton PROVE InputInvariant'
<1> USE DEF InputInvariant
<1>1. PICK pad \in plugged, button \in Buttons :
         LET goes_down == <<pad, button>> \notin held
         IN /\ held' = IF goes_down THEN held \cup {<<pad, button>>} ELSE held \ {<<pad, button>>}
            /\ IF pad = primary /\ (focus \/ ~goes_down)
               THEN Posts(Button(pad, button, goes_down)) ELSE UNCHANGED queue
  BY DEF MoveButton
<1>2. UNCHANGED <<focus, plugged, fresh, Service>> /\ UNCHANGED primary
  BY DEF MoveButton, Service
<1>3. pad \in Pads
  BY DEF TypeOK
<1> DEFINE goes_down == <<pad, button>> \notin held
           e == Button(pad, button, goes_down)
<1>4. e \in Events /\ e.type = "button" /\ e.pad = pad /\ e.button = button
  BY <1>3 DEF Events, Button
<1>5. e.pressed <=> goes_down
  BY DEF Button
<1>6. ASSUME NEW c \in Controls, Kept(c), ~(pad = primary /\ c = ControlOf(button) /\ ~goes_down)
      PROVE  Kept(c)'
  <2>1. CASE c \in Keys /\ c[1] \notin Pads \cup {NoPad, PadDevice}
    <3>1. <<pad, button>>[1] = pad
      OBVIOUS
    <3>2. c # <<pad, button>>
      BY <1>3, <2>1, <3>1
    <3>3. c \in held'
      BY <1>1, <1>6, <2>1, <3>2 DEF Kept, PlayerHolds
    <3> QED
      BY <1>2, <1>6, <2>1, <3>3 DEF Kept, PlayerHolds
  <2>2. ASSUME NEW b \in Buttons, c = ControlOf(b), c[1] = PadDevice, c[2] = b
        PROVE  Kept(c)'
    <3>1. <<primary, b>> \in held
      BY <1>6, <2>2 DEF Kept, PlayerHolds
    <3>2. <<primary, b>> = <<pad, button>> => goes_down
      BY <1>6, <2>2 DEF ControlOf
    <3>3. <<primary, b>> \in held'
      BY <1>1, <3>1, <3>2
    <3> QED
      BY <1>2, <2>2, <3>3 DEF Kept, PlayerHolds
  <2> QED
    BY <2>1, <2>2, ControlKinds
<1>7. CASE pad = primary /\ (focus \/ ~goes_down)
  <2>1. queue' = Append(queue, e)
    BY <1>1, <1>7 DEF Posts
  <2> HIDE DEF e
  <2>2. \A c \in Controls : Drops(e, c, primary) \/ (Kept(c) => Kept(c)')
    <3> SUFFICES ASSUME NEW c \in Controls, ~Drops(e, c, primary), Kept(c) PROVE Kept(c)'
      OBVIOUS
    <3>1. ~(c = ControlOf(button) /\ ~goes_down)
      BY <1>4, <1>5 DEF Drops, Speaks
    <3> QED
      BY <1>6, <3>1
  <2>3. \A c \in Controls : Presses(e, c) => Kept(c)'
    <3> SUFFICES ASSUME NEW c \in Controls, Presses(e, c) PROVE Kept(c)'
      OBVIOUS
    <3>1. c = ControlOf(button) /\ goes_down
      BY <1>4, <1>5 DEF Presses, Speaks
    <3>2. c[1] = PadDevice /\ c[2] = button
      BY <3>1 DEF ControlOf
    <3>3. <<primary, button>> \in held'
      BY <1>1, <1>7, <3>1
    <3> QED
      BY <1>2, <3>2, <3>3 DEF Kept, PlayerHolds
  <2>4. /\ plugged' \subseteq Pads /\ fresh' \subseteq Pads /\ focus' \in BOOLEAN
        /\ plugged' \cap fresh' = {} /\ plugged' \cup fresh' \subseteq plugged \cup fresh
    BY <1>2 DEF TypeOK, QueueOK
  <2>5. primary \in plugged
    BY <1>7
  <2> QED
    BY <1>2, <1>4, <1>7, <2>1, <2>2, <2>3, <2>4, <2>5, ArrivalStep
<1>8. CASE ~(pad = primary /\ (focus \/ ~goes_down))
  <2>1. UNCHANGED queue
    BY <1>1, <1>8
  <2>2. \A c \in Controls : Kept(c) => Kept(c)'
    BY <1>6, <1>8
  <2>3. focus' \in BOOLEAN
    BY <1>2 DEF TypeOK
  <2> QED
    BY <1>2, <2>1, <2>2, <2>3, SilentStep
<1> QED
  BY <1>7, <1>8

LEMMA PlugInStep ==
    ASSUME InputInvariant, PlugIn PROVE InputInvariant'
<1> USE DEF InputInvariant
<1>1. PICK pad \in fresh :
         /\ plugged' = plugged \cup {pad} /\ fresh' = fresh \ {pad}
         /\ Posts([type |-> "added"])
  BY DEF PlugIn
<1>2. UNCHANGED <<focus, held, Service>> /\ UNCHANGED primary
  BY DEF PlugIn, Service
<1> DEFINE e == [type |-> "added"]
<1>3. e \in Events /\ e.type = "added"
  BY DEF Events
<1>4. queue' = Append(queue, e)
  BY <1>1 DEF Posts
<1> HIDE DEF e
<1>5. \A c \in Controls : (Kept(c) => Kept(c)') /\ ~Presses(e, c)
  BY <1>2, <1>3 DEF Kept, PlayerHolds, Presses, Speaks
<1>6. /\ plugged' \subseteq Pads /\ fresh' \subseteq Pads /\ focus' \in BOOLEAN
      /\ plugged' \cap fresh' = {} /\ plugged' \cup fresh' \subseteq plugged \cup fresh
  BY <1>1, <1>2 DEF TypeOK, QueueOK
<1> QED
  BY <1>2, <1>3, <1>4, <1>5, <1>6, ArrivalStep

LEMMA UnplugStep ==
    ASSUME InputInvariant, Unplug PROVE InputInvariant'
<1> USE DEF InputInvariant
<1>1. PICK pad \in plugged :
         /\ plugged' = plugged \ {pad}
         /\ held' = {h \in held : h[1] # pad}
         /\ Posts([type |-> "removed", pad |-> pad])
  BY DEF Unplug
<1>2. UNCHANGED <<focus, fresh, Service>> /\ UNCHANGED primary
  BY DEF Unplug, Service
<1>3. pad \in Pads
  BY DEF TypeOK
<1> DEFINE e == [type |-> "removed", pad |-> pad]
<1>4. e \in Events /\ e.type = "removed" /\ e.pad = pad
  BY <1>3 DEF Events
<1>5. queue' = Append(queue, e)
  BY <1>1 DEF Posts
<1> HIDE DEF e
<1>6. \A c \in Controls : ~Presses(e, c)
  BY <1>4 DEF Presses, Speaks
<1>7. \A c \in Controls : Drops(e, c, primary) \/ (Kept(c) => Kept(c)')
  <2> SUFFICES ASSUME NEW c \in Controls, ~Drops(e, c, primary), Kept(c) PROVE Kept(c)'
    OBVIOUS
  <2>1. CASE c \in Keys /\ c[1] \notin Pads \cup {NoPad, PadDevice}
    BY <1>1, <1>2, <1>3, <2>1 DEF Kept, PlayerHolds
  <2>2. CASE c[1] = PadDevice
    <3>1. pad # primary
      BY <1>4, <2>2 DEF Drops
    <3>2. <<primary, c[2]>>[1] = primary
      OBVIOUS
    <3>3. <<primary, c[2]>> \in held'
      BY <1>1, <2>2, <3>1, <3>2 DEF Kept, PlayerHolds
    <3> QED
      BY <1>2, <2>2, <3>3 DEF Kept, PlayerHolds
  <2> QED
    BY <2>1, <2>2, ControlKinds
<1>8. /\ plugged' \subseteq Pads /\ fresh' \subseteq Pads /\ focus' \in BOOLEAN
      /\ plugged' \cap fresh' = {} /\ plugged' \cup fresh' \subseteq plugged \cup fresh
      /\ e.pad \notin plugged' \cup fresh'
  BY <1>1, <1>2, <1>4 DEF TypeOK, QueueOK
<1> QED
  BY <1>2, <1>4, <1>5, <1>6, <1>7, <1>8, ArrivalStep

LEMMA ChangeFocusStep ==
    ASSUME InputInvariant, ChangeFocus PROVE InputInvariant'
<1> USE DEF InputInvariant
<1>1. /\ focus' = ~focus
      /\ IF focus THEN Posts([type |-> "focus lost"]) ELSE UNCHANGED queue
      /\ UNCHANGED <<plugged, fresh, held, Service>> /\ UNCHANGED primary
  BY DEF ChangeFocus, Service
<1>2. focus' \in BOOLEAN
  BY <1>1
<1>3. CASE focus
  <2> DEFINE e == [type |-> "focus lost"]
  <2>1. e \in Events /\ e.type = "focus lost"
    BY DEF Events
  <2>2. queue' = Append(queue, e)
    BY <1>1, <1>3 DEF Posts
  <2> HIDE DEF e
  <2>3. \A c \in Controls : Drops(e, c, primary) /\ ~Presses(e, c)
    BY <2>1 DEF Drops, Presses, Speaks
  <2>4. /\ plugged' \subseteq Pads /\ fresh' \subseteq Pads
        /\ plugged' \cap fresh' = {} /\ plugged' \cup fresh' \subseteq plugged \cup fresh
    BY <1>1 DEF TypeOK, QueueOK
  <2> QED
    BY <1>1, <1>2, <2>1, <2>2, <2>3, <2>4, ArrivalStep
<1>4. CASE ~focus
  <2>1. \A c \in Controls : Kept(c) => Kept(c)'
    BY <1>1, <1>4 DEF Kept, PlayerHolds
  <2> QED
    BY <1>1, <1>2, <1>4, <2>1, SilentStep
<1> QED
  BY <1>3, <1>4

LEMMA OtherEventStep ==
    ASSUME InputInvariant, OtherEvent PROVE InputInvariant'
<1> USE DEF InputInvariant
<1>1. PICK type \in {"motion", "other"} : Posts([type |-> type])
  BY DEF OtherEvent
<1>2. UNCHANGED <<focus, plugged, fresh, held, Service>> /\ UNCHANGED primary
  BY DEF OtherEvent, Service
<1> DEFINE e == [type |-> type]
<1>3. e \in Events /\ e.type \in {"motion", "other"}
  BY DEF Events
<1>4. queue' = Append(queue, e)
  BY <1>1 DEF Posts
<1> HIDE DEF e
<1>5. \A c \in Controls : (Kept(c) => Kept(c)') /\ ~Presses(e, c)
  BY <1>2, <1>3 DEF Kept, PlayerHolds, Presses, Speaks
<1>6. /\ plugged' \subseteq Pads /\ fresh' \subseteq Pads /\ focus' \in BOOLEAN
      /\ plugged' \cap fresh' = {} /\ plugged' \cup fresh' \subseteq plugged \cup fresh
  BY <1>2 DEF TypeOK, QueueOK
<1> QED
  BY <1>2, <1>3, <1>4, <1>5, <1>6, ArrivalStep

LEMMA EndFrameStep ==
    ASSUME InputInvariant, EndFrame PROVE InputInvariant'
<1> USE DEF InputInvariant
<1>1. /\ queue = <<>> /\ reported' = Snapshot(tracker).held /\ tracker' = AfterFrame(tracker)
      /\ UNCHANGED <<primary, lost, queue, focus, plugged, fresh, held>>
  BY DEF EndFrame, host
<1>2. /\ TrackerOK(AfterFrame(tracker)) /\ EdgesTell(AfterFrame(tracker), Snapshot(tracker).held)
      /\ AfterFrame(tracker).down = tracker.down
      /\ Snapshot(tracker).held \subseteq Actions
  BY FrameKeeps DEF TypeOK
<1>3. TrackerOK(tracker') /\ EdgesTell(tracker', reported') /\ tracker'.down = tracker.down
  BY <1>1, <1>2
<1>4. TypeOK'
  BY <1>1, <1>2, <1>3 DEF TypeOK
<1>5. ControlsSettle'
  BY <1>1, <1>3 DEF ControlsSettle, Kept, PlayerHolds, GoesUp
<1>6. QueueOK'
  BY <1>1 DEF QueueOK
<1> QED
  BY <1>1, <1>3, <1>4, <1>5, <1>6 DEF PadIsOpen

-------------------------------------------------------------------------------
(* PumpEvents takes an event.                                              *)

\* The primary stays, and what is down afterwards was down or is pressed by the event.
LEMMA TakenStep ==
    ASSUME InputInvariant, queue # <<>>, queue' = Tail(queue),
           UNCHANGED <<reported, focus, plugged, fresh, held, primary>>,
           TrackerOK(tracker'), EdgesTell(tracker', reported),
           tracker'.down \subseteq Controls,
           PadIsOpen',
           \A c \in Controls :
              c \in tracker'.down \ lost' =>
                 \/ c \in tracker.down \ lost /\ ~Drops(Head(queue), c, primary)
                 \/ Presses(Head(queue), c)
    PROVE  InputInvariant'
<1> USE DEF InputInvariant
<1>1. QueueOK'
  BY TailQueueOK
<1>2. TypeOK'
  BY TailFacts DEF TypeOK
<1>3. \A c \in Controls : Kept(c)' \/ GoesUp(c)'
  BY TailSettles DEF ControlsSettle
<1> QED
  BY <1>1, <1>2, <1>3 DEF ControlsSettle

LEMMA PollControlStep ==
    ASSUME InputInvariant, queue # <<>>, queue' = Tail(queue),
           UNCHANGED <<reported, focus, plugged, fresh, held, primary>>,
           NEW k \in Controls, NEW pressed \in BOOLEAN, PollControl(k, pressed),
           k[1] = PadDevice => primary # NoPad,
           Head(queue).type \in {"key", "button"},
           \A c : Speaks(Head(queue), c) <=> c = k,
           Head(queue).pressed <=> pressed
    PROVE  InputInvariant'
<1> USE DEF InputInvariant
<1>1. /\ tracker' = PushEvent(tracker, k, pressed)
      /\ lost' = IF Accepts(tracker) THEN lost \ {k} ELSE lost \cup {k}
  BY DEF PollControl
<1>2. /\ TrackerOK(tracker') /\ EdgesTell(tracker', reported)
      /\ tracker'.down \subseteq tracker.down \cup {k}
      /\ Accepts(tracker) /\ ~pressed => k \notin tracker'.down
  BY <1>1, PushKeeps DEF TypeOK
<1>3. tracker'.down \subseteq Controls
  BY <1>2 DEF TypeOK
<1>4. PadIsOpen'
  <2>1. primary' = primary
    OBVIOUS
  <2>2. ASSUME NEW c \in tracker'.down, c[1] = PadDevice PROVE primary # NoPad
    BY <1>2, <2>2 DEF PadIsOpen
  <2> QED
    BY <2>1, <2>2 DEF PadIsOpen
<1>5. ASSUME NEW c \in Controls, c \in tracker'.down \ lost'
      PROVE  \/ c \in tracker.down \ lost /\ ~Drops(Head(queue), c, primary)
             \/ Presses(Head(queue), c)
  <2>1. CASE c # k
    BY <1>1, <1>2, <1>5, <2>1 DEF Drops
  <2>2. CASE c = k
    <3>1. Accepts(tracker)
      BY <1>1, <1>5, <2>2
    <3>2. pressed
      BY <1>2, <1>5, <2>2, <3>1
    <3> QED
      BY <2>2, <3>2 DEF Presses
  <2> QED
    BY <2>1, <2>2
<1> QED
  BY <1>2, <1>3, <1>4, <1>5, TakenStep

\* Another pad takes over, or none: no button waits, and no control of a pad is down.
LEMMA ExchangeStep ==
    ASSUME InputInvariant, queue # <<>>, queue' = Tail(queue),
           UNCHANGED <<reported, focus, plugged, fresh, held>>,
           primary' \in OpenFirstAvailable(plugged),
           \A j \in DOMAIN queue : j # 1 => queue[j].type # "button",
           TrackerOK(tracker'), EdgesTell(tracker', reported),
           tracker'.down = {c \in tracker.down : c[1] # PadDevice},
           \A c \in lost : c[1] # PadDevice => c \in lost',
           Head(queue).type \in {"removed", "added"}
    PROVE  InputInvariant'
<1> USE DEF InputInvariant
<1>1. QueueOK'
  BY TailQueueOK
<1>2. TypeOK'
  BY TailFacts DEF TypeOK, OpenFirstAvailable
<1>3. ASSUME NEW c \in Controls PROVE Kept(c)' \/ GoesUp(c)'
  <2>1. CASE c \in Keys /\ c[1] \notin Pads \cup {NoPad, PadDevice}
    <3>1. c \in tracker'.down \ lost' =>
             c \in tracker.down \ lost /\ ~Drops(Head(queue), c, primary)
      BY <2>1 DEF Drops, Speaks
    <3> QED
      BY <2>1, <3>1, TailSettles DEF ControlsSettle
  <2>2. CASE c[1] = PadDevice
    <3>1. c \notin tracker'.down
      BY <2>2
    <3>2. c \notin Keys
      BY <2>2, ControlAssumption
    <3>3. ASSUME NEW i \in DOMAIN queue', Presses(queue'[i], c) PROVE FALSE
      <4>1. queue' \in Seq(Events) /\ DOMAIN queue' = 1..(Len(queue) - 1)
        BY TailFacts
      <4>2. i + 1 \in DOMAIN queue /\ i + 1 # 1 /\ queue'[i] = queue[i + 1] /\ queue'[i] \in Events
        BY <4>1, TailFacts
      <4>3. queue'[i].type # "button"
        BY <4>2
      <4>4. queue'[i].type = "key" /\ queue'[i].control = c
        BY <3>3, <4>3 DEF Presses, Speaks
      <4>5. queue'[i].control \in Keys
        BY <4>2, <4>4 DEF Events
      <4> QED
        BY <3>2, <4>4, <4>5
    <3> QED
      BY <3>1, <3>3 DEF GoesUp
  <2> QED
    BY <2>1, <2>2, ControlKinds
<1>4. PadIsOpen'
  BY DEF PadIsOpen
<1> QED
  BY <1>1, <1>2, <1>3, <1>4 DEF ControlsSettle

LEMMA PollEventStep ==
    ASSUME InputInvariant, PollEvent PROVE InputInvariant'
<1> USE DEF InputInvariant
<1> DEFINE e == Head(queue)
<1>1. /\ queue # <<>> /\ queue' = Tail(queue)
      /\ UNCHANGED <<reported, focus, plugged, fresh, held>>
  BY DEF PollEvent
<1>2. /\ e \in Events /\ e = queue[1] /\ 1 \in DOMAIN queue /\ DOMAIN queue \subseteq Nat \ {0}
  BY <1>1, TailFacts DEF TypeOK
<1>3. \/ /\ e.type = "key"
         /\ PollControl(e.control, e.pressed) /\ UNCHANGED primary
      \/ /\ e.type = "button" /\ e.pad = primary
         /\ PollControl(ControlOf(e.button), e.pressed) /\ UNCHANGED primary
      \/ /\ e.type = "removed" /\ PollRemoved(e)
      \/ /\ e.type = "added" /\ primary = NoPad
         /\ primary' \in OpenFirstAvailable(plugged)
         /\ UNCHANGED <<tracker, lost>>
      \/ /\ e.type = "focus lost"
         /\ tracker' = ClearPointerPosition(ResetAllControls(tracker))
         /\ lost' = {} /\ UNCHANGED primary
      \/ /\ e.type = "motion"
         /\ tracker' = SetPointerPosition(tracker, "somewhere")
         /\ UNCHANGED <<primary, lost>>
      \/ /\ \/ e.type = "other"
            \/ e.type = "button" /\ e.pad # primary
            \/ e.type = "added" /\ primary # NoPad
         /\ UNCHANGED <<tracker, primary, lost>>
  BY DEF PollEvent
<1> HIDE DEF e
<1>4. TrackerOK(tracker) /\ EdgesTell(tracker, reported)
  BY DEF TypeOK
<1>5. CASE e.type = "key" /\ PollControl(e.control, e.pressed) /\ UNCHANGED primary
  <2>1. e.control \in Keys /\ e.pressed \in BOOLEAN
    BY <1>2, <1>5 DEF Events
  <2>2. e.control \in Controls /\ e.control[1] # PadDevice
    BY <2>1, ControlAssumption DEF Controls
  <2>3. \A c : Speaks(e, c) <=> c = e.control
    BY <1>5 DEF Speaks
  <2> QED
    BY <1>1, <1>5, <2>1, <2>2, <2>3, PollControlStep DEF e
<1>6. CASE /\ e.type = "button" /\ e.pad = primary
           /\ PollControl(ControlOf(e.button), e.pressed) /\ UNCHANGED primary
  <2>1. e.button \in Buttons /\ e.pressed \in BOOLEAN /\ e.pad \in Pads
    BY <1>2, <1>6 DEF Events
  <2>2. ControlOf(e.button) \in Controls /\ primary # NoPad
    BY <1>6, <2>1, ControlAssumption DEF Controls
  <2>3. \A c : Speaks(e, c) <=> c = ControlOf(e.button)
    BY <1>6 DEF Speaks
  <2> QED
    BY <1>1, <1>6, <2>1, <2>2, <2>3, PollControlStep DEF e
<1>7. CASE e.type = "removed" /\ PollRemoved(e)
  <2>1. CASE e.pad = primary
    <3>1. /\ tracker' = ResetDevice(tracker, PadDevice)
          /\ lost' = {c \in lost : c[1] # PadDevice}
          /\ primary' \in OpenFirstAvailable(plugged)
      BY <1>7, <2>1 DEF PollRemoved
    <3>2. /\ TrackerOK(tracker') /\ EdgesTell(tracker', reported)
          /\ tracker'.down = {c \in tracker.down : c[1] # PadDevice}
      BY <1>4, <3>1, ResetDeviceKeeps
    <3>3. \A j \in DOMAIN queue : j # 1 => queue[j].type # "button"
      <4>1. \A j \in DOMAIN queue : j # 1 => 1 < j
        BY <1>2
      <4> QED
        BY <1>2, <1>7, <2>1, <4>1 DEF QueueOK
    <3> QED
      BY <1>1, <1>7, <3>1, <3>2, <3>3, ExchangeStep DEF e
  <2>2. CASE e.pad # primary
    <3>1. UNCHANGED <<tracker, primary, lost>>
      BY <1>7, <2>2 DEF PollRemoved
    <3>2. \A c \in Controls : ~Drops(e, c, primary)
      BY <1>7, <2>2 DEF Drops, Speaks
    <3>3. PadIsOpen' /\ tracker'.down \subseteq Controls
      BY <3>1 DEF PadIsOpen, TypeOK
    <3> QED
      BY <1>1, <1>4, <3>1, <3>2, <3>3, TakenStep DEF e
  <2> QED
    BY <2>1, <2>2
<1>8. CASE /\ e.type = "added" /\ primary = NoPad
           /\ primary' \in OpenFirstAvailable(plugged)
           /\ UNCHANGED <<tracker, lost>>
  <2>1. tracker'.down = {c \in tracker.down : c[1] # PadDevice}
    BY <1>8 DEF PadIsOpen
  <2>2. \A j \in DOMAIN queue : queue[j].type # "button"
    BY <1>8, ButtonHasPad
  <2> QED
    BY <1>1, <1>4, <1>8, <2>1, <2>2, ExchangeStep DEF e
<1>9. CASE /\ e.type = "focus lost"
           /\ tracker' = ClearPointerPosition(ResetAllControls(tracker))
           /\ lost' = {} /\ UNCHANGED primary
  <2>1. /\ TrackerOK(tracker') /\ EdgesTell(tracker', reported)
        /\ tracker'.down = {}
    BY <1>4, <1>9, ResetAllKeeps
  <2>2. PadIsOpen'
    BY <2>1 DEF PadIsOpen
  <2> QED
    BY <1>1, <1>9, <2>1, <2>2, TakenStep
<1>10. CASE /\ e.type = "motion"
            /\ tracker' = SetPointerPosition(tracker, "somewhere")
            /\ UNCHANGED <<primary, lost>>
  <2>1. /\ TrackerOK(tracker') /\ EdgesTell(tracker', reported)
        /\ tracker'.down = tracker.down
    BY <1>4, <1>10, PointerKeeps
  <2>2. PadIsOpen' /\ tracker'.down \subseteq Controls
    BY <1>10, <2>1 DEF PadIsOpen, TypeOK
  <2>3. \A c \in Controls : ~Drops(e, c, primary)
    BY <1>10 DEF Drops, Speaks
  <2> QED
    BY <1>1, <1>10, <2>1, <2>2, <2>3, TakenStep DEF e
<1>11. CASE /\ \/ e.type = "other"
               \/ e.type = "button" /\ e.pad # primary
               \/ e.type = "added" /\ primary # NoPad
            /\ UNCHANGED <<tracker, primary, lost>>
  <2>1. e.type # "button"
    BY <1>2, <1>11 DEF QueueOK
  <2>2. PadIsOpen' /\ tracker'.down \subseteq Controls
    BY <1>11 DEF PadIsOpen, TypeOK
  <2>3. \A c \in Controls : ~Drops(e, c, primary)
    BY <1>11, <2>1 DEF Drops, Speaks
  <2> QED
    BY <1>1, <1>4, <1>11, <2>2, <2>3, TakenStep DEF e
<1> QED
  BY <1>3, <1>5, <1>6, <1>7, <1>8, <1>9, <1>10, <1>11

-------------------------------------------------------------------------------
(* The theorems.                                                           *)

LEMMA InputStarts == Init => InputInvariant
<1> SUFFICES ASSUME Init PROVE InputInvariant
  OBVIOUS
<1>1. /\ tracker = NewTracker /\ reported = {}
      /\ queue = <<>> /\ focus = TRUE /\ lost = {}
      /\ plugged \in SUBSET Pads /\ fresh = Pads \ plugged
      /\ primary \in {NoPad} \cup plugged
  BY DEF Init, OpenFirstAvailable
<1>2. /\ NewTracker \in Trackers /\ NewTracker.down = {}
      /\ NewTracker.pressed = {} /\ NewTracker.released = {}
      /\ \A a \in Actions : NewTracker.down_count[a] = 0
  BY BoundsAssumption DEF NewTracker, Trackers
<1>3. \A a : Holding({}, a) = {}
  BY DEF Holding
<1>4. TrackerOK(NewTracker)
  BY <1>2, <1>3, FS_EmptySet DEF TrackerOK
<1>5. EdgesTell(tracker, reported)
  BY <1>1, <1>2 DEF EdgesTell
<1>6. queue \in Seq(Events) /\ DOMAIN queue = {}
  BY <1>1
<1>7. TypeOK
  BY <1>1, <1>2, <1>4, <1>6 DEF TypeOK
<1>8. QueueOK /\ ControlsSettle /\ PadIsOpen
  BY <1>1, <1>2, <1>6 DEF QueueOK, ControlsSettle, GoesUp, PadIsOpen
<1> QED
  BY <1>5, <1>7, <1>8 DEF InputInvariant

LEMMA InputSteps == InputInvariant /\ [Next]_vars => InputInvariant'
<1> SUFFICES ASSUME InputInvariant, [Next]_vars PROVE InputInvariant'
  OBVIOUS
<1>1. CASE UNCHANGED vars
  BY <1>1 DEF vars, InputInvariant, TypeOK, QueueOK, ControlsSettle, Kept, PlayerHolds, GoesUp,
              PadIsOpen
<1>2. CASE Next
  BY <1>2, MoveKeyStep, MoveButtonStep, PlugInStep, UnplugStep, ChangeFocusStep, OtherEventStep,
     PollEventStep, EndFrameStep DEF Next
<1> QED
  BY <1>1, <1>2

\* What the input service and its tracker rely on between any two steps of the player,
\* of SDL and of the frame loop.
THEOREM InputInvariantHolds == Spec => []InputInvariant
  BY InputStarts, InputSteps, PTL DEF Spec

\* Neither a removed pad nor a lost focus nor a full budget leaves an action held that
\* nobody holds, except what the rejected events themselves would have changed.
THEOREM NothingHangs == Spec => []NothingStaysDown
<1>1. InputInvariant => NothingStaysDown
  <2> SUFFICES ASSUME InputInvariant PROVE NothingStaysDown
    OBVIOUS
  <2> USE DEF InputInvariant
  <2>1. \A a \in Actions :
          tracker.down_count[a] = Cardinality({c \in tracker.down : Bindings[c] = a})
    BY DEF TypeOK, TrackerOK, Holding
  <2>2. ASSUME queue = <<>>, NEW c \in tracker.down PROVE PlayerHolds(c) \/ c \in lost
    <3>1. c \in Controls /\ DOMAIN queue = {}
      BY <2>2 DEF TypeOK
    <3> QED
      BY <3>1 DEF ControlsSettle, Kept, GoesUp
  <2> QED
    BY <2>1, <2>2 DEF NothingStaysDown, PadIsOpen
<1> QED
  BY <1>1, InputInvariantHolds, PTL

\* The edges that a frame reports account for every change of what is held, whatever was
\* rejected, removed or reset since the frame before.
THEOREM EdgesHold == Spec => []EdgesTellChanges
<1>1. InputInvariant => EdgesTellChanges
  <2> SUFFICES ASSUME InputInvariant, NEW a \in Actions
               PROVE  LET snapshot == Snapshot(tracker)
                          before == a \in reported
                          after == a \in snapshot.held
                          pressed == a \in snapshot.pressed
                          released == a \in snapshot.released
                      IN /\ pressed /\ ~released => ~before /\ after
                         /\ released /\ ~pressed => before /\ ~after
                         /\ ~pressed /\ ~released => before = after
    BY DEF EdgesTellChanges
  <2>1. /\ a \in Snapshot(tracker).held <=> tracker.down_count[a] > 0
        /\ Snapshot(tracker).pressed = tracker.pressed
        /\ Snapshot(tracker).released = tracker.released
    BY DEF Snapshot
  <2>2. tracker.down_count[a] \in Nat
    BY DEF InputInvariant, TypeOK, TrackerOK, Trackers
  <2>3. /\ a \in tracker.pressed /\ a \notin tracker.released
              => a \notin reported /\ tracker.down_count[a] > 0
        /\ a \in tracker.released /\ a \notin tracker.pressed
              => a \in reported /\ ~(tracker.down_count[a] > 0)
        /\ a \notin tracker.pressed /\ a \notin tracker.released
              => (a \in reported <=> tracker.down_count[a] > 0)
    BY <2>2 DEF InputInvariant, EdgesTell
  <2> HIDE DEF EdgesTell, InputInvariant
  <2> QED
    BY <2>1, <2>3
<1> QED
  BY <1>1, InputInvariantHolds, PTL
===============================================================================
