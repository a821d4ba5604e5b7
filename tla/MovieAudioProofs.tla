--------------------------- MODULE MovieAudioProofs ---------------------------
(***************************************************************************)
(* The movie's ring for every capacity, chunk and demand: what is heard is *)
(* the movie in order, and a contained service is silent.                  *)
(***************************************************************************)
EXTENDS MovieAudio, SequenceTheorems, TLAPS

(***************************************************************************)
(* The inductive invariant.                                                *)
(***************************************************************************)
Queueing == {"fill", "lock", "publish"}

Games ==
    [pc : {"idle", "resume", "pause"}]
        \cup [pc : Queueing \cup {"unlock"}, span : Seq(Nat), eos : BOOLEAN, starting : BOOLEAN]
        \cup [pc : {"exclude", "reset", "unlockReset", "done"}, ok : BOOLEAN]
        \cup [pc : {"clear"}, ok : BOOLEAN, locked : BOOLEAN]

Passing == {"copy", "giveBack", "count"}

Callbacks ==
    [pc : {"idle"}] \cup [pc : {"load"}, remaining : Nat \ {0}]
        \cup [pc : Passing, remaining : Nat \ {0}, requested : Nat \ {0}, from : Nat, taken : Nat]

LocalsOK ==
    /\ write_sequence \in Nat /\ read_sequence \in Nat /\ session_generation \in Nat
    /\ frames_consumed \in Nat /\ timeline_frames \in Nat /\ underrun_frames \in Nat
    /\ control_failures \in Nat /\ callback_failures \in Nat /\ depth \in Nat
    /\ written \in Nat /\ quiet \in Nat /\ gaps \in Nat
    /\ samples \in [0..(Capacity - 1) -> Nat] /\ accepted \in Seq(Nat) /\ heard \in Seq(Nat)
    /\ producer_finished \in BOOLEAN /\ session_running \in BOOLEAN
    /\ device_resumed \in BOOLEAN /\ containment_ready \in BOOLEAN
    /\ paused \in BOOLEAN /\ backlog \in BOOLEAN
    /\ game \in Games /\ callback \in Callbacks

\* The producer's span fits behind what is published and not yet given back.
Extent ==
    /\ write_sequence = Len(accepted)
    /\ read_sequence <= write_sequence
    /\ write_sequence - read_sequence <= Capacity
    /\ game.pc \in Queueing => write_sequence + Len(game.span) - read_sequence <= Capacity

\* A pass works on the extent it loaded: nothing is published or reset meanwhile.
Pass ==
    /\ callback.pc \in Passing =>
          /\ callback.requested <= callback.remaining /\ callback.taken <= callback.requested
    /\ callback.pc \in {"copy", "giveBack"} =>
          /\ callback.from = read_sequence
          /\ read_sequence + callback.taken <= write_sequence
          /\ callback.taken < callback.requested => read_sequence + callback.taken = write_sequence
    /\ callback.pc = "count" =>
          /\ callback.taken <= read_sequence
          /\ callback.taken < callback.requested => read_sequence = write_sequence

\* Every frame not given back is in its place, also the ones of a span that waits for the lock.
RingHolds ==
    /\ \A k \in Nat : read_sequence <= k /\ k < write_sequence
                         => samples[k % Capacity] = accepted[k + 1]
    /\ game.pc \in {"lock", "publish"} =>
          \A k \in 1..Len(game.span) : samples[(write_sequence + k - 1) % Capacity] = game.span[k]

\* While the game thread is behind SDL's lock no callback runs.
LockExcludes ==
    \/ game.pc \in {"publish", "unlock", "reset", "unlockReset"}
    \/ game.pc = "clear" /\ game.locked
    => depth > 0 /\ callback.pc = "idle"

Quiescent ==
    /\ paused /\ ~ backlog /\ ~ device_resumed /\ callback.pc = "idle"
    /\ write_sequence = 0 /\ read_sequence = 0
    /\ ~ session_running /\ producer_finished

Silenced == Quiescent /\ \A i \in 0..(Capacity - 1) : samples[i] = Silence

\* What the game thread may rely on where it is.
Sessions ==
    /\ ~ session_running => write_sequence = 0 /\ producer_finished
    /\ game.pc = "idle" /\ containment_ready => (device_resumed /\ session_running) \/ Silenced
    /\ game.pc \in Queueing =>
          IF game.starting THEN Quiescent
          ELSE device_resumed /\ session_running /\ ~ producer_finished
    /\ game.pc = "unlock" => session_running /\ (game.starting \/ device_resumed)
    /\ game.pc = "resume" => session_running

\* A containment that has not failed so far has done what it has passed.
Containing ==
    /\ game.pc \in {"exclude", "clear", "reset"} => (game.ok => paused /\ ~ device_resumed)
    /\ game.pc = "clear" => (game.ok => game.locked)
    /\ game.pc = "reset" => (game.ok => ~ backlog)
    /\ game.pc \in {"unlockReset", "done"} => (game.ok => Silenced)

\* Silence that nobody counted has no frame of the movie after it.
Drained ==
    /\ producer_finished /\ session_running /\ read_sequence = write_sequence
    /\ callback.pc \in Passing => callback.taken = 0
GapsArePaid == gaps <= underrun_frames /\ (gaps + quiet <= underrun_frames \/ Drained)

TimelineRuns == timeline_frames >= frames_consumed + underrun_frames

AudioInvariant ==
    /\ LocalsOK /\ Extent /\ Pass /\ RingHolds /\ LockExcludes /\ Sessions /\ Containing
    /\ HeardInOrder /\ GapsArePaid /\ TimelineRuns

-------------------------------------------------------------------------------
(***************************************************************************)
(* Two sequence numbers less than Capacity apart have different places.    *)
(***************************************************************************)
LEMMA Bounds ==
    /\ Capacity \in Nat \ {0} /\ Chunk \in Nat \ {0} /\ MaxDemand \in Nat \ {0}
BY MovieAudioAssumption

LEMMA Quotient ==
    ASSUME NEW a \in Int, NEW c \in Int, c > 0
    PROVE  a \div c \in Int /\ a % c = a - c * (a \div c)
OBVIOUS

LEMMA Remainder ==
    ASSUME NEW a \in Nat, NEW c \in Nat \ {0}
    PROVE  a % c \in 0..(c - 1)
OBVIOUS

LEMMA NoMultipleBelow ==
    ASSUME NEW c \in Nat \ {0}, NEW d \in Int, c * d >= 0, c * d < c
    PROVE  d = 0
<1>1. CASE d >= 1
  <2>1. c * d >= c
    BY <1>1
  <2> QED
    BY <2>1
<1>2. CASE d <= -1
  <2>1. c * d <= -c
    BY <1>2
  <2> QED
    BY <2>1
<1> QED
  BY <1>1, <1>2

LEMMA PlacesDiffer ==
    ASSUME NEW a \in Nat, NEW b \in Nat, NEW c \in Nat \ {0}, a <= b, b < a + c, a % c = b % c
    PROVE  a = b
<1> DEFINE q == a \div c
           r == b \div c
<1>1. q \in Int /\ r \in Int /\ a % c = a - c * q /\ b % c = b - c * r
  BY Quotient
<1> HIDE DEF q, r
<1>2. c * r \in Int /\ c * q \in Int /\ c * r - c * q = c * (r - q) /\ r - q \in Int
  BY <1>1
<1>3. b - a = c * (r - q)
  <2> DEFINE x == c * r
             y == c * q
  <2>1. x \in Int /\ y \in Int /\ a - y = b - x
    BY <1>1, <1>2
  <2> HIDE DEF x, y
  <2>2. b - a = x - y
    BY <2>1
  <2> QED
    BY <1>2, <2>2 DEF x, y
<1>4. r - q = 0
  <2>1. b - a >= 0 /\ b - a < c
    OBVIOUS
  <2>2. c * (r - q) >= 0 /\ c * (r - q) < c
    BY <1>3, <2>1
  <2> QED
    BY <1>2, <2>2, NoMultipleBelow
<1>5. c * (r - q) = 0
  BY <1>4
<1>6. b - a = 0
  BY <1>3, <1>5
<1> QED
  BY <1>6

(***************************************************************************)
(* What a place in the code says about its locals.                         *)
(***************************************************************************)
LEMMA GameIs ==
    ASSUME LocalsOK
    PROVE  /\ game.pc \in Queueing \cup {"unlock"} =>
                 /\ game = [pc |-> game.pc, span |-> game.span, eos |-> game.eos,
                            starting |-> game.starting]
                 /\ game.span \in Seq(Nat) /\ game.eos \in BOOLEAN /\ game.starting \in BOOLEAN
           /\ game.pc \in {"exclude", "reset", "unlockReset", "done", "clear"} => game.ok \in BOOLEAN
           /\ game.pc = "clear" => game.locked \in BOOLEAN
           /\ game.pc \in {"reset", "unlockReset", "done"} => game = [pc |-> game.pc, ok |-> game.ok]
BY DEF LocalsOK, Games, Queueing

LEMMA CallbackIs ==
    ASSUME LocalsOK
    PROVE  /\ callback.pc \in Passing \cup {"load"} => callback.remaining \in Nat \ {0}
           /\ callback.pc \in Passing =>
                 /\ callback = [pc |-> callback.pc, remaining |-> callback.remaining,
                                requested |-> callback.requested, from |-> callback.from,
                                taken |-> callback.taken]
                 /\ callback.requested \in Nat \ {0} /\ callback.from \in Nat /\ callback.taken \in Nat
BY DEF LocalsOK, Callbacks, Passing

(***************************************************************************)
(* Steps of the game thread that leave the ring alone.                     *)
(***************************************************************************)
RingOK == Extent /\ Pass /\ RingHolds /\ HeardInOrder /\ GapsArePaid /\ TimelineRuns

LEMMA RingUntouched ==
    ASSUME AudioInvariant,
           UNCHANGED <<ring, producer_finished, session_running, counters, callback, accepted, heard,
                       quiet, gaps>>,
           game'.pc \in Queueing => game.pc \in Queueing /\ game'.span = game.span,
           game'.pc \in {"lock", "publish"} => game.pc \in {"lock", "publish"}
    PROVE  RingOK'
<1> USE DEF AudioInvariant
<1>1. UNCHANGED <<write_sequence, read_sequence, samples, frames_consumed, timeline_frames,
                  underrun_frames>>
  BY DEF ring, counters
<1>2. Extent'
  BY <1>1 DEF Extent
<1>3. Pass'
  BY <1>1 DEF Pass
<1>4. RingHolds'
  BY <1>1 DEF RingHolds, Queueing
<1>5. HeardInOrder'
  BY <1>1 DEF HeardInOrder
<1>6. GapsArePaid' /\ TimelineRuns'
  BY <1>1 DEF GapsArePaid, Drained, TimelineRuns
<1> QED
  BY <1>2, <1>3, <1>4, <1>5, <1>6 DEF RingOK

(***************************************************************************)
(* Steps of the audio thread leave the game thread's promises alone: it    *)
(* runs on a device that is not paused, and only while the lock is free.   *)
(***************************************************************************)
ControlOK == LockExcludes /\ Sessions /\ Containing

LEMMA ControlUntouched ==
    ASSUME AudioInvariant, UNCHANGED <<write_sequence, samples, flags, game, paused, depth>>,
           callback.pc # "idle" \/ (~ paused /\ depth = 0)
    PROVE  ControlOK'
<1> USE DEF AudioInvariant
<1>1. UNCHANGED <<producer_finished, session_running, device_resumed, containment_ready>>
  BY DEF flags
<1>2. ~ Quiescent
  BY DEF Quiescent
<1>3. LockExcludes'
  <2>1. depth \in Nat
    BY DEF LocalsOK
  <2> QED
    BY <2>1 DEF LockExcludes
<1>4. Sessions'
  BY <1>1, <1>2 DEF Sessions, Silenced
<1>5. Containing'
  <2>1. game.pc = "reset" => callback.pc = "idle" /\ depth > 0
    BY DEF LockExcludes
  <2>2. game.pc # "reset"
    BY <2>1 DEF LocalsOK
  <2> QED
    BY <1>1, <1>2, <2>2 DEF Containing, Silenced
<1> QED
  BY <1>3, <1>4, <1>5 DEF ControlOK

(***************************************************************************)
(* The steps that neither publish, reset nor fill.                         *)
(***************************************************************************)
LEMMA FailsTypes ==
    ASSUME LocalsOK, Fails
    PROVE  {control_failures', callback_failures'} \subseteq Nat /\ failures' # failures
BY DEF Fails, LocalsOK, failures

LEMMA FailuresAreCounted ==
    ASSUME LocalsOK, Fails \/ failures' = failures
    PROVE  {control_failures', callback_failures'} \subseteq Nat
BY FailsTypes DEF LocalsOK, failures

LEMMA LockToPublishStep == ASSUME AudioInvariant, LockToPublish PROVE AudioInvariant'
<1> USE DEF AudioInvariant
<1>1. /\ game.pc = "lock" /\ callback.pc = "idle" /\ depth' = depth + 1
      /\ game' = [pc |-> "publish", span |-> game.span, eos |-> game.eos,
                  starting |-> game.starting]
      /\ UNCHANGED <<ring, flags, counters, failures, callback, paused, backlog, history>>
  BY GameIs DEF LockToPublish, CallbackHoldsLock, Queueing
<1>2. /\ game.span \in Seq(Nat) /\ game.eos \in BOOLEAN /\ game.starting \in BOOLEAN
      /\ depth \in Nat
  BY <1>1, GameIs DEF LocalsOK, Queueing
<1>3. LocalsOK'
  BY <1>1, <1>2 DEF LocalsOK, Games, Queueing, ring, flags, counters, failures, history
<1>4. RingOK'
  BY <1>1, RingUntouched DEF Queueing, flags, history
<1>5. LockExcludes'
  BY <1>1, <1>2 DEF LockExcludes
<1>6. Sessions' /\ Containing'
  BY <1>1 DEF Sessions, Containing, Quiescent, Queueing, flags, ring
<1> QED
  BY <1>3, <1>4, <1>5, <1>6 DEF RingOK

\* Every way into a containment: the locals are dropped.
LEMMA GiveUpStep ==
    ASSUME AudioInvariant, game' = [pc |-> "pause"],
           {control_failures', callback_failures'} \subseteq Nat,
           UNCHANGED <<ring, flags, counters, callback, sdl, history>>
    PROVE  AudioInvariant'
<1> USE DEF AudioInvariant
<1>1. LocalsOK'
  BY DEF LocalsOK, Games, ring, flags, counters, sdl, history
<1>2. RingOK'
  BY RingUntouched DEF Queueing, flags, history
<1>3. LockExcludes' /\ Sessions' /\ Containing'
  BY DEF LockExcludes, Sessions, Containing, Queueing, flags, ring
<1> QED
  BY <1>1, <1>2, <1>3 DEF RingOK

LEMMA GivesUpStep ==
    ASSUME AudioInvariant, LockToPublishFails \/ ResumeFails \/ Discard PROVE AudioInvariant'
<1>1. CASE LockToPublishFails \/ ResumeFails
  BY <1>1, FailsTypes, GiveUpStep DEF LockToPublishFails, ResumeFails, AudioInvariant
<1>2. CASE Discard
  <2>1. {control_failures', callback_failures'} \subseteq Nat
    BY <1>2 DEF Discard, failures, AudioInvariant, LocalsOK
  <2> QED
    BY <1>2, <2>1, GiveUpStep DEF Discard
<1> QED
  BY <1>1, <1>2

LEMMA UnlockPublishedStep ==
    ASSUME AudioInvariant, UnlockPublished PROVE AudioInvariant'
<1> USE DEF AudioInvariant
<1>1. /\ game.pc = "unlock" /\ depth > 0 /\ depth \in Nat /\ game.starting \in BOOLEAN
      /\ session_running /\ (game.starting \/ device_resumed)
  BY GameIs DEF UnlockPublished, LockExcludes, Sessions, Queueing, LocalsOK
<1>2. /\ depth' = depth - 1 /\ depth' \in Nat
      /\ game' = [pc |-> game'.pc]
      /\ game'.pc = IF game.starting THEN "resume" ELSE "idle"
      /\ UNCHANGED <<ring, flags, counters, failures, callback, paused, backlog, history>>
  BY <1>1 DEF UnlockPublished, AtRest
<1>3. LocalsOK'
  BY <1>1, <1>2 DEF LocalsOK, Games, ring, flags, counters, failures, history
<1>4. RingOK'
  BY <1>2, RingUntouched DEF Queueing, flags, history
<1>5. LockExcludes' /\ Sessions' /\ Containing'
  BY <1>1, <1>2 DEF LockExcludes, Sessions, Containing, Queueing, flags, ring
<1> QED
  BY <1>3, <1>4, <1>5 DEF RingOK

LEMMA UnlockPublishedFailsStep ==
    ASSUME AudioInvariant, UnlockPublishedFails PROVE AudioInvariant'
<1> USE DEF AudioInvariant
<1>1. /\ game.pc = "unlock" /\ depth > 0 /\ depth \in Nat
  BY DEF UnlockPublishedFails, LockExcludes, LocalsOK
<1>2. /\ depth' \in Nat /\ game' = [pc |-> "idle"] /\ containment_ready' = FALSE
      /\ {control_failures', callback_failures'} \subseteq Nat
      /\ UNCHANGED <<ring, producer_finished, session_running, device_resumed, session_generation,
                     counters, callback, paused, backlog, history>>
  BY <1>1, FailsTypes DEF UnlockPublishedFails, AtRest
<1>3. LocalsOK'
  BY <1>2 DEF LocalsOK, Games, ring, counters, history
<1>4. RingOK'
  BY <1>2, RingUntouched DEF Queueing, history
<1>5. LockExcludes' /\ Sessions' /\ Containing'
  BY <1>1, <1>2 DEF LockExcludes, Sessions, Containing, Queueing, ring
<1> QED
  BY <1>3, <1>4, <1>5 DEF RingOK

LEMMA ResumeStep == ASSUME AudioInvariant, Resume PROVE AudioInvariant'
<1> USE DEF AudioInvariant
<1>1. /\ game.pc = "resume" /\ session_running
      /\ game' = [pc |-> "idle"] /\ paused' = FALSE /\ device_resumed' = TRUE
      /\ UNCHANGED <<ring, producer_finished, session_running, containment_ready,
                     session_generation, counters, failures, callback, backlog, depth, history>>
  BY DEF Resume, AtRest, Sessions
<1>2. LocalsOK'
  BY <1>1 DEF LocalsOK, Games, ring, counters, failures, history
<1>3. RingOK'
  BY <1>1, RingUntouched DEF Queueing, history
<1>4. LockExcludes' /\ Sessions' /\ Containing'
  BY <1>1 DEF LockExcludes, Sessions, Containing, Queueing, ring
<1> QED
  BY <1>2, <1>3, <1>4 DEF RingOK

LEMMA PauseStep == ASSUME AudioInvariant, Pause PROVE AudioInvariant'
<1> USE DEF AudioInvariant
<1>1. /\ game.pc = "pause"
      /\ game' = [pc |-> "exclude", ok |-> game'.ok] /\ game'.ok \in BOOLEAN
      /\ game'.ok => paused' /\ ~ device_resumed'
      /\ paused' \in BOOLEAN /\ device_resumed' \in BOOLEAN
      /\ {control_failures', callback_failures'} \subseteq Nat
      /\ UNCHANGED <<ring, producer_finished, session_running, containment_ready,
                     session_generation, counters, callback, backlog, depth, history>>
  <2>1. /\ paused \in BOOLEAN /\ device_resumed \in BOOLEAN
        /\ {control_failures', callback_failures'} \subseteq Nat
    BY FailuresAreCounted DEF Pause, LocalsOK
  <2>2. CASE paused' = TRUE /\ device_resumed' = FALSE /\ game' = [pc |-> "exclude", ok |-> TRUE]
    BY <2>1, <2>2 DEF Pause
  <2>3. CASE paused' = paused /\ device_resumed' = device_resumed
             /\ game' = [pc |-> "exclude", ok |-> FALSE]
    BY <2>1, <2>3 DEF Pause
  <2> QED
    BY <2>2, <2>3 DEF Pause
<1>2. LocalsOK'
  BY <1>1 DEF LocalsOK, Games, ring, counters, history
<1>3. RingOK'
  BY <1>1, RingUntouched DEF Queueing, history
<1>4. LockExcludes' /\ Sessions' /\ Containing'
  BY <1>1 DEF LockExcludes, Sessions, Containing, Queueing, ring
<1> QED
  BY <1>2, <1>3, <1>4 DEF RingOK

LEMMA ExcludeStep == ASSUME AudioInvariant, Exclude PROVE AudioInvariant'
<1> USE DEF AudioInvariant
<1>1. /\ game.pc = "exclude" /\ game.ok \in BOOLEAN /\ depth \in Nat
      /\ game.ok => paused /\ ~ device_resumed
  BY GameIs DEF Exclude, Containing, LocalsOK
<1>2. /\ game' = [pc |-> "clear", ok |-> game'.ok, locked |-> game'.locked]
      /\ game'.ok \in BOOLEAN /\ game'.locked \in BOOLEAN
      /\ game'.ok => game.ok /\ game'.locked
      /\ game'.locked => depth' > 0 /\ callback.pc = "idle"
      /\ depth' \in Nat
      /\ {control_failures', callback_failures'} \subseteq Nat
      /\ UNCHANGED <<ring, flags, counters, callback, paused, backlog, history>>
  <2>1. {control_failures', callback_failures'} \subseteq Nat
    BY FailuresAreCounted DEF Exclude
  <2>2. CASE /\ callback.pc = "idle" /\ depth' = depth + 1
             /\ game' = [pc |-> "clear", ok |-> game.ok, locked |-> TRUE]
    BY <1>1, <2>1, <2>2 DEF Exclude
  <2>3. CASE depth' = depth /\ game' = [pc |-> "clear", ok |-> FALSE, locked |-> FALSE]
    BY <1>1, <2>1, <2>3 DEF Exclude
  <2> QED
    BY <2>2, <2>3 DEF Exclude, CallbackHoldsLock
<1>3. LocalsOK'
  BY <1>2 DEF LocalsOK, Games, ring, flags, counters, history
<1>4. RingOK'
  BY <1>2, RingUntouched DEF Queueing, flags, history
<1>5. LockExcludes' /\ Sessions' /\ Containing'
  BY <1>1, <1>2 DEF LockExcludes, Sessions, Containing, Queueing, flags, ring
<1> QED
  BY <1>3, <1>4, <1>5 DEF RingOK

LEMMA ClearStep == ASSUME AudioInvariant, Clear PROVE AudioInvariant'
<1> USE DEF AudioInvariant
<1>1. /\ game.pc = "clear" /\ game.ok \in BOOLEAN /\ game.locked \in BOOLEAN
      /\ game.ok => paused /\ ~ device_resumed /\ game.locked
      /\ game.locked => depth > 0 /\ callback.pc = "idle"
  BY GameIs DEF Clear, Containing, LockExcludes
<1>2. /\ game' = [pc |-> game'.pc, ok |-> game'.ok] /\ game'.ok \in BOOLEAN
      /\ game'.pc = IF game.locked THEN "reset" ELSE "done"
      /\ game'.ok => game.ok /\ game.locked /\ failures' = failures
      /\ {control_failures', callback_failures'} \subseteq Nat
      /\ backlog' \in BOOLEAN
      /\ backlog' = FALSE \/ failures' # failures
      /\ UNCHANGED <<ring, flags, counters, callback, paused, depth, history>>
  <2>1. /\ {control_failures', callback_failures'} \subseteq Nat /\ backlog' \in BOOLEAN
        /\ backlog' = FALSE \/ failures' # failures
    <3>1. backlog \in BOOLEAN /\ (Fails => failures' # failures)
      BY FailsTypes DEF LocalsOK
    <3> QED
      BY <3>1, FailuresAreCounted DEF Clear
  <2>2. game' = IF ~ game.locked THEN [pc |-> "done", ok |-> FALSE]
                ELSE [pc |-> "reset", ok |-> game.ok /\ failures' = failures]
    BY DEF Clear
  <2>3. CASE game.locked /\ game.ok /\ failures' = failures
    BY <1>1, <2>1, <2>2, <2>3 DEF Clear
  <2>4. CASE game.locked /\ ~ (game.ok /\ failures' = failures)
    <3>1. game' = [pc |-> "reset", ok |-> FALSE]
      BY <1>1, <2>2, <2>4
    <3> QED
      BY <1>1, <2>1, <2>4, <3>1 DEF Clear
  <2>5. CASE ~ game.locked
    BY <1>1, <2>1, <2>2, <2>5 DEF Clear
  <2> QED
    BY <2>3, <2>4, <2>5
<1>3. LocalsOK'
  BY <1>1, <1>2 DEF LocalsOK, Games, ring, flags, counters, history
<1>4. RingOK'
  BY <1>1, <1>2, RingUntouched DEF Queueing, flags, history
<1>5. LockExcludes' /\ Sessions' /\ Containing'
  BY <1>1, <1>2 DEF LockExcludes, Sessions, Containing, Queueing, flags, ring
<1> QED
  BY <1>3, <1>4, <1>5 DEF RingOK

LEMMA UnlockResetStep == ASSUME AudioInvariant, UnlockReset PROVE AudioInvariant'
<1> USE DEF AudioInvariant
<1>1. /\ game.pc = "unlockReset" /\ game.ok \in BOOLEAN /\ depth > 0 /\ depth \in Nat
      /\ game.ok => Silenced
  BY GameIs DEF UnlockReset, Containing, LockExcludes, LocalsOK
<1>2. /\ game' = [pc |-> "done", ok |-> game'.ok] /\ game'.ok \in BOOLEAN
      /\ game'.ok => game.ok
      /\ depth' \in Nat
      /\ {control_failures', callback_failures'} \subseteq Nat
      /\ UNCHANGED <<ring, flags, counters, callback, paused, backlog, history>>
  <2>1. {control_failures', callback_failures'} \subseteq Nat
    BY FailuresAreCounted DEF UnlockReset
  <2>2. CASE depth' = depth - 1 /\ game' = [pc |-> "done", ok |-> game.ok]
    BY <1>1, <2>1, <2>2 DEF UnlockReset
  <2>3. CASE depth' \in {depth - 1, depth} /\ game' = [pc |-> "done", ok |-> FALSE]
    BY <1>1, <2>1, <2>3 DEF UnlockReset
  <2> QED
    BY <2>2, <2>3 DEF UnlockReset
<1>3. LocalsOK'
  BY <1>2 DEF LocalsOK, Games, ring, flags, counters, history
<1>4. RingOK'
  BY <1>2, RingUntouched DEF Queueing, flags, history
<1>5. LockExcludes' /\ Sessions' /\ Containing'
  BY <1>1, <1>2 DEF LockExcludes, Sessions, Containing, Queueing, Silenced, Quiescent, flags, ring
<1> QED
  BY <1>3, <1>4, <1>5 DEF RingOK

LEMMA ContainedStep == ASSUME AudioInvariant, Contained PROVE AudioInvariant'
<1> USE DEF AudioInvariant
<1>1. game.pc = "done" /\ game.ok \in BOOLEAN /\ (game.ok => Silenced)
  BY GameIs DEF Contained, Containing
<1>2. /\ game' = [pc |-> "idle"] /\ containment_ready' = game.ok
      /\ UNCHANGED <<ring, producer_finished, session_running, device_resumed,
                     session_generation, counters, failures, callback, sdl, history>>
  BY DEF Contained, AtRest
<1>3. LocalsOK'
  BY <1>1, <1>2 DEF LocalsOK, Games, ring, counters, failures, sdl, history
<1>4. RingOK'
  BY <1>2, RingUntouched DEF Queueing, history
<1>5. LockExcludes' /\ Sessions' /\ Containing'
  BY <1>1, <1>2 DEF LockExcludes, Sessions, Containing, Queueing, Silenced, Quiescent, sdl, ring
<1> QED
  BY <1>3, <1>4, <1>5 DEF RingOK

(***************************************************************************)
(* A prefix, element by element.                                           *)
(***************************************************************************)
LEMMA PrefixIs ==
    ASSUME NEW s \in Seq(Nat), NEW t \in Seq(Nat), Len(s) <= Len(t)
    PROVE  s = SubSeq(t, 1, Len(s)) <=> \A i \in 1..Len(s) : s[i] = t[i]
<1> DEFINE n == Len(s)
           p == SubSeq(t, 1, n)
<1>1. n \in Nat /\ \A i \in 1..n : t[i] \in Nat
  OBVIOUS
<1>2. p \in Seq(Nat) /\ Len(p) = (IF 1 <= n THEN n - 1 + 1 ELSE 0)
      /\ \A i \in 1..(n - 1 + 1) : p[i] = t[1 + i - 1]
  <2> HIDE DEF n
  <2> QED
    BY <1>1, SubSeqProperties
<1>3. Len(p) = n /\ \A i \in 1..n : p[i] = t[i]
  <2> HIDE DEF n, p
  <2> QED
    BY <1>1, <1>2
<1> HIDE DEF p
<1>4. (\A i \in 1..n : s[i] = p[i]) => s = p
  BY <1>2, <1>3, SeqEqual
<1> QED
  BY <1>3, <1>4 DEF p

LEMMA HeardIs ==
    ASSUME LocalsOK
    PROVE  HeardInOrder <=>
             /\ Len(heard) = read_sequence + (IF callback.pc = "giveBack" THEN callback.taken ELSE 0)
             /\ Len(heard) <= Len(accepted)
             /\ \A i \in 1..Len(heard) : heard[i] = accepted[i]
BY PrefixIs DEF LocalsOK, HeardInOrder

(***************************************************************************)
(* The producer.                                                           *)
(***************************************************************************)
LEMMA BeginQueueStep ==
    ASSUME AudioInvariant, NEW n \in 1..Capacity, NEW end_of_stream \in BOOLEAN,
           BeginQueue(n, end_of_stream)
    PROVE  AudioInvariant'
<1> USE DEF AudioInvariant
<1>1. Span(n) \in Seq(Nat) /\ Len(Span(n)) = n
  <2>1. n \in Nat /\ \A i \in 1..n : written + i \in Nat
    <3>1. written \in Nat /\ Capacity \in Nat
      BY Bounds DEF LocalsOK
    <3> QED
      BY <3>1
  <2>2. Span(n) = [i \in 1..n |-> written + i]
    BY DEF Span
  <2> QED
    BY <2>1, <2>2
<1>2. /\ game.pc = "idle" /\ ~ (session_running /\ producer_finished) /\ containment_ready
      /\ write_sequence + n - read_sequence <= Capacity
      /\ game' = [pc |-> "fill", span |-> Span(n), eos |-> end_of_stream,
                  starting |-> ~ device_resumed]
      /\ UNCHANGED <<ring, flags, counters, failures, callback, sdl, history>>
  <2>1. write_sequence \in Nat /\ read_sequence \in Nat /\ n \in Nat /\ Capacity \in Nat
    BY Bounds DEF LocalsOK
  <2>2. n <= Capacity - (write_sequence - read_sequence)
    BY DEF BeginQueue, HasRoom
  <2>3. write_sequence + n - read_sequence <= Capacity
    BY <2>1, <2>2
  <2> QED
    BY <2>3 DEF BeginQueue
<1>3. LocalsOK'
  <2>1. (~ device_resumed) \in BOOLEAN
    OBVIOUS
  <2> QED
    BY <1>1, <1>2, <2>1 DEF LocalsOK, Games, Queueing, ring, flags, counters, failures, sdl,
       history
<1>4. Extent' /\ Pass' /\ RingHolds'
  BY <1>1, <1>2 DEF Extent, Pass, RingHolds, ring, history
<1>5. HeardInOrder' /\ GapsArePaid' /\ TimelineRuns'
  BY <1>2 DEF HeardInOrder, GapsArePaid, Drained, TimelineRuns, ring, flags, counters, history
<1>6. LockExcludes' /\ Containing'
  BY <1>2 DEF LockExcludes, Containing, sdl
<1>7. Sessions'
  <2>1. (device_resumed /\ session_running) \/ Quiescent
    BY <1>2 DEF Sessions, Silenced
  <2>2. game'.pc = "fill" /\ (game'.starting <=> ~ device_resumed)
    BY <1>2
  <2>3. UNCHANGED <<write_sequence, read_sequence, producer_finished, session_running,
                    device_resumed, paused, backlog, callback>>
    BY <1>2 DEF ring, flags, sdl
  <2>4. Quiescent' <=> Quiescent
    BY <2>3 DEF Quiescent
  <2>5. CASE device_resumed
    <3>1. session_running /\ ~ producer_finished /\ ~ game'.starting
      BY <1>2, <2>1, <2>2, <2>5 DEF Quiescent
    <3> QED
      BY <2>2, <2>3, <2>5, <3>1 DEF Sessions, Queueing
  <2>6. CASE ~ device_resumed
    BY <2>1, <2>2, <2>3, <2>4, <2>6 DEF Sessions, Queueing
  <2> QED
    BY <2>5, <2>6
<1> QED
  BY <1>3, <1>4, <1>5, <1>6, <1>7

\* The span goes to places of its own: behind what is published, and once each.
LEMMA FillRingStep == ASSUME AudioInvariant, FillRing PROVE AudioInvariant'
<1> USE DEF AudioInvariant
<1> DEFINE n == Len(game.span)
           place(k) == (write_sequence + k - 1) % Capacity
           mine(i) == {k \in 1..n : place(k) = i}
<1>1. /\ game.pc = "fill" /\ game.span \in Seq(Nat) /\ n \in Nat
      /\ game.eos \in BOOLEAN /\ game.starting \in BOOLEAN
      /\ write_sequence \in Nat /\ read_sequence \in Nat /\ Capacity \in Nat \ {0}
      /\ samples \in [0..(Capacity - 1) -> Nat]
  <2>1. game.pc = "fill" /\ LocalsOK
    BY DEF FillRing
  <2>2. game.span \in Seq(Nat) /\ game.eos \in BOOLEAN /\ game.starting \in BOOLEAN
    BY <2>1, GameIs DEF Queueing
  <2>3. /\ write_sequence \in Nat /\ read_sequence \in Nat
        /\ samples \in [0..(Capacity - 1) -> Nat]
    BY DEF LocalsOK
  <2> QED
    BY <2>1, <2>2, <2>3, Bounds
<1>2. read_sequence <= write_sequence /\ write_sequence + n - read_sequence <= Capacity
  BY <1>1 DEF Extent, Queueing
<1>3. \A k \in 1..n : game.span[k] \in Nat
  BY <1>1
<1>4. /\ game' = [pc |-> "lock", span |-> game.span, eos |-> game.eos, starting |-> game.starting]
      /\ samples' = [i \in 0..(Capacity - 1) |->
                       IF mine(i) = {} THEN samples[i]
                       ELSE game.span[CHOOSE k \in mine(i) : \A l \in mine(i) : l <= k]]
      /\ written' = written + n
      /\ UNCHANGED <<write_sequence, read_sequence, flags, counters, failures, callback, sdl,
                     accepted, heard, quiet, gaps>>
  <2>1. game = [pc |-> "fill", span |-> game.span, eos |-> game.eos, starting |-> game.starting]
    BY <1>1, GameIs DEF Queueing
  <2>2. game' = [game EXCEPT !.pc = "lock"]
    BY DEF FillRing
  <2>3. game' = [pc |-> "lock", span |-> game.span, eos |-> game.eos, starting |-> game.starting]
    BY <2>1, <2>2
  <2> QED
    BY <2>3 DEF FillRing
<1> HIDE DEF n
<1>5. \A k, l \in 1..n : place(k) = place(l) => k = l
  <2> SUFFICES ASSUME NEW k \in 1..n, NEW l \in 1..n, place(k) = place(l), k <= l PROVE k = l
    BY <1>1
  <2> DEFINE a == write_sequence + k - 1
             b == write_sequence + l - 1
  <2>1. a \in Nat /\ b \in Nat /\ a <= b /\ b < a + Capacity
    BY <1>1, <1>2
  <2>2. a % Capacity = b % Capacity
    OBVIOUS
  <2>3. a = b
    <3> HIDE DEF a, b
    <3> QED
      BY <1>1, <2>1, <2>2, PlacesDiffer
  <2> QED
    BY <1>1, <2>3
<1>6. \A k \in Nat, l \in 1..n : read_sequence <= k /\ k < write_sequence
                                    => place(l) # k % Capacity
  <2> SUFFICES ASSUME NEW k \in Nat, NEW l \in 1..n, read_sequence <= k, k < write_sequence,
                      place(l) = k % Capacity
               PROVE  FALSE
    OBVIOUS
  <2> DEFINE b == write_sequence + l - 1
  <2>1. b \in Nat /\ k < b /\ k <= b /\ b < k + Capacity
    BY <1>1, <1>2
  <2>2. k % Capacity = b % Capacity
    OBVIOUS
  <2>3. k = b
    <3> HIDE DEF b
    <3> QED
      BY <1>1, <2>1, <2>2, PlacesDiffer
  <2> QED
    BY <1>1, <2>1, <2>3
<1>7. \A k \in 1..n : place(k) \in 0..(Capacity - 1)
  <2> SUFFICES ASSUME NEW k \in 1..n PROVE place(k) \in 0..(Capacity - 1)
    OBVIOUS
  <2>1. write_sequence + k - 1 \in Nat
    BY <1>1
  <2> QED
    BY <1>1, <2>1, Remainder
<1>8. \A k \in 1..n : mine(place(k)) = {k}
  <2> HIDE DEF place
  <2> QED
    BY <1>5
<1>9. \A k \in 1..n : samples'[place(k)] = game.span[k]
  <2> SUFFICES ASSUME NEW k \in 1..n PROVE samples'[place(k)] = game.span[k]
    OBVIOUS
  <2>1. (CHOOSE j \in mine(place(k)) : \A l \in mine(place(k)) : l <= j) = k
    <3> HIDE DEF mine, place
    <3>1. (CHOOSE j \in {k} : \A l \in {k} : l <= j) = k
      BY <1>1
    <3> QED
      BY <1>8, <3>1
  <2> HIDE DEF mine, place
  <2> QED
    BY <1>4, <1>7, <1>8, <2>1
<1>10. \A i \in 0..(Capacity - 1) : (\A k \in 1..n : place(k) # i) => samples'[i] = samples[i]
  BY <1>4
<1>11. samples' \in [0..(Capacity - 1) -> Nat]
  <2>1. ASSUME NEW i \in 0..(Capacity - 1) PROVE samples'[i] \in Nat
    <3>1. CASE \A k \in 1..n : place(k) # i
      BY <1>1, <1>10, <3>1
    <3>2. CASE \E k \in 1..n : place(k) = i
      BY <1>3, <1>9, <3>2
    <3> QED
      BY <3>1, <3>2
  <2> QED
    BY <1>4, <2>1
<1>12. LocalsOK'
  <2>1. written' \in Nat
    BY <1>1, <1>4 DEF LocalsOK
  <2>2. game' \in Games /\ game'.pc = "lock" /\ callback' = callback
    BY <1>1, <1>4 DEF Games, Queueing
  <2>3. UNCHANGED <<write_sequence, read_sequence, session_generation, frames_consumed,
                    timeline_frames, underrun_frames, control_failures, callback_failures, depth,
                    quiet, gaps, producer_finished, session_running, device_resumed,
                    containment_ready, paused, backlog, accepted, heard>>
    BY <1>4 DEF flags, counters, failures, sdl
  <2> HIDE DEF n, place, mine
  <2> QED
    BY <1>11, <2>1, <2>2, <2>3 DEF LocalsOK
<1>13. Extent' /\ Pass' /\ HeardInOrder' /\ GapsArePaid' /\ TimelineRuns'
  <2>1. Extent' /\ Pass'
    BY <1>1, <1>4 DEF Extent, Pass, Queueing
  <2> QED
    BY <1>4, <2>1 DEF HeardInOrder, GapsArePaid, Drained, TimelineRuns, flags, counters
<1>14. RingHolds'
  <2>1. ASSUME NEW k \in Nat, read_sequence <= k, k < write_sequence
        PROVE  samples'[k % Capacity] = accepted[k + 1]
    <3>1. k % Capacity \in 0..(Capacity - 1) /\ samples[k % Capacity] = accepted[k + 1]
      BY <1>1, <2>1, Remainder DEF RingHolds
    <3>2. samples'[k % Capacity] = samples[k % Capacity]
      <4> HIDE DEF place
      <4> QED
        BY <1>6, <1>10, <2>1, <3>1
    <3> QED
      BY <3>1, <3>2
  <2>2. UNCHANGED <<write_sequence, read_sequence, accepted>> /\ game'.span = game.span
    BY <1>4
  <2> QED
    BY <1>9, <2>1, <2>2 DEF RingHolds, n
<1>15. LockExcludes' /\ Containing'
  BY <1>1, <1>4 DEF LockExcludes, Containing, sdl
<1>16. Sessions'
  BY <1>1, <1>4 DEF Sessions, Quiescent, Queueing, flags, sdl
<1> QED
  BY <1>12, <1>13, <1>14, <1>15, <1>16

LEMMA PublishStep == ASSUME AudioInvariant, Publish PROVE AudioInvariant'
<1> USE DEF AudioInvariant
<1> DEFINE n == Len(game.span)
<1>1. /\ game.pc = "publish" /\ game.span \in Seq(Nat) /\ n \in Nat
      /\ game.eos \in BOOLEAN /\ game.starting \in BOOLEAN
      /\ write_sequence \in Nat /\ read_sequence \in Nat /\ accepted \in Seq(Nat)
      /\ Capacity \in Nat \ {0} /\ session_running \in BOOLEAN /\ session_generation \in Nat
      /\ depth > 0 /\ callback.pc = "idle"
  <2>1. game.pc = "publish" /\ LocalsOK
    BY DEF Publish
  <2>2. game.span \in Seq(Nat) /\ game.eos \in BOOLEAN /\ game.starting \in BOOLEAN
    BY <2>1, GameIs DEF Queueing
  <2>3. /\ write_sequence \in Nat /\ read_sequence \in Nat /\ accepted \in Seq(Nat)
        /\ session_running \in BOOLEAN /\ session_generation \in Nat
    BY DEF LocalsOK
  <2>4. depth > 0 /\ callback.pc = "idle"
    BY <2>1 DEF LockExcludes
  <2> QED
    BY <2>1, <2>2, <2>3, <2>4, Bounds
<1>2. /\ game' = [pc |-> "unlock", span |-> game.span, eos |-> game.eos, starting |-> game.starting]
      /\ accepted' = accepted \o game.span /\ write_sequence' = write_sequence + n
      /\ producer_finished' = game.eos
      /\ session_running' = (session_running \/ game.starting)
      /\ session_generation' = session_generation + (IF game.starting THEN 1 ELSE 0)
      /\ UNCHANGED <<read_sequence, samples, device_resumed, containment_ready, counters,
                     failures, callback, sdl, written, heard, quiet, gaps>>
  <2>1. game = [pc |-> "publish", span |-> game.span, eos |-> game.eos, starting |-> game.starting]
    BY <1>1, GameIs DEF Queueing
  <2>2. game' = [game EXCEPT !.pc = "unlock"]
    BY DEF Publish
  <2>3. game' = [pc |-> "unlock", span |-> game.span, eos |-> game.eos, starting |-> game.starting]
    BY <2>1, <2>2
  <2> QED
    BY <2>3 DEF Publish
<1>3. /\ accepted' \in Seq(Nat) /\ Len(accepted') = Len(accepted) + n
      /\ \A i \in 1..Len(accepted) : accepted'[i] = accepted[i]
      /\ \A i \in 1..n : accepted'[Len(accepted) + i] = game.span[i]
  BY <1>1, <1>2
<1>4. /\ write_sequence = Len(accepted) /\ read_sequence <= write_sequence
      /\ write_sequence + n - read_sequence <= Capacity
  BY <1>1 DEF Extent, Queueing
<1> HIDE DEF n
<1>5. session_running' = TRUE
  BY <1>1, <1>2 DEF Sessions, Queueing
<1>6. LocalsOK'
  <2>1. session_generation' \in Nat /\ write_sequence' \in Nat
    BY <1>1, <1>2
  <2> QED
    BY <1>1, <1>2, <1>3, <1>5, <2>1 DEF LocalsOK, Games, Queueing, counters, failures, sdl
<1>7. Extent' /\ Pass'
  <2>1. /\ write_sequence' = Len(accepted') /\ read_sequence' <= write_sequence'
        /\ write_sequence' - read_sequence' <= Capacity
    BY <1>1, <1>2, <1>3, <1>4
  <2>2. game'.pc = "unlock" /\ callback'.pc = "idle"
    BY <1>1, <1>2
  <2> QED
    BY <2>1, <2>2 DEF Extent, Pass, Passing, Queueing
<1>8. RingHolds'
  <2>1. ASSUME NEW k \in Nat, read_sequence <= k, k < write_sequence + n
        PROVE  samples[k % Capacity] = accepted'[k + 1]
    <3>1. CASE k < write_sequence
      <4>1. samples[k % Capacity] = accepted[k + 1]
        BY <2>1, <3>1 DEF RingHolds
      <4>2. k + 1 \in 1..Len(accepted)
        BY <1>1, <1>4, <2>1, <3>1
      <4> QED
        BY <1>3, <4>1, <4>2
    <3>2. CASE k >= write_sequence
      <4> DEFINE j == k - write_sequence + 1
      <4>1. j \in 1..n /\ k = write_sequence + j - 1 /\ k + 1 = Len(accepted) + j
        BY <1>1, <1>4, <2>1, <3>2
      <4> HIDE DEF j
      <4>2. samples[(write_sequence + j - 1) % Capacity] = game.span[j]
        BY <1>1, <4>1 DEF RingHolds, n
      <4> QED
        BY <1>3, <4>1, <4>2
    <3> QED
      BY <1>1, <2>1, <3>1, <3>2
  <2> QED
    BY <1>2, <2>1 DEF RingHolds
<1>9. HeardInOrder'
  <2>1. /\ Len(heard) = read_sequence /\ Len(heard) <= Len(accepted)
        /\ \A i \in 1..Len(heard) : heard[i] = accepted[i]
    BY <1>1, HeardIs
  <2>2. /\ Len(heard') = read_sequence' /\ callback'.pc = "idle"
        /\ Len(heard') <= Len(accepted')
        /\ \A i \in 1..Len(heard') : heard'[i] = accepted'[i]
    BY <1>1, <1>2, <1>3, <2>1
  <2>3. LocalsOK' /\ heard' \in Seq(Nat) /\ accepted' \in Seq(Nat)
    BY <1>6 DEF LocalsOK
  <2> QED
    BY <2>2, <2>3, PrefixIs DEF HeardInOrder
<1>10. GapsArePaid' /\ TimelineRuns'
  <2>1. ~ Drained
    BY <1>1 DEF Sessions, Drained, Queueing, Quiescent
  <2> QED
    BY <1>2, <2>1 DEF GapsArePaid, TimelineRuns, counters
<1>11. LockExcludes' /\ Containing'
  BY <1>1, <1>2 DEF LockExcludes, Containing, sdl
<1>12. Sessions'
  <2>1. game.starting \/ device_resumed
    BY <1>1 DEF Sessions, Queueing
  <2> QED
    BY <1>1, <1>2, <1>5, <2>1 DEF Sessions, Queueing
<1> QED
  BY <1>6, <1>7, <1>8, <1>9, <1>10, <1>11, <1>12

LEMMA ResetStep == ASSUME AudioInvariant, Reset PROVE AudioInvariant'
<1> USE DEF AudioInvariant
<1>1. /\ game.pc = "reset" /\ game.ok \in BOOLEAN /\ game = [pc |-> "reset", ok |-> game.ok]
      /\ depth > 0 /\ callback.pc = "idle" /\ Capacity \in Nat \ {0}
      /\ DOMAIN samples = 0..(Capacity - 1)
      /\ game.ok => paused /\ ~ device_resumed /\ ~ backlog
  BY GameIs, Bounds DEF Reset, LockExcludes, Containing, LocalsOK
<1>2. /\ game' = [pc |-> "unlockReset", ok |-> game.ok]
      /\ samples' = [i \in 0..(Capacity - 1) |-> Silence]
      /\ write_sequence' = 0 /\ read_sequence' = 0
      /\ producer_finished' = TRUE /\ session_running' = FALSE
      /\ accepted' = <<>> /\ heard' = <<>> /\ quiet' = 0
      /\ UNCHANGED <<device_resumed, containment_ready, session_generation, counters,
                     failures, callback, sdl, written, gaps>>
  <2>1. game' = [game EXCEPT !.pc = "unlockReset"]
    BY DEF Reset
  <2>2. game' = [pc |-> "unlockReset", ok |-> game.ok]
    BY <1>1, <2>1
  <2> QED
    BY <1>1, <2>2 DEF Reset
<1>3. LocalsOK'
  <2>1. /\ samples' \in [0..(Capacity - 1) -> Nat] /\ accepted' \in Seq(Nat) /\ heard' \in Seq(Nat)
        /\ game' \in Games /\ game'.pc = "unlockReset" /\ callback' = callback
    BY <1>1, <1>2 DEF Games, Silence
  <2>2. UNCHANGED <<session_generation, frames_consumed, timeline_frames, underrun_frames,
                    control_failures, callback_failures, depth, written, gaps, device_resumed,
                    containment_ready, paused, backlog>>
    BY <1>2 DEF counters, failures, sdl
  <2>3. {write_sequence', read_sequence', session_generation', frames_consumed', timeline_frames',
         underrun_frames', control_failures', callback_failures', depth', written', quiet', gaps'}
            \subseteq Nat
    BY <1>2, <2>2 DEF LocalsOK
  <2>4. {producer_finished', session_running', device_resumed', containment_ready', paused', backlog'}
            \subseteq BOOLEAN
    BY <1>2, <2>2 DEF LocalsOK
  <2> QED
    BY <2>1, <2>3, <2>4 DEF LocalsOK
<1>4. Extent' /\ Pass' /\ RingHolds'
  BY <1>1, <1>2 DEF Extent, Pass, Passing, RingHolds, Queueing
<1>5. HeardInOrder'
  BY <1>1, <1>2 DEF HeardInOrder
<1>6. GapsArePaid' /\ TimelineRuns'
  BY <1>2 DEF GapsArePaid, TimelineRuns, counters, LocalsOK
<1>7. LockExcludes' /\ Sessions' /\ Containing'
  BY <1>1, <1>2 DEF LockExcludes, Sessions, Containing, Silenced, Quiescent, Queueing, sdl
<1> QED
  BY <1>3, <1>4, <1>5, <1>6, <1>7

(***************************************************************************)
(* The audio thread.                                                       *)
(***************************************************************************)
LEMMA DemandStep ==
    ASSUME AudioInvariant, NEW n \in 1..MaxDemand, Demand(n) PROVE AudioInvariant'
<1> USE DEF AudioInvariant
<1>1. /\ callback.pc = "idle" /\ ~ paused /\ depth = 0
      /\ callback' = [pc |-> "load", remaining |-> n] /\ n \in Nat \ {0}
      /\ UNCHANGED <<ring, flags, counters, failures, game, sdl, history>>
  BY Bounds DEF Demand
<1>2. LocalsOK'
  BY <1>1 DEF LocalsOK, Callbacks, ring, flags, counters, failures, sdl, history
<1>3. ControlOK'
  BY <1>1, ControlUntouched DEF ring, sdl
<1>4. Extent' /\ RingHolds' /\ Pass'
  BY <1>1 DEF Extent, RingHolds, Pass, Passing, ring, history
<1>5. HeardInOrder' /\ GapsArePaid' /\ TimelineRuns'
  BY <1>1 DEF HeardInOrder, GapsArePaid, Drained, TimelineRuns, Passing, ring, flags, counters, history
<1> QED
  BY <1>2, <1>3, <1>4, <1>5 DEF ControlOK

LEMMA DemandTooLargeStep ==
    ASSUME AudioInvariant, DemandTooLarge PROVE AudioInvariant'
<1> USE DEF AudioInvariant
<1>1. /\ {control_failures', callback_failures'} \subseteq Nat
      /\ ~ paused /\ depth = 0
      /\ UNCHANGED <<ring, flags, counters, game, callback, sdl, history>>
  BY DEF DemandTooLarge, LocalsOK
<1>2. LocalsOK'
  BY <1>1 DEF LocalsOK, ring, flags, counters, sdl, history
<1>3. ControlOK'
  BY <1>1, ControlUntouched DEF ring, sdl
<1>4. RingOK'
  BY <1>1, RingUntouched DEF flags, history
<1> QED
  BY <1>2, <1>3, <1>4 DEF ControlOK, RingOK

LEMMA LoadExtentStep == ASSUME AudioInvariant, LoadExtent PROVE AudioInvariant'
<1> USE DEF AudioInvariant
<1> DEFINE requested == Minimum(callback.remaining, Chunk)
           queued == write_sequence - read_sequence
<1>1. /\ callback.pc = "load" /\ callback.remaining \in Nat \ {0}
      /\ write_sequence \in Nat /\ read_sequence \in Nat /\ Capacity \in Nat /\ Chunk \in Nat \ {0}
      /\ queued \in Nat /\ queued <= Capacity
  <2>1. callback.pc = "load"
    BY DEF LoadExtent
  <2>2. callback.remaining \in Nat \ {0}
    BY <2>1, CallbackIs
  <2>3. write_sequence \in Nat /\ read_sequence \in Nat
    BY DEF LocalsOK
  <2>4. read_sequence <= write_sequence /\ write_sequence - read_sequence <= Capacity
    BY DEF Extent
  <2> QED
    BY <2>1, <2>2, <2>3, <2>4, Bounds
<1>2. requested \in Nat \ {0} /\ requested <= callback.remaining
  BY <1>1 DEF Minimum
<1>3. /\ callback' = [pc |-> "copy", remaining |-> callback.remaining,
                      requested |-> requested, from |-> read_sequence,
                      taken |-> callback'.taken]
      /\ callback'.taken = Minimum(requested, queued)
      /\ UNCHANGED <<ring, flags, counters, failures, game, sdl, history>>
  <2>1. (IF write_sequence >= read_sequence THEN Minimum(queued, Capacity) ELSE 0) = queued
    BY <1>1 DEF Minimum
  <2> QED
    BY <2>1 DEF LoadExtent
<1>4. /\ callback'.taken \in Nat /\ callback'.taken <= requested /\ callback'.taken <= queued
      /\ callback'.taken < requested => callback'.taken = queued
  <2> HIDE DEF requested, queued
  <2> QED
    BY <1>1, <1>2, <1>3 DEF Minimum
<1> HIDE DEF requested
<1>5. LocalsOK'
  <2>1. callback' \in Callbacks /\ callback'.pc = "copy"
    BY <1>1, <1>2, <1>3, <1>4 DEF Callbacks, Passing
  <2> QED
    BY <1>3, <2>1 DEF LocalsOK, ring, flags, counters, failures, sdl, history
<1>6. ControlOK'
  BY <1>1, <1>3, ControlUntouched DEF ring, sdl
<1>7. Extent' /\ RingHolds'
  BY <1>3 DEF Extent, RingHolds, ring, history
<1>8. Pass'
  <2>1. UNCHANGED <<write_sequence, read_sequence>>
    BY <1>3 DEF ring
  <2>2. /\ read_sequence + callback'.taken <= write_sequence
        /\ callback'.taken < requested => read_sequence + callback'.taken = write_sequence
    BY <1>1, <1>4
  <2>3. /\ callback'.pc = "copy" /\ callback'.from = read_sequence
        /\ callback'.requested = requested /\ callback'.remaining = callback.remaining
    BY <1>3
  <2> QED
    BY <1>2, <1>4, <2>1, <2>2, <2>3 DEF Pass
<1>9. HeardInOrder'
  BY <1>1, <1>3 DEF HeardInOrder, ring, history
<1>10. GapsArePaid' /\ TimelineRuns'
  <2>1. Drained => Drained'
    <3>1. Drained => queued = 0
      BY <1>1 DEF Drained
    <3> QED
      BY <1>3, <1>4, <3>1 DEF Drained, ring, flags
  <2> QED
    BY <1>3, <2>1 DEF GapsArePaid, TimelineRuns, counters, history
<1> QED
  BY <1>5, <1>6, <1>7, <1>8, <1>9, <1>10 DEF ControlOK

\* The pass copies exactly the next frames of the movie, whatever the producer is writing.
LEMMA CopyAndPutStep == ASSUME AudioInvariant, CopyAndPut PROVE AudioInvariant'
<1> USE DEF AudioInvariant
<1> DEFINE n == callback.taken
<1>1. /\ callback.pc = "copy" /\ n \in Nat /\ callback.from = read_sequence
      /\ read_sequence + n <= write_sequence /\ write_sequence = Len(accepted)
      /\ callback = [pc |-> "copy", remaining |-> callback.remaining,
                     requested |-> callback.requested, from |-> callback.from,
                     taken |-> callback.taken]
  BY CallbackIs DEF CopyAndPut, Pass, Passing, Extent
<1>2. /\ read_sequence \in Nat /\ write_sequence \in Nat /\ Capacity \in Nat \ {0}
      /\ samples \in [0..(Capacity - 1) -> Nat] /\ heard \in Seq(Nat) /\ accepted \in Seq(Nat)
      /\ backlog \in BOOLEAN
  BY Bounds DEF LocalsOK
<1>3. /\ callback' = [pc |-> "giveBack", remaining |-> callback.remaining,
                      requested |-> callback.requested, from |-> callback.from,
                      taken |-> callback.taken]
      /\ heard' = heard \o Copied
      /\ backlog' = (backlog \/ n > 0)
      /\ UNCHANGED <<ring, flags, counters, failures, game, paused, depth, written, accepted,
                     quiet, gaps>>
  <2>1. callback' = [callback EXCEPT !.pc = "giveBack"]
    BY DEF CopyAndPut
  <2>2. callback' = [pc |-> "giveBack", remaining |-> callback.remaining,
                     requested |-> callback.requested, from |-> callback.from,
                     taken |-> callback.taken]
    BY <1>1, <2>1
  <2> QED
    BY <2>2 DEF CopyAndPut
<1>4. Copied = [i \in 1..n |-> samples[(read_sequence + i - 1) % Capacity]]
  BY <1>1 DEF Copied
<1> DEFINE place(i) == (read_sequence + i - 1) % Capacity
<1>5. Copied = [i \in 1..n |-> samples[place(i)]]
  BY <1>4
<1> HIDE DEF place
<1>a. ASSUME NEW i \in 1..n
      PROVE  samples[place(i)] \in Nat /\ samples[place(i)] = accepted[read_sequence + i]
  <2> DEFINE k == read_sequence + i - 1
  <2> HIDE DEF n
  <2>1. k \in Nat /\ read_sequence <= k /\ k < write_sequence /\ k + 1 = read_sequence + i
    <3>1. n \in Nat /\ read_sequence + n <= write_sequence
      BY <1>1 DEF n
    <3>2. i \in Nat /\ 1 <= i /\ i <= n
      BY <3>1
    <3>3. read_sequence \in Nat /\ write_sequence \in Nat
      BY <1>2
    <3> QED
      BY <3>1, <3>2, <3>3
  <2>2. place(i) = k % Capacity
    BY DEF place
  <2> HIDE DEF k
  <2>3. samples[k % Capacity] = accepted[k + 1]
    BY <2>1 DEF RingHolds
  <2>4. k % Capacity \in 0..(Capacity - 1)
    BY <1>2, <2>1, Remainder
  <2>5. samples[k % Capacity] \in Nat
    BY <1>2, <2>4
  <2> QED
    BY <2>1, <2>2, <2>3, <2>5
<1> HIDE DEF n
<1>b. n \in Nat
  BY <1>1 DEF n
<1>6. /\ Copied \in Seq(Nat) /\ Len(Copied) = n
      /\ \A i \in 1..n : Copied[i] = accepted[read_sequence + i]
  <2>1. Copied \in [1..n -> Nat]
    BY <1>5, <1>a
  <2>2. Copied \in Seq(Nat)
    BY <1>b, <2>1
  <2>3. Len(Copied) = n
    BY <1>b, <2>1, <2>2
  <2>4. \A i \in 1..n : Copied[i] = accepted[read_sequence + i]
    BY <1>5, <1>a
  <2> QED
    BY <2>2, <2>3, <2>4
<1>7. /\ heard' \in Seq(Nat) /\ Len(heard') = Len(heard) + n
      /\ \A i \in 1..Len(heard) : heard'[i] = heard[i]
      /\ \A i \in 1..n : heard'[Len(heard) + i] = Copied[i]
  <2>1. heard \in Seq(Nat) /\ Copied \in Seq(Nat) /\ Len(Copied) = n /\ n \in Nat
    BY <1>2, <1>6, <1>b
  <2>2. /\ heard \o Copied \in Seq(Nat) /\ Len(heard \o Copied) = Len(heard) + n
        /\ \A i \in 1..Len(heard) : (heard \o Copied)[i] = heard[i]
        /\ \A i \in 1..n : (heard \o Copied)[Len(heard) + i] = Copied[i]
    BY <2>1
  <2> QED
    BY <1>3, <2>2
<1>8. /\ Len(heard) = read_sequence
      /\ \A i \in 1..Len(heard) : heard[i] = accepted[i]
  <2>1. callback.pc # "giveBack"
    BY <1>1
  <2> QED
    BY <1>2, <2>1, HeardIs
<1>9. LocalsOK'
  <2>1. callback' \in Callbacks /\ callback'.pc = "giveBack"
    <3>1. /\ callback.remaining \in Nat \ {0} /\ callback.requested \in Nat \ {0}
          /\ callback.from \in Nat /\ callback.taken \in Nat
      BY <1>1, CallbackIs DEF Passing
    <3> QED
      BY <1>3, <3>1 DEF Callbacks, Passing
  <2>2. backlog' \in BOOLEAN
    BY <1>3
  <2> QED
    BY <1>3, <1>7, <2>1, <2>2 DEF LocalsOK, ring, flags, counters, failures
<1>10. ControlOK'
  BY <1>1, <1>3, ControlUntouched DEF ring
<1>11. Extent' /\ RingHolds'
  BY <1>3 DEF Extent, RingHolds, ring
<1>12. Pass'
  <2>1. UNCHANGED <<write_sequence, read_sequence>>
    BY <1>3 DEF ring
  <2>2. /\ callback'.pc = "giveBack" /\ callback'.from = callback.from
        /\ callback'.requested = callback.requested /\ callback'.remaining = callback.remaining
        /\ callback'.taken = callback.taken
    BY <1>3
  <2> QED
    BY <1>1, <2>1, <2>2 DEF Pass, Passing
<1>13. HeardInOrder'
  <2>1. \A i \in 1..Len(heard') : heard'[i] = accepted[i]
    <3> SUFFICES ASSUME NEW i \in 1..Len(heard') PROVE heard'[i] = accepted[i]
      OBVIOUS
    <3>1. CASE i <= read_sequence
      BY <1>2, <1>7, <1>8, <3>1
    <3>2. CASE i > read_sequence
      <4> DEFINE j == i - read_sequence
      <4>1. j \in 1..n /\ i = Len(heard) + j /\ i = read_sequence + j
        BY <1>1, <1>2, <1>7, <1>8, <3>2 DEF n
      <4> HIDE DEF j
      <4> QED
        BY <1>6, <1>7, <4>1
    <3> QED
      BY <1>2, <1>7, <3>1, <3>2
  <2>2. Len(heard') <= Len(accepted) /\ Len(heard') = read_sequence + n
    BY <1>1, <1>7, <1>8 DEF n
  <2>3. heard' = SubSeq(accepted, 1, Len(heard'))
    BY <1>2, <1>7, <2>1, <2>2, PrefixIs
  <2>4. /\ read_sequence' = read_sequence /\ accepted' = accepted
        /\ callback'.pc = "giveBack" /\ callback'.taken = n
    BY <1>3 DEF ring, n
  <2> QED
    BY <2>2, <2>3, <2>4 DEF HeardInOrder
<1>14. GapsArePaid' /\ TimelineRuns'
  BY <1>1, <1>3 DEF GapsArePaid, Drained, TimelineRuns, Passing, ring, flags, counters
<1> QED
  BY <1>9, <1>10, <1>11, <1>12, <1>13, <1>14 DEF ControlOK

LEMMA PutFailsStep == ASSUME AudioInvariant, PutFails PROVE AudioInvariant'
<1> USE DEF AudioInvariant
<1>1. /\ callback.pc = "copy" /\ callback' = [pc |-> "idle"]
      /\ {control_failures', callback_failures'} \subseteq Nat
      /\ UNCHANGED <<ring, flags, counters, game, sdl, history>>
  BY DEF PutFails, AtRest, LocalsOK
<1>2. LocalsOK'
  BY <1>1 DEF LocalsOK, Callbacks, ring, flags, counters, sdl, history
<1>3. ControlOK'
  BY <1>1, ControlUntouched DEF ring, sdl
<1>4. Extent' /\ RingHolds' /\ Pass'
  BY <1>1 DEF Extent, RingHolds, Pass, Passing, ring, history
<1>5. HeardInOrder' /\ GapsArePaid' /\ TimelineRuns'
  BY <1>1 DEF HeardInOrder, GapsArePaid, Drained, TimelineRuns, Passing, ring, flags, counters, history
<1> QED
  BY <1>2, <1>3, <1>4, <1>5 DEF ControlOK

LEMMA GiveBackStep == ASSUME AudioInvariant, GiveBack PROVE AudioInvariant'
<1> USE DEF AudioInvariant
<1>1. /\ callback.pc = "giveBack" /\ callback.taken \in Nat /\ callback.from = read_sequence
      /\ callback.remaining \in Nat \ {0} /\ callback.requested \in Nat \ {0}
      /\ read_sequence + callback.taken <= write_sequence
      /\ callback.taken < callback.requested => read_sequence + callback.taken = write_sequence
      /\ callback = [pc |-> "giveBack", remaining |-> callback.remaining,
                     requested |-> callback.requested, from |-> callback.from,
                     taken |-> callback.taken]
      /\ read_sequence \in Nat /\ write_sequence \in Nat /\ Capacity \in Nat
  BY CallbackIs, Bounds DEF GiveBack, Pass, Passing, LocalsOK
<1>2. /\ callback' = [pc |-> "count", remaining |-> callback.remaining,
                      requested |-> callback.requested, from |-> callback.from,
                      taken |-> callback.taken]
      /\ read_sequence' = read_sequence + callback.taken
      /\ UNCHANGED <<write_sequence, samples, flags, counters, failures, game, sdl, history>>
  <2>1. callback' = [callback EXCEPT !.pc = "count"]
    BY DEF GiveBack
  <2>2. callback' = [pc |-> "count", remaining |-> callback.remaining,
                     requested |-> callback.requested, from |-> callback.from,
                     taken |-> callback.taken]
    BY <1>1, <2>1
  <2> QED
    BY <1>1, <2>2 DEF GiveBack
<1>3. read_sequence' \in Nat /\ read_sequence <= read_sequence'
  BY <1>1, <1>2
<1>4. LocalsOK'
  <2>1. callback' \in Callbacks /\ callback'.pc = "count"
    BY <1>1, <1>2 DEF Callbacks, Passing
  <2> QED
    BY <1>2, <1>3, <2>1 DEF LocalsOK, flags, counters, failures, sdl, history
<1>5. ControlOK'
  BY <1>1, <1>2, ControlUntouched DEF sdl
<1>6. Extent'
  <2>1. game.pc \in Queueing => Len(game.span) \in Nat
    BY GameIs
  <2>2. UNCHANGED <<write_sequence, accepted, game>>
    BY <1>2 DEF history
  <2>3. /\ write_sequence = Len(accepted) /\ read_sequence' <= write_sequence
        /\ write_sequence - read_sequence' <= Capacity
    BY <1>1, <1>2 DEF Extent
  <2>4. game.pc \in Queueing => write_sequence + Len(game.span) - read_sequence' <= Capacity
    BY <1>1, <1>2, <2>1 DEF Extent
  <2> QED
    BY <2>2, <2>3, <2>4 DEF Extent
<1>7. RingHolds'
  <2>1. \A k \in Nat : read_sequence' <= k => read_sequence <= k
    BY <1>1, <1>3
  <2> QED
    BY <1>2, <2>1 DEF RingHolds, history
<1>8. Pass'
  <2>1. /\ callback'.pc = "count" /\ callback'.requested = callback.requested
        /\ callback'.remaining = callback.remaining /\ callback'.taken = callback.taken
        /\ write_sequence' = write_sequence
    BY <1>2
  <2>2. callback.requested <= callback.remaining /\ callback.taken <= callback.requested
    BY <1>1 DEF Pass, Passing
  <2>3. callback.taken <= read_sequence'
    BY <1>1, <1>2
  <2> QED
    BY <1>1, <1>2, <2>1, <2>2, <2>3 DEF Pass, Passing
<1>9. HeardInOrder'
  BY <1>1, <1>2 DEF HeardInOrder, history
<1>10. GapsArePaid' /\ TimelineRuns'
  <2>1. Drained => Drained'
    BY <1>1, <1>2 DEF Drained, Passing, flags
  <2> QED
    BY <1>2, <2>1 DEF GapsArePaid, TimelineRuns, counters, history
<1> QED
  BY <1>4, <1>5, <1>6, <1>7, <1>8, <1>9, <1>10 DEF ControlOK

\* Silence is counted unless the movie is over, and then no frame follows it.
LEMMA CountStep == ASSUME AudioInvariant, Count PROVE AudioInvariant'
<1> USE DEF AudioInvariant
<1> DEFINE taken == callback.taken
           requested == callback.requested
           silent == requested - taken
<1>1. /\ callback.pc = "count" /\ taken \in Nat /\ requested \in Nat \ {0}
      /\ callback.remaining \in Nat \ {0}
      /\ requested <= callback.remaining /\ taken <= requested
      /\ taken < requested => read_sequence = write_sequence
      /\ taken <= read_sequence
  BY CallbackIs DEF Count, Pass, Passing
<1>2. /\ frames_consumed \in Nat /\ timeline_frames \in Nat /\ underrun_frames \in Nat
      /\ gaps \in Nat /\ quiet \in Nat /\ write_sequence \in Nat /\ read_sequence \in Nat
      /\ session_running \in BOOLEAN /\ producer_finished \in BOOLEAN
  BY DEF LocalsOK
<1>3. /\ frames_consumed' = frames_consumed + taken
      /\ timeline_frames' = timeline_frames + (IF session_running THEN requested ELSE 0)
      /\ underrun_frames' = underrun_frames + (IF producer_finished THEN 0 ELSE silent)
      /\ gaps' = gaps + (IF taken > 0 THEN quiet ELSE 0)
      /\ quiet' = IF ~ session_running THEN 0 ELSE (IF taken > 0 THEN 0 ELSE quiet) + silent
      /\ callback' = IF callback.remaining = requested THEN AtRest
                     ELSE [pc |-> "load", remaining |-> callback.remaining - requested]
      /\ UNCHANGED <<ring, flags, failures, game, sdl, written, accepted, heard>>
  BY DEF Count, HearSilence
<1>4. silent \in Nat
  BY <1>1
<1>5. callback' \in Callbacks /\ callback'.pc \in {"idle", "load"}
  BY <1>1, <1>3 DEF Callbacks, AtRest
<1> HIDE DEF silent
<1>6. /\ frames_consumed' \in Nat /\ timeline_frames' \in Nat /\ underrun_frames' \in Nat
      /\ gaps' \in Nat /\ quiet' \in Nat
  BY <1>1, <1>2, <1>3, <1>4
<1>7. LocalsOK'
  BY <1>3, <1>5, <1>6 DEF LocalsOK, ring, flags, failures, sdl
<1>8. ControlOK'
  BY <1>1, <1>3, ControlUntouched DEF ring, sdl
<1>9. Extent' /\ RingHolds' /\ Pass'
  BY <1>3, <1>5 DEF Extent, RingHolds, Pass, Passing, ring
<1>10. HeardInOrder'
  BY <1>1, <1>3, <1>5 DEF HeardInOrder, ring
<1>11. ~ session_running => producer_finished /\ read_sequence = write_sequence
  BY <1>2 DEF Sessions, Extent
<1>12. Drained' <=> producer_finished /\ session_running /\ read_sequence = write_sequence
  BY <1>3, <1>5 DEF Drained, Passing, ring, flags
<1>13. GapsArePaid'
  <2>1. gaps <= underrun_frames /\ (gaps + quiet <= underrun_frames \/ Drained)
    BY DEF GapsArePaid
  <2>2. Drained => taken = 0 /\ Drained'
    BY <1>1, <1>12 DEF Drained, Passing
  <2>3. gaps' <= underrun_frames'
    BY <1>1, <1>2, <1>3, <1>4, <2>1, <2>2
  <2>4. CASE Drained
    BY <2>2, <2>3, <2>4 DEF GapsArePaid
  <2>5. CASE ~ session_running
    <3>1. gaps' + quiet' <= underrun_frames'
      BY <1>3, <1>6, <2>3, <2>5
    <3> QED
      BY <2>3, <3>1 DEF GapsArePaid
  <2>6. CASE ~ Drained /\ session_running /\ ~ producer_finished
    <3>1. gaps' + quiet' <= underrun_frames'
      BY <1>1, <1>2, <1>3, <1>4, <2>1, <2>6
    <3> QED
      BY <2>3, <3>1 DEF GapsArePaid
  <2>7. CASE ~ Drained /\ session_running /\ producer_finished
    <3>1. CASE silent = 0
      <4>1. gaps' + quiet' <= underrun_frames'
        BY <1>1, <1>2, <1>3, <2>1, <2>7, <3>1
      <4> QED
        BY <2>3, <4>1 DEF GapsArePaid
    <3>2. CASE silent # 0
      <4>1. read_sequence = write_sequence
        BY <1>1, <3>2 DEF silent
      <4> QED
        BY <1>12, <2>3, <2>7, <4>1 DEF GapsArePaid
    <3> QED
      BY <3>1, <3>2
  <2> QED
    BY <1>2, <2>4, <2>5, <2>6, <2>7
<1>14. TimelineRuns'
  <2>1. timeline_frames >= frames_consumed + underrun_frames
    BY DEF TimelineRuns
  <2>2. CASE session_running
    <3>1. timeline_frames' >= frames_consumed' + underrun_frames'
      BY <1>1, <1>2, <1>3, <2>1, <2>2 DEF silent
    <3> QED
      BY <3>1 DEF TimelineRuns
  <2>3. CASE ~ session_running
    <3>1. producer_finished /\ read_sequence = 0
      BY <1>11, <2>3 DEF Sessions
    <3>2. taken = 0
      BY <1>1, <3>1
    <3> QED
      BY <1>2, <1>3, <2>1, <2>3, <3>1, <3>2 DEF TimelineRuns
  <2> QED
    BY <2>2, <2>3
<1> QED
  BY <1>7, <1>8, <1>9, <1>10, <1>13, <1>14 DEF ControlOK

-------------------------------------------------------------------------------
(***************************************************************************)
(* The invariant holds initially and every step keeps it.                  *)
(***************************************************************************)
LEMMA AudioInit == Init => AudioInvariant
<1> SUFFICES ASSUME Init PROVE AudioInvariant
  OBVIOUS
<1> USE DEF Init, AtRest
<1>1. 0..(Capacity - 1) \subseteq Int /\ \A i \in 0..(Capacity - 1) : samples[i] = Silence
  BY Bounds
<1>2. LocalsOK
  <2>1. {0} \subseteq Nat /\ <<>> \in Seq(Nat) /\ samples \in [0..(Capacity - 1) -> Nat]
    BY DEF Silence
  <2> QED
    BY <2>1 DEF LocalsOK, Games, Callbacks
<1>3. Extent /\ Pass /\ RingHolds /\ LockExcludes
  BY Bounds DEF Extent, Pass, RingHolds, LockExcludes, Queueing, Passing
<1>4. Sessions /\ Containing
  BY <1>1 DEF Sessions, Silenced, Quiescent, Containing, Queueing
<1>5. HeardInOrder /\ GapsArePaid /\ TimelineRuns
  <2>1. SubSeq(<<>>, 1, 0) = <<>>
    OBVIOUS
  <2> QED
    BY <2>1 DEF HeardInOrder, GapsArePaid, TimelineRuns
<1> QED
  BY <1>2, <1>3, <1>4, <1>5 DEF AudioInvariant

LEMMA AudioIdle == AudioInvariant /\ UNCHANGED vars => AudioInvariant'
<1> SUFFICES ASSUME AudioInvariant, UNCHANGED vars PROVE AudioInvariant'
  OBVIOUS
<1> USE DEF AudioInvariant, vars
<1>1. LocalsOK'
  BY DEF LocalsOK, ring, flags, counters, failures, sdl, history
<1>2. RingOK'
  BY RingUntouched DEF flags, history
<1>3. LockExcludes' /\ Sessions' /\ Containing'
  BY DEF LockExcludes, Sessions, Containing, Silenced, Quiescent, ring, flags, sdl
<1> QED
  BY <1>1, <1>2, <1>3 DEF RingOK

LEMMA AudioStep == AudioInvariant /\ [Next]_vars => AudioInvariant'
<1> SUFFICES ASSUME AudioInvariant, [Next]_vars PROVE AudioInvariant'
  OBVIOUS
<1>1. ASSUME NEW n \in 1..Capacity, NEW end_of_stream \in BOOLEAN, BeginQueue(n, end_of_stream)
      PROVE  AudioInvariant'
  BY <1>1, BeginQueueStep
<1>2. CASE FillRing
  BY <1>2, FillRingStep
<1>3. CASE LockToPublish
  BY <1>3, LockToPublishStep
<1>4. CASE Publish
  BY <1>4, PublishStep
<1>5. CASE UnlockPublished
  BY <1>5, UnlockPublishedStep
<1>6. CASE UnlockPublishedFails
  BY <1>6, UnlockPublishedFailsStep
<1>7. CASE Resume
  BY <1>7, ResumeStep
<1>8. CASE LockToPublishFails \/ ResumeFails \/ Discard
  BY <1>8, GivesUpStep
<1>9. CASE Pause
  BY <1>9, PauseStep
<1>10. CASE Exclude
  BY <1>10, ExcludeStep
<1>11. CASE Clear
  BY <1>11, ClearStep
<1>12. CASE Reset
  BY <1>12, ResetStep
<1>13. CASE UnlockReset
  BY <1>13, UnlockResetStep
<1>14. CASE Contained
  BY <1>14, ContainedStep
<1>15. ASSUME NEW n \in 1..MaxDemand, Demand(n) PROVE AudioInvariant'
  BY <1>15, DemandStep
<1>16. CASE DemandTooLarge
  BY <1>16, DemandTooLargeStep
<1>17. CASE LoadExtent
  BY <1>17, LoadExtentStep
<1>18. CASE CopyAndPut
  BY <1>18, CopyAndPutStep
<1>19. CASE PutFails
  BY <1>19, PutFailsStep
<1>20. CASE GiveBack
  BY <1>20, GiveBackStep
<1>21. CASE Count
  BY <1>21, CountStep
<1>22. CASE UNCHANGED vars
  BY <1>22, AudioIdle
<1> QED
  BY <1>1, <1>2, <1>3, <1>4, <1>5, <1>6, <1>7, <1>8, <1>9, <1>10, <1>11, <1>12, <1>13, <1>14,
     <1>15, <1>16, <1>17, <1>18, <1>19, <1>20, <1>21, <1>22 DEF Next

(***************************************************************************)
(* Whatever the game thread and the audio thread interleave and whichever  *)
(* SDL calls fail, the ring holds what is published and not given back,    *)
(* the lock excludes callbacks, and every place of the game thread has the *)
(* device and session it counts on (sdl_audio_service.cpp,                 *)
(* QueueOpeningMoviePcm16, ContainOpeningMovieAudio and ProvidePlayback).  *)
(***************************************************************************)
THEOREM AudioInvariantHolds == Spec => []AudioInvariant
<1>1. Init => AudioInvariant
  BY AudioInit
<1>2. AudioInvariant /\ [Next]_vars => AudioInvariant'
  BY AudioStep
<1> QED
  BY <1>1, <1>2, PTL DEF Spec

-------------------------------------------------------------------------------
LEMMA PlaybackFollows == AudioInvariant => PlaybackInOrder
<1> SUFFICES ASSUME AudioInvariant PROVE PlaybackInOrder
  OBVIOUS
<1> USE DEF AudioInvariant
<1>1. TypeOK
  BY DEF LocalsOK, TypeOK, Games, Callbacks, Queueing, Passing
<1>2. SequencesInStep
  BY DEF Extent, SequencesInStep
<1>3. GapsAreUnderruns
  BY DEF GapsArePaid, GapsAreUnderruns
<1>4. TimelineCoversTheMovie
  BY DEF TimelineRuns, TimelineCoversTheMovie
<1> QED
  BY <1>1, <1>2, <1>3, <1>4 DEF PlaybackInOrder

(***************************************************************************)
(* The movie is heard in order, no frame lost, repeated or torn, silence   *)
(* inside it is counted as an underrun, and the clock runs at least as     *)
(* fast as the movie: for every capacity, chunk and demand                 *)
(* (sdl_audio_service.cpp, ProvidePlayback).                               *)
(***************************************************************************)
THEOREM PlaybackHolds == Spec => []PlaybackInOrder
BY AudioInvariantHolds, PlaybackFollows, PTL

LEMMA SilenceFollows == AudioInvariant => ContainedMeansSilent
<1> SUFFICES ASSUME AudioInvariant, game.pc = "idle", containment_ready, ~ device_resumed
             PROVE  Silenced /\ DOMAIN samples = 0..(Capacity - 1)
  BY DEF ContainedMeansSilent, Silenced, Quiescent
<1> QED
  BY DEF AudioInvariant, Sessions, LocalsOK

LEMMA SessionsStartInSilence ==
    AudioInvariant /\ [Next]_vars
        => (session_generation' # session_generation =>
                /\ paused /\ ~ backlog /\ callback.pc = "idle"
                /\ write_sequence = 0 /\ ~ session_running)
<1> SUFFICES ASSUME AudioInvariant, [Next]_vars, session_generation' # session_generation
             PROVE  Quiescent
  BY DEF Quiescent
<1>1. Publish
  BY DEF Next, vars, flags, BeginQueue, FillRing, LockToPublish, LockToPublishFails,
         UnlockPublished, UnlockPublishedFails, Resume, ResumeFails, Discard, Pause, Exclude,
         Clear, Reset, UnlockReset, Contained, Demand, DemandTooLarge, LoadExtent, CopyAndPut,
         PutFails, GiveBack, Count
<1>2. game.pc = "publish" /\ game.starting /\ session_generation \in Nat
  <2>1. session_generation \in Nat
    BY DEF AudioInvariant, LocalsOK
  <2>2. game.pc = "publish"
           /\ session_generation' = session_generation + (IF game.starting THEN 1 ELSE 0)
    BY <1>1 DEF Publish
  <2> QED
    BY <2>1, <2>2
<1> QED
  BY <1>2 DEF AudioInvariant, Sessions, Queueing

(***************************************************************************)
(* No step ends in a service at rest that accepts spans and has not        *)
(* resumed the device unless it is silent, and a session begins only on a  *)
(* paused device with nothing left of the last one                         *)
(* (ContainOpeningMovieAudio in sdl_audio_service.cpp).                    *)
(***************************************************************************)
THEOREM SilenceHolds == Spec => SilenceIsKept
<1>1. AudioInvariant /\ AudioInvariant' /\ [Next]_vars
        => [/\ ContainedMeansSilent'
            /\ session_generation' # session_generation =>
                   /\ paused /\ ~ backlog /\ callback.pc = "idle"
                   /\ write_sequence = 0 /\ ~ session_running]_vars
  <2>1. AudioInvariant' => ContainedMeansSilent'
    BY SilenceFollows, PTL
  <2> QED
    BY <2>1, SessionsStartInSilence
<1> QED
  BY <1>1, AudioInvariantHolds, PTL DEF Spec, SilenceIsKept
===============================================================================
