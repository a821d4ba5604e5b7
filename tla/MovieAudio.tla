------------------------------ MODULE MovieAudio ------------------------------
(***************************************************************************)
(* The opening movie's audio in apps/openomega/sdl_audio_service.cpp: a    *)
(* ring of PCM frames between the game thread, which queues spans and      *)
(* contains the device, and the SDL audio thread, which calls              *)
(* ProvidePlayback.                                                        *)
(*                                                                         *)
(* SDL is modelled from how the code uses it: the audio thread holds the   *)
(* stream's lock, which is recursive, around the callback; a paused device *)
(* starts no callback, though one already running goes on; every SDL call  *)
(* may fail.  Calls from another thread are refused before they touch      *)
(* anything and are left out, as are the statistics that decide nothing    *)
(* here (callback_count, provided_frames, queue rejections, discards).     *)
(***************************************************************************)
EXTENDS Integers, Sequences

CONSTANTS Capacity,      \* kOpeningMovieQueueCapacityFrames
          Chunk,         \* frames of one pass of the callback's loop
          MaxDemand,     \* bound: frames one callback is asked for
          MaxFrames,     \* bound: frames ever written to the ring
          MaxSilence,    \* bound: frames of silence before callbacks need queued frames
          MaxFailures    \* bound: SDL calls that fail

ASSUME MovieAudioAssumption ==
    /\ {Capacity, Chunk, MaxDemand, MaxFrames} \subseteq Nat \ {0}
    /\ {MaxSilence, MaxFailures} \subseteq Nat

VARIABLES
    write_sequence, read_sequence,
    samples,             \* the ring: the frame in each place, or Silence
    producer_finished, session_running, device_resumed,
    containment_ready,
    session_generation,
    frames_consumed, timeline_frames, underrun_frames,
    control_failures, callback_failures,
    game,                \* the game thread: its place and its call's locals
    callback,            \* the audio thread: its place and its call's locals
    paused, backlog,     \* SDL: the device is paused; its stream holds movie frames
    depth,               \* SDL: how often the game thread holds the stream's lock
    written,             \* history: frames ever written to the ring
    accepted, heard,     \* history: frames published and played since the ring was reset
    quiet, gaps          \* history: silent frames since the last movie frame, and
                         \* those a movie frame followed

ring == <<write_sequence, read_sequence, samples>>
flags == <<producer_finished, session_running, device_resumed, containment_ready,
           session_generation>>
counters == <<frames_consumed, timeline_frames, underrun_frames>>
failures == <<control_failures, callback_failures>>
sdl == <<paused, backlog, depth>>
history == <<written, accepted, heard, quiet, gaps>>
vars == <<ring, flags, counters, failures, game, callback, sdl, history>>

Silence == 0
AtRest == [pc |-> "idle"]
Minimum(a, b) == IF a < b THEN a ELSE b

\* Each frame written gets a number of its own.
Span(n) == [i \in 1..n |-> written + i]

\* The stream's lock is the callback's from its first load to its return.
CallbackHoldsLock == callback.pc # "idle"

\* An SDL call on the game thread fails.
Fails ==
    /\ control_failures + callback_failures < MaxFailures
    /\ control_failures' = control_failures + 1
    /\ UNCHANGED callback_failures

Init ==
    /\ write_sequence = 0 /\ read_sequence = 0
    /\ samples = [i \in 0..(Capacity - 1) |-> Silence]
    /\ producer_finished = TRUE /\ session_running = FALSE /\ device_resumed = FALSE
    /\ containment_ready = TRUE
    /\ session_generation = 0
    /\ frames_consumed = 0 /\ timeline_frames = 0 /\ underrun_frames = 0
    /\ control_failures = 0 /\ callback_failures = 0
    /\ game = AtRest /\ callback = AtRest
    /\ paused = TRUE /\ backlog = FALSE /\ depth = 0
    /\ written = 0 /\ accepted = <<>> /\ heard = <<>> /\ quiet = 0 /\ gaps = 0

-------------------------------------------------------------------------------
(* QueueOpeningMoviePcm16.                                                 *)

\* A plausible error: the room is one frame more than there is.
HasRoomForOneMore(n) == n <= Capacity - (write_sequence - read_sequence) + 1

\* The span fits in what the callback has left free.
HasRoom(n) ==
    /\ write_sequence >= read_sequence
    /\ write_sequence - read_sequence <= Capacity
    /\ n <= Capacity - (write_sequence - read_sequence)

\* The checks pass; a rejected call changes nothing.  The player that is the only
\* producer marks the last span of a movie, and queues none after it.
BeginQueue(n, end_of_stream) ==
    /\ game.pc = "idle"
    /\ written + n <= MaxFrames
    /\ ~(session_running /\ producer_finished)
    /\ containment_ready
    /\ HasRoom(n)
    /\ game' = [pc |-> "fill", span |-> Span(n), eos |-> end_of_stream,
                starting |-> ~device_resumed]
    /\ UNCHANGED <<ring, flags, counters, failures, callback, sdl, history>>

\* A plausible error: the place in the ring is not wrapped.
FillRingUnwrapped ==
    /\ game.pc = "fill"
    /\ samples' = [i \in DOMAIN samples \cup {write_sequence + k - 1 : k \in DOMAIN game.span} |->
          IF i >= write_sequence /\ i < write_sequence + Len(game.span)
          THEN game.span[i - write_sequence + 1] ELSE samples[i]]
    /\ written' = written + Len(game.span)
    /\ game' = [game EXCEPT !.pc = "lock"]
    /\ UNCHANGED <<write_sequence, read_sequence, flags, counters, failures, callback, sdl,
                   accepted, heard, quiet, gaps>>

\* The samples are converted into the ring before the lock is taken: the
\* callback may be running.
FillRing ==
    /\ game.pc = "fill"
    /\ samples' = [i \in 0..(Capacity - 1) |->
          LET mine == {k \in 1..Len(game.span) : (write_sequence + k - 1) % Capacity = i}
          IN  IF mine = {} THEN samples[i]
              ELSE game.span[CHOOSE k \in mine : \A l \in mine : l <= k]]
    /\ written' = written + Len(game.span)
    /\ game' = [game EXCEPT !.pc = "lock"]
    /\ UNCHANGED <<write_sequence, read_sequence, flags, counters, failures, callback, sdl,
                   accepted, heard, quiet, gaps>>

\* A plausible error: publish without excluding the callback.
LockToPublishWithoutLock ==
    /\ game.pc = "lock"
    /\ depth' = depth + 1
    /\ game' = [game EXCEPT !.pc = "publish"]
    /\ UNCHANGED <<ring, flags, counters, failures, callback, paused, backlog, history>>

\* SDL_LockAudioStream waits for a running callback.
LockToPublish ==
    /\ game.pc = "lock"
    /\ ~CallbackHoldsLock
    /\ depth' = depth + 1
    /\ game' = [game EXCEPT !.pc = "publish"]
    /\ UNCHANGED <<ring, flags, counters, failures, callback, paused, backlog, history>>

\* The lock fails: the movie is contained and the span dropped.
LockToPublishFails ==
    /\ game.pc = "lock"
    /\ Fails
    /\ game' = [pc |-> "pause"]
    /\ UNCHANGED <<ring, flags, counters, callback, sdl, history>>

\* End of stream, session and extent become visible to the next callback at once.
Publish ==
    /\ game.pc = "publish"
    /\ producer_finished' = game.eos
    /\ session_generation' = session_generation + (IF game.starting THEN 1 ELSE 0)
    /\ session_running' = (session_running \/ game.starting)
    /\ write_sequence' = write_sequence + Len(game.span)
    /\ accepted' = accepted \o game.span
    /\ game' = [game EXCEPT !.pc = "unlock"]
    /\ UNCHANGED <<read_sequence, samples, device_resumed, containment_ready, counters,
                   failures, callback, sdl, written, heard, quiet, gaps>>

\* The call goes on to resume the device, or is done.
UnlockPublished ==
    /\ game.pc = "unlock"
    /\ depth' = depth - 1
    /\ game' = IF game.starting THEN [pc |-> "resume"] ELSE AtRest
    /\ UNCHANGED <<ring, flags, counters, failures, callback, paused, backlog, history>>

\* The unlock fails, whether or not the lock is still held: no more spans.
UnlockPublishedFails ==
    /\ game.pc = "unlock"
    /\ Fails
    /\ depth' \in {depth - 1, depth}
    /\ containment_ready' = FALSE
    /\ game' = AtRest
    /\ UNCHANGED <<ring, producer_finished, session_running, device_resumed,
                   session_generation, counters, callback, paused, backlog, history>>

\* A plausible error: the session is marked as resumed, the device is not.
MarkResumed ==
    /\ game.pc = "resume"
    /\ device_resumed' = TRUE
    /\ game' = AtRest
    /\ UNCHANGED <<ring, producer_finished, session_running, containment_ready,
                   session_generation, counters, failures, callback, sdl, history>>

\* The first span of a session starts the device.
Resume ==
    /\ game.pc = "resume"
    /\ paused' = FALSE
    /\ device_resumed' = TRUE
    /\ game' = AtRest
    /\ UNCHANGED <<ring, producer_finished, session_running, containment_ready,
                   session_generation, counters, failures, callback, backlog, depth, history>>

\* The device does not start: the session is contained.
ResumeFails ==
    /\ game.pc = "resume"
    /\ Fails
    /\ game' = [pc |-> "pause"]
    /\ UNCHANGED <<ring, flags, counters, callback, sdl, history>>

-------------------------------------------------------------------------------
(* ContainOpeningMovieAudio, from DiscardOpeningMovieAudio or from a       *)
(* failed queue.                                                           *)

\* DiscardOpeningMovieAudio is called.
Discard ==
    /\ game.pc = "idle"
    /\ game' = [pc |-> "pause"]
    /\ UNCHANGED <<ring, flags, counters, failures, callback, sdl, history>>

\* The device is asked to pause.
Pause ==
    /\ game.pc = "pause"
    /\ \/ /\ paused' = TRUE
          /\ device_resumed' = FALSE
          /\ game' = [pc |-> "exclude", ok |-> TRUE]
          /\ UNCHANGED failures
       \/ /\ Fails
          /\ game' = [pc |-> "exclude", ok |-> FALSE]
          /\ UNCHANGED <<paused, device_resumed>>
    /\ UNCHANGED <<ring, producer_finished, session_running, containment_ready,
                   session_generation, counters, callback, backlog, depth, history>>

\* The stream's lock waits for a callback that is still running.
Exclude ==
    /\ game.pc = "exclude"
    /\ \/ /\ ~CallbackHoldsLock
          /\ depth' = depth + 1
          /\ game' = [pc |-> "clear", ok |-> game.ok, locked |-> TRUE]
          /\ UNCHANGED failures
       \/ /\ Fails
          /\ game' = [pc |-> "clear", ok |-> FALSE, locked |-> FALSE]
          /\ UNCHANGED depth
    /\ UNCHANGED <<ring, flags, counters, callback, paused, backlog, history>>

\* SDL's conversion backlog is dropped, under SDL's own lock.
Clear ==
    /\ game.pc = "clear"
    /\ ~CallbackHoldsLock
    /\ \/ backlog' = FALSE /\ UNCHANGED failures
       \/ Fails /\ UNCHANGED backlog
    /\ game' = IF ~game.locked THEN [pc |-> "done", ok |-> FALSE]
               ELSE [pc |-> "reset", ok |-> game.ok /\ failures' = failures]
    /\ UNCHANGED <<ring, flags, counters, callback, paused, depth, history>>

\* A plausible error: the extent is reset, and the session is left running.
ResetRingOnly ==
    /\ game.pc = "reset"
    /\ samples' = [i \in DOMAIN samples |-> Silence]
    /\ write_sequence' = 0
    /\ read_sequence' = 0
    /\ producer_finished' = TRUE
    /\ accepted' = <<>> /\ heard' = <<>> /\ quiet' = 0
    /\ game' = [game EXCEPT !.pc = "unlockReset"]
    /\ UNCHANGED <<session_running, device_resumed, containment_ready, session_generation,
                   counters, failures, callback, sdl, written, gaps>>

\* Under the lock the ring is zeroed and the session ends.
Reset ==
    /\ game.pc = "reset"
    /\ samples' = [i \in DOMAIN samples |-> Silence]
    /\ write_sequence' = 0
    /\ read_sequence' = 0
    /\ producer_finished' = TRUE
    /\ session_running' = FALSE
    /\ accepted' = <<>> /\ heard' = <<>> /\ quiet' = 0
    /\ game' = [game EXCEPT !.pc = "unlockReset"]
    /\ UNCHANGED <<device_resumed, containment_ready, session_generation, counters,
                   failures, callback, sdl, written, gaps>>

UnlockReset ==
    /\ game.pc = "unlockReset"
    /\ \/ /\ depth' = depth - 1
          /\ game' = [pc |-> "done", ok |-> game.ok]
          /\ UNCHANGED failures
       \/ /\ Fails
          /\ depth' \in {depth - 1, depth}
          /\ game' = [pc |-> "done", ok |-> FALSE]
    /\ UNCHANGED <<ring, flags, counters, callback, paused, backlog, history>>

\* Only a containment without any failure lets spans in again.
Contained ==
    /\ game.pc = "done"
    /\ containment_ready' = game.ok
    /\ game' = AtRest
    /\ UNCHANGED <<ring, producer_finished, session_running, device_resumed,
                   session_generation, counters, failures, callback, sdl, history>>

-------------------------------------------------------------------------------
(* ProvidePlayback, on the audio thread.                                   *)

\* SDL asks for frames, holding the stream's lock.  Demands without queued
\* frames are bounded.
Demand(n) ==
    /\ callback.pc = "idle"
    /\ ~paused
    /\ depth = 0
    /\ write_sequence > read_sequence \/ timeline_frames - frames_consumed < MaxSilence
    /\ callback' = [pc |-> "load", remaining |-> n]
    /\ UNCHANGED <<ring, flags, counters, failures, game, sdl, history>>

\* A demand beyond kMaximumBytesPerCallback is refused and counted.
DemandTooLarge ==
    /\ callback.pc = "idle"
    /\ ~paused
    /\ depth = 0
    /\ control_failures + callback_failures < MaxFailures
    /\ callback_failures' = callback_failures + 1
    /\ UNCHANGED <<ring, flags, counters, control_failures, game, callback, sdl, history>>

\* One pass: how many frames are wanted and how many of them are queued.
LoadExtent ==
    LET requested == Minimum(callback.remaining, Chunk)
        available == IF write_sequence >= read_sequence
                     THEN Minimum(write_sequence - read_sequence, Capacity)
                     ELSE 0
    IN  /\ callback.pc = "load"
        /\ callback' = [pc |-> "copy", remaining |-> callback.remaining,
                        requested |-> requested, from |-> read_sequence,
                        taken |-> Minimum(requested, available)]
        /\ UNCHANGED <<ring, flags, counters, failures, game, sdl, history>>

\* The frames this pass copies out of the ring.
Copied == [i \in 1..callback.taken |-> samples[(callback.from + i - 1) % Capacity]]

\* The frames, padded with silence, go to SDL's stream.
CopyAndPut ==
    /\ callback.pc = "copy"
    /\ heard' = heard \o Copied
    /\ backlog' = (backlog \/ callback.taken > 0)
    /\ callback' = [callback EXCEPT !.pc = "giveBack"]
    /\ UNCHANGED <<ring, flags, counters, failures, game, paused, depth, written, accepted,
                   quiet, gaps>>

\* SDL does not take them: the callback returns, and the frames stay queued.
PutFails ==
    /\ callback.pc = "copy"
    /\ control_failures + callback_failures < MaxFailures
    /\ callback_failures' = callback_failures + 1
    /\ callback' = AtRest
    /\ UNCHANGED <<ring, flags, counters, control_failures, game, sdl, history>>

\* A plausible error: a short pass returns before it gives the frames back.
GiveBackUnlessShort ==
    /\ callback.pc = "giveBack"
    /\ read_sequence' = IF callback.taken < callback.requested THEN read_sequence
                        ELSE callback.from + callback.taken
    /\ callback' = [callback EXCEPT !.pc = "count"]
    /\ UNCHANGED <<write_sequence, samples, flags, counters, failures, game, sdl, history>>

\* The places of the copied frames are free for the producer.
GiveBack ==
    /\ callback.pc = "giveBack"
    /\ read_sequence' = callback.from + callback.taken
    /\ callback' = [callback EXCEPT !.pc = "count"]
    /\ UNCHANGED <<write_sequence, samples, flags, counters, failures, game, sdl, history>>

\* The history of silence: a gap is silence with a movie frame after it.
HearSilence(taken, silent) ==
    /\ gaps' = gaps + (IF taken > 0 THEN quiet ELSE 0)
    /\ quiet' = IF ~session_running THEN 0
                ELSE (IF taken > 0 THEN 0 ELSE quiet) + silent

\* A plausible error: the timeline stops with the last span.
CountUntilEndOfStream ==
    LET silent == callback.requested - callback.taken
    IN  /\ callback.pc = "count"
        /\ frames_consumed' = frames_consumed + callback.taken
        /\ timeline_frames' = timeline_frames + (IF producer_finished THEN 0 ELSE callback.requested)
        /\ underrun_frames' = underrun_frames + (IF producer_finished THEN 0 ELSE silent)
        /\ HearSilence(callback.taken, silent)
        /\ callback' = IF callback.remaining = callback.requested THEN AtRest
                       ELSE [pc |-> "load", remaining |-> callback.remaining - callback.requested]
        /\ UNCHANGED <<ring, flags, failures, game, sdl, written, accepted, heard>>

\* The pass is counted, and the callback goes on until the demand is met.
Count ==
    LET silent == callback.requested - callback.taken
    IN  /\ callback.pc = "count"
        /\ frames_consumed' = frames_consumed + callback.taken
        /\ timeline_frames' = timeline_frames + (IF session_running THEN callback.requested ELSE 0)
        /\ underrun_frames' = underrun_frames + (IF producer_finished THEN 0 ELSE silent)
        /\ HearSilence(callback.taken, silent)
        /\ callback' = IF callback.remaining = callback.requested THEN AtRest
                       ELSE [pc |-> "load", remaining |-> callback.remaining - callback.requested]
        /\ UNCHANGED <<ring, flags, failures, game, sdl, written, accepted, heard>>

-------------------------------------------------------------------------------
GameStep ==
    \/ FillRing \/ LockToPublish \/ LockToPublishFails \/ Publish \/ UnlockPublished
    \/ UnlockPublishedFails \/ Resume \/ ResumeFails
    \/ Pause \/ Exclude \/ Clear \/ Reset \/ UnlockReset \/ Contained

CallbackStep == LoadExtent \/ CopyAndPut \/ PutFails \/ GiveBack \/ Count

Next ==
    \/ \E n \in 1..Capacity, end_of_stream \in BOOLEAN : BeginQueue(n, end_of_stream)
    \/ FillRing
    \/ LockToPublish
    \/ LockToPublishFails
    \/ Publish
    \/ UnlockPublished
    \/ UnlockPublishedFails
    \/ Resume
    \/ ResumeFails
    \/ Discard
    \/ Pause
    \/ Exclude
    \/ Clear
    \/ Reset
    \/ UnlockReset
    \/ Contained
    \/ \E n \in 1..MaxDemand : Demand(n)
    \/ DemandTooLarge
    \/ LoadExtent
    \/ CopyAndPut
    \/ PutFails
    \/ GiveBack
    \/ Count

\* The game thread finishes a call it is in, the audio thread a callback it is
\* in, and SDL keeps asking a device that is not paused.
Fairness ==
    /\ WF_vars(GameStep)
    /\ WF_vars(CallbackStep)
    /\ WF_vars(\E n \in 1..MaxDemand : Demand(n))

Spec == Init /\ [][Next]_vars

FairSpec == Spec /\ Fairness

-------------------------------------------------------------------------------
TypeOK ==
    /\ {write_sequence, read_sequence, session_generation, frames_consumed, timeline_frames,
        underrun_frames, control_failures, callback_failures, depth, written, quiet, gaps}
           \subseteq Nat
    /\ samples \in [0..(Capacity - 1) -> Nat]
    /\ {producer_finished, session_running, device_resumed, containment_ready, paused,
        backlog} \subseteq BOOLEAN
    /\ accepted \in Seq(Nat) /\ heard \in Seq(Nat)
    /\ game.pc \in {"idle", "fill", "lock", "publish", "unlock", "resume",
                    "pause", "exclude", "clear", "reset", "unlockReset", "done"}
    /\ callback.pc \in {"idle", "load", "copy", "giveBack", "count"}

\* The movie is heard in order, without a frame lost, repeated or torn by the
\* producer that fills the ring outside the lock: what was put to the device
\* since the last reset is exactly the accepted frames up to the read sequence.
HeardInOrder ==
    /\ Len(heard) = read_sequence + (IF callback.pc = "giveBack" THEN callback.taken ELSE 0)
    /\ Len(heard) <= Len(accepted)
    /\ heard = SubSeq(accepted, 1, Len(heard))

\* The two sequences never drift apart, also across resets that race a callback:
\* the defensive branches for a read beyond the write are never taken.
SequencesInStep ==
    /\ read_sequence <= write_sequence
    /\ write_sequence - read_sequence <= Capacity

\* Silence between two frames of the movie is never hidden: each such frame was
\* counted as an underrun, although end of stream suppresses the counting.
GapsAreUnderruns == gaps <= underrun_frames

\* The clock the video follows runs at least as fast as the movie is consumed.
TimelineCoversTheMovie ==
    callback.pc # "count" => timeline_frames >= frames_consumed + underrun_frames

\* What is heard is the movie, in order and once, and the counters the player's
\* clock and health checks read tell what was heard.
PlaybackInOrder ==
    TypeOK /\ HeardInOrder /\ SequencesInStep /\ GapsAreUnderruns /\ TimelineCoversTheMovie

\* A service at rest that accepts spans and has not resumed the device is silent
\* through and through: paused, no callback inside, nothing in the ring or in
\* SDL, no session, whatever failed before.
ContainedMeansSilent ==
    game.pc = "idle" /\ containment_ready /\ ~device_resumed =>
        /\ paused /\ ~backlog
        /\ callback.pc = "idle"
        /\ write_sequence = 0 /\ read_sequence = 0
        /\ \A i \in DOMAIN samples : samples[i] = Silence
        /\ ~session_running /\ producer_finished

\* Nothing of one session is heard in another: every step that contains the
\* stream leaves silence, and a new session begins only on a paused device with
\* nothing left of the last one, so the clock's generation identifies one
\* uninterrupted timeline.
SilenceIsKept ==
    [][/\ ContainedMeansSilent'
       /\ session_generation' # session_generation =>
              /\ paused /\ ~backlog /\ callback.pc = "idle"
              /\ write_sequence = 0 /\ ~session_running]_vars

\* Accepted frames on a running device are all consumed, unless the session is
\* contained, a control call failed, or a failed unlock kept the lock for good.
QueuedFramesAreConsumed ==
    write_sequence > read_sequence /\ device_resumed
        ~> \/ write_sequence = read_sequence
           \/ ~device_resumed
           \/ ~containment_ready
           \/ game.pc = "idle" /\ depth > 0
===============================================================================
