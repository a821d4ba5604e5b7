----------------------------- MODULE OpeningMovie -----------------------------
(***************************************************************************)
(* The opening movie in apps/openomega/omega_app.cpp: RunLoop from the     *)
(* first frame to its return, with the movie's player, the audio clock     *)
(* that drives it, the modal boot sequence and the handling of audio       *)
(* faults, while SDL's audio thread consumes what is queued.               *)
(*                                                                         *)
(* The audio service is kept as coarse as this thread can tell: the ring   *)
(* is a count, a containment is one step (MovieAudio has both in detail),  *)
(* but every atomic that the callback writes is loaded in a step of its    *)
(* own, in the order Snapshot loads it.  The menu behind the movie is      *)
(* Application's.  RunLoop returns when the frame limit is reached, on a   *)
(* quit and on an error.                                                   *)
(***************************************************************************)
EXTENDS OpeningMoviePlayer, FiniteSets

CONSTANTS Capacity,      \* kOpeningMovieQueueCapacityFrames
          Refill,        \* kOpeningMovieAudioRefillFrames
          ClockNs,       \* nanoseconds in a second
          Demands,       \* frames one pass of the callback may ask for
          MaxTimeline,   \* bound: frames the callback ever asks for in a session
          MaxFailures    \* bound: SDL calls that fail

ASSUME OpeningMovieAssumption ==
    /\ {Capacity, Refill, ClockNs} \subseteq Nat \ {0}
    /\ Refill <= Capacity
    /\ Demands \subseteq Nat \ {0}
    /\ {MaxTimeline, MaxFailures} \subseteq Nat

VARIABLES
    player,              \* opening_movie_player_, or Released
    boot,                \* boot_sequence_state_, with the cause of its completion
    clock,               \* opening_movie_audio_clock_
    skip_armed,          \* opening_movie_skip_armed_
    baseline,            \* audio_fault_baseline
    app,                 \* the game thread: its place in RunLoop and the frame's locals
    queued, producer_finished, session_running, device_resumed, containment_ready,
    session_generation, timeline_frames,
    faults,              \* the service's four fault counters
    callback,            \* SDL's audio thread inside ProvidePlayback
    held,                \* the game thread could not release the stream's lock
    sent, played         \* history: PCM frames the ring accepted and gave out

movie == <<player, boot, clock, skip_armed, baseline>>
ring == <<queued, producer_finished, session_running, device_resumed, containment_ready,
          session_generation>>
audio == <<ring, timeline_frames, faults, callback, held, played>>
vars == <<movie, app, audio, sent>>

NoFaults == [callback |-> 0, control |-> 0, underrun |-> 0, rejection |-> 0]
ClockAtRest == [started |-> FALSE, generation |-> 0, baseline |-> 0, applied |-> 0,
                remainder |-> 0]

Released == [status |-> "Released"]

MovieIsActive == boot.phase = "Playing"
Returned == app.pc = "returned"

\* Startup leaves a movie or none; without one the sequence starts out completed.
Init ==
    /\ \/ player = NewPlayer /\ boot = [phase |-> "Playing", position |-> 0, cause |-> "none"]
       \/ player = Released /\ boot = [phase |-> "Completed", position |-> 0, cause |-> "none"]
    /\ clock = ClockAtRest /\ skip_armed = FALSE /\ baseline = NoFaults
    /\ app = [pc |-> "frame"]
    /\ queued = 0 /\ producer_finished = TRUE /\ session_running = FALSE
    /\ device_resumed = FALSE /\ containment_ready = TRUE /\ session_generation = 0
    /\ timeline_frames = 0 /\ faults = NoFaults
    /\ callback = [pc |-> "idle"] /\ held = FALSE
    /\ sent = 0 /\ played = 0

-------------------------------------------------------------------------------
(* SDL's audio thread.                                                     *)

CanFail == faults.callback + faults.control < MaxFailures

\* A resumed device asks for frames; the callback takes what is queued.
Demand ==
    /\ callback.pc = "idle" /\ device_resumed /\ ~held
    /\ \E n \in Demands :
         /\ timeline_frames + n <= MaxTimeline
         /\ callback' = [pc |-> "count", asked |-> n, taken |-> Smaller(n, queued)]
         /\ queued' = queued - Smaller(n, queued)
         /\ played' = played + Smaller(n, queued)
    /\ UNCHANGED <<movie, app, producer_finished, session_running, device_resumed,
                   containment_ready, session_generation, timeline_frames, faults, held, sent>>

\* SDL refuses the samples: the callback returns with nothing taken.
DemandFails ==
    /\ callback.pc = "idle" /\ device_resumed /\ ~held /\ CanFail
    /\ faults' = [faults EXCEPT !.callback = @ + 1]
    /\ UNCHANGED <<movie, app, ring, timeline_frames, callback, held, played, sent>>

\* The timeline follows the device, silence included.
CountTimeline ==
    /\ callback.pc = "count"
    /\ timeline_frames' = timeline_frames + IF session_running THEN callback.asked ELSE 0
    /\ callback' = [callback EXCEPT !.pc = "underrun"]
    /\ UNCHANGED <<movie, app, ring, faults, held, played, sent>>

\* Silence before the end of the stream is an underrun.
CountUnderrun ==
    /\ callback.pc = "underrun"
    /\ faults' = [faults EXCEPT !.underrun =
           @ + IF producer_finished THEN 0 ELSE callback.asked - callback.taken]
    /\ callback' = [pc |-> "idle"]
    /\ UNCHANGED <<movie, app, ring, timeline_frames, held, played, sent>>

Callback == CountTimeline \/ CountUnderrun

-------------------------------------------------------------------------------
(* Containment: pause, lock, clear and unlock, any of which may fail.      *)

\* A plausible error: the ring is emptied without excluding the callback.
ContainServiceWithoutLock(failed) ==
    /\ faults.callback + faults.control + Cardinality(failed) <= MaxFailures
    /\ queued' = 0 /\ producer_finished' = TRUE /\ session_running' = FALSE
    /\ device_resumed' = (device_resumed /\ "pause" \in failed)
    /\ containment_ready' = (failed = {})
    /\ UNCHANGED <<held, timeline_frames, callback, played>>

\* The part of ContainOpeningMovieAudio that changes the service.  Its lock waits
\* for a running callback and, once taken, empties the ring.
ContainService(failed) ==
    /\ "lock" \in failed => "unlock" \notin failed
    /\ faults.callback + faults.control + Cardinality(failed) <= MaxFailures
    /\ IF "lock" \in failed
       THEN UNCHANGED <<queued, producer_finished, session_running, held>>
       ELSE /\ callback.pc = "idle"
            /\ queued' = 0 /\ producer_finished' = TRUE /\ session_running' = FALSE
            /\ held' = (held \/ "unlock" \in failed)
    /\ device_resumed' = (device_resumed /\ "pause" \in failed)
    /\ containment_ready' = (failed = {})
    /\ UNCHANGED <<timeline_frames, callback, played>>

ContainCalls == SUBSET {"pause", "lock", "clear", "unlock"}

\* OmegaApp::ContainOpeningMovieAudio: the audio clock is forgotten as well.
Contain(failed) ==
    /\ ContainService(failed)
    /\ faults' = [faults EXCEPT !.control = @ + Cardinality(failed)]
    /\ clock' = ClockAtRest
    /\ UNCHANGED session_generation

Return(result) == app' = [pc |-> "returned", result |-> result]

\* Every error of the loop contains the audio on its way out.
ContainAndReturn(result) ==
    /\ \E failed \in ContainCalls : Contain(failed)
    /\ Return(result)

-------------------------------------------------------------------------------
(* The top of a frame.                                                     *)

\* A frame begins: the frame limit or a quit ends the loop, a button pressed once a frame
\* was shown skips the movie.  The audio is looked at only while neither happens.
BeginFrame ==
    /\ app.pc = "frame"
    /\ \E quit, pressed \in BOOLEAN, elapsed \in 1..2 :
         app' = [pc |-> IF quit THEN "exit"
                        ELSE IF ~MovieIsActive THEN "render"
                        ELSE IF pressed /\ skip_armed THEN "reduce"
                        ELSE "load_failures",
                 was_active |-> MovieIsActive, elapsed |-> elapsed,
                 primary_pressed |-> pressed /\ skip_armed,
                 source_failed |-> FALSE, source_completed |-> FALSE]
    /\ UNCHANGED <<movie, audio, sent>>

\* Snapshot's loads, one by one; what this thread alone writes is read with the last.
LoadFailures ==
    /\ app.pc \in {"load_failures", "health", "exit_health"}
    /\ app' = [app EXCEPT !.pc = CASE @ = "load_failures" -> "load_timeline"
                                   [] @ = "health" -> "health_underrun"
                                   [] @ = "exit_health" -> "exit_underrun"]
              @@ [observed |-> faults.callback]
    /\ UNCHANGED <<movie, audio, sent>>

LoadTimeline ==
    /\ app.pc = "load_timeline"
    /\ app' = [app EXCEPT !.pc = "movie"] @@ [timeline |-> timeline_frames]
    /\ UNCHANGED <<movie, audio, sent>>

\* ClassifyOpeningMovieAudioFault: the first counter that grew names the fault.
FaultSince(observed_callback) ==
    IF observed_callback > baseline.callback THEN "Callback"
    ELSE IF faults.control > baseline.control THEN "Control"
    ELSE IF faults.underrun > baseline.underrun THEN "Underrun"
    ELSE IF faults.rejection > baseline.rejection THEN "QueueRejection"
    ELSE "None"

\* DisposeOpeningMovieAudioFault.
Disposition(fault, movie_window_open) ==
    IF fault = "None" THEN "Ignore"
    ELSE IF movie_window_open THEN "FailOpen"
    ELSE IF fault \in {"Callback", "Control"} THEN "Fatal" ELSE "Ignore"

\* AdvanceOpeningMovieAudioClock: the device's demand becomes time, exactly.
ClockErrors(timeline) ==
    /\ clock.started
    /\ \/ session_generation # clock.generation
       \/ timeline < clock.baseline
       \/ timeline - clock.baseline < clock.applied

\* A plausible error: the remainder is not carried.
ClockStepWhole(timeline) ==
    LET numerator == (timeline - clock.baseline - clock.applied) * ClockNs
    IN  IF ~clock.started THEN [state |-> clock, elapsed |-> 0]
        ELSE [state |-> [clock EXCEPT !.applied = timeline - clock.baseline],
              elapsed |-> numerator \div ClockRate]

ClockStep(timeline) ==
    LET numerator == (timeline - clock.baseline - clock.applied) * ClockNs + clock.remainder
    IN  IF ~clock.started THEN [state |-> clock, elapsed |-> 0]
        ELSE [state |-> [clock EXCEPT !.applied = timeline - clock.baseline,
                                      !.remainder = numerator % ClockRate],
              elapsed |-> numerator \div ClockRate]

GiveUp == app' = [app EXCEPT !.pc = "reduce", !.source_failed = TRUE]

\* The movie's turn of the frame: give up on a fault, or advance clock and player.
MovieTurn ==
    /\ app.pc = "movie"
    /\ IF Disposition(FaultSince(app.observed), TRUE) = "FailOpen"
          \/ ClockErrors(app.timeline)
       THEN GiveUp /\ UNCHANGED <<player, clock>>
       ELSE LET step == ClockStep(app.timeline) IN
            /\ clock' = step.state
            /\ player' \in StartAdvance(player, step.elapsed)
            /\ app' = [app EXCEPT !.pc = "feed"]
                      @@ [feeds |-> 0, before |-> player.current]
    /\ UNCHANGED <<boot, skip_armed, baseline, audio, sent>>

FeedPlayer ==
    /\ app.pc = "feed" /\ WantsFeed(player, app.feeds)
    /\ \E answer \in Answers : player' \in Feed(player, answer)
    /\ app' = [app EXCEPT !.feeds = @ + 1]
    /\ UNCHANGED <<boot, clock, skip_armed, baseline, audio, sent>>

\* Advance returns; a new picture is uploaded, which may fail.
Advanced ==
    /\ app.pc = "feed" /\ ~WantsFeed(player, app.feeds)
    /\ player' = FinishAdvance(player)
    /\ \/ player'.failure = "none" /\ app' = [app EXCEPT !.pc = "refill"]
       \/ player'.failure # "none" /\ GiveUp
       \/ player'.failure = "none" /\ player'.current # app.before /\ GiveUp
    /\ UNCHANGED <<boot, clock, skip_armed, baseline, audio, sent>>

-------------------------------------------------------------------------------
(* The refill of the ring.                                                 *)

AvailableFrames == IF containment_ready THEN Capacity - queued ELSE 0

\* With a picture shown and a refill's room, PCM frames are read and offered; the
\* timeline is loaded before they are queued.
RefillRing ==
    /\ app.pc = "refill"
    /\ IF player.current = NoFrame \/ AudioFinished(player) \/ AvailableFrames < Refill
       THEN app' = [app EXCEPT !.pc = "completion"] /\ UNCHANGED player
       ELSE \E read \in ReadAudioFrames(player, AvailableFrames) :
              /\ player' = read.player
              /\ IF read.player.failure # "none" THEN GiveUp
                 ELSE app' = [app EXCEPT !.pc = "queue"]
                             @@ [count |-> read.count, prequeue |-> timeline_frames]
    /\ UNCHANGED <<boot, clock, skip_armed, baseline, audio, sent>>

\* The span is published under the stream's lock; the first one of a session opens
\* it.
Publish ==
    /\ callback.pc = "idle"
    /\ queued' = queued + app.count
    /\ producer_finished' = AudioFinished(player)
    /\ session_running' = (session_running \/ ~device_resumed)
    /\ session_generation' = session_generation + IF device_resumed THEN 0 ELSE 1

\* QueueOpeningMoviePcm16 accepts, and a new session resumes the device.
QueueAccepts ==
    /\ app.pc = "queue"
    /\ Publish
    /\ device_resumed' = TRUE
    /\ sent' = sent + app.count
    /\ app' = [app EXCEPT !.pc = IF clock.started THEN "completion" ELSE "start_clock"]
    /\ UNCHANGED <<movie, containment_ready, timeline_frames, faults, callback, held, played>>

\* A plausible error: the refused span is left for the next frame.
QueueContainsAndGoesOn ==
    /\ app.pc = "queue"
    /\ ContainService({}) /\ CanFail
    /\ faults' = [faults EXCEPT !.control = @ + 1]
    /\ app' = [app EXCEPT !.pc = "completion"]
    /\ UNCHANGED <<movie, session_generation, sent>>

\* The lock fails before anything is published, or resuming fails after it: the
\* service contains itself.
QueueContains ==
    /\ app.pc = "queue"
    /\ \E failed \in ContainCalls :
         /\ ContainService(failed)
         /\ faults.callback + faults.control + Cardinality(failed) < MaxFailures
         /\ faults' = [faults EXCEPT !.control = @ + 1 + Cardinality(failed),
                                     !.rejection = @ + 1]
    /\ session_generation' \in session_generation .. session_generation + (IF device_resumed THEN 0 ELSE 1)
    /\ GiveUp
    /\ UNCHANGED <<movie, sent>>

\* The lock cannot be released after the span is published.
QueueStaysLocked ==
    /\ app.pc = "queue" /\ CanFail
    /\ Publish
    /\ containment_ready' = FALSE /\ held' = TRUE
    /\ faults' = [faults EXCEPT !.control = @ + 1, !.rejection = @ + 1]
    /\ GiveUp
    /\ UNCHANGED <<movie, device_resumed, timeline_frames, callback, played, sent>>

\* StartOpeningMovieAudioClock: the timeline loaded before the queue is the baseline.
StartClock ==
    /\ app.pc = "start_clock"
    /\ IF timeline_frames < app.prequeue
       THEN GiveUp /\ UNCHANGED clock
       ELSE /\ clock' = [started |-> TRUE, generation |-> session_generation,
                         baseline |-> app.prequeue, applied |-> 0, remainder |-> 0]
            /\ app' = [app EXCEPT !.pc = "completion"]
    /\ UNCHANGED <<player, boot, skip_armed, baseline, audio, sent>>

\* A plausible error: what is still queued is not waited for.
CompletionAtDecoderEnd ==
    /\ app.pc = "completion"
    /\ app' = [app EXCEPT !.pc = "reduce",
                 !.source_completed = player.status = "Completed" /\ AudioFinished(player)]
    /\ UNCHANGED <<movie, audio, sent>>

\* Both streams are at their end and the ring is empty and closed.
Completion ==
    /\ app.pc = "completion"
    /\ app' = [app EXCEPT !.pc = "reduce",
                 !.source_completed = /\ player.status = "Completed" /\ AudioFinished(player)
                                      /\ queued = 0 /\ producer_finished]
    /\ UNCHANGED <<movie, audio, sent>>

-------------------------------------------------------------------------------
(* The boot sequence and the rest of the frame.                            *)

\* A plausible error: there is no deadline.
ReduceWithoutDeadline ==
    IF app.source_failed THEN [boot EXCEPT !.phase = "Failed"]
    ELSE IF app.primary_pressed THEN [boot EXCEPT !.phase = "Skipped"]
    ELSE IF app.source_completed
         THEN [phase |-> "Completed", position |-> SafetyTicks, cause |-> "SourceCompleted"]
    ELSE boot

\* ReduceBootSequence: failure, then the button, then the end, then the deadline.
ReduceBootSequence ==
    IF app.source_failed THEN [boot EXCEPT !.phase = "Failed"]
    ELSE IF app.primary_pressed THEN [boot EXCEPT !.phase = "Skipped"]
    ELSE IF app.source_completed
         THEN [phase |-> "Completed", position |-> SafetyTicks, cause |-> "SourceCompleted"]
    ELSE IF app.elapsed >= SafetyTicks - boot.position
         THEN [phase |-> "Completed", position |-> SafetyTicks, cause |-> "SafetyTimeout"]
    ELSE [boot EXCEPT !.position = @ + app.elapsed]

Reduce ==
    /\ app.pc = "reduce"
    /\ boot' = ReduceBootSequence
    /\ app' = [pc |-> IF boot'.phase = "Playing" THEN "render" ELSE "finish",
               was_active |-> TRUE, then |-> "render"]
    /\ UNCHANGED <<player, clock, skip_armed, baseline, audio, sent>>

\* FinishOpeningMovieFrontEndTransition: contain, take a new baseline, release the
\* movie.  A failed containment ends the session.
Finish ==
    /\ app.pc = "finish"
    /\ \E failed \in ContainCalls :
         /\ Contain(failed)
         /\ app' = [app EXCEPT !.pc = "baseline"] @@ [contained |-> failed = {}]
    /\ UNCHANGED <<player, boot, skip_armed, baseline, sent>>

TakeBaseline ==
    /\ app.pc = "baseline"
    /\ baseline' = faults
    /\ player' = Released /\ skip_armed' = FALSE
    /\ boot' = IF MovieIsActive THEN [boot EXCEPT !.phase = "Failed"] ELSE boot
    /\ IF app.contained
       THEN \/ app' = [pc |-> app.then, was_active |-> app.was_active]
            \/ app.then = "render" /\ Return("presentation refused")
       ELSE Return("containment failed")
    /\ UNCHANGED <<clock, audio, sent>>

\* The frame is drawn, the movie's or the menu's.
Render ==
    /\ app.pc = "render"
    /\ skip_armed' = (skip_armed \/ MovieIsActive)
    /\ app' = [pc |-> "health", was_active |-> app.was_active]
    /\ UNCHANGED <<player, boot, clock, baseline, audio, sent>>

\* The gate refuses the menu, or a step of the frame or the renderer fails.
FrameFails ==
    /\ app.pc = "render"
    /\ ContainAndReturn("frame failed")
    /\ UNCHANGED <<player, boot, skip_armed, baseline, sent>>

\* A command of the menu fails: this return alone leaves the audio as it is.
CommandFails ==
    /\ app.pc = "render" /\ ~app.was_active
    /\ Return("command failed")
    /\ UNCHANGED <<movie, audio, sent>>

\* The faults of the frame: the movie's window is the one the frame began with.
Health ==
    /\ app.pc = "health_underrun"
    /\ LET disposition == Disposition(FaultSince(app.observed), app.was_active)
       IN  \/ /\ disposition = "Ignore"
              /\ app' = [pc |-> "frame"]
              /\ UNCHANGED <<audio, clock>>
           \/ /\ disposition = "FailOpen"
              /\ app' = [pc |-> "finish", was_active |-> TRUE, then |-> "frame"]
              /\ UNCHANGED <<audio, clock>>
           \/ /\ disposition = "Fatal"
              /\ ContainAndReturn("fatal audio fault")
    /\ UNCHANGED <<player, boot, skip_armed, baseline, sent>>

\* After the loop the audio is contained and its faults looked at once more.
Exit ==
    /\ app.pc = "exit"
    /\ \E failed \in ContainCalls :
         /\ Contain(failed)
         /\ app' = [pc |-> "exit_health", window_open |-> MovieIsActive,
                    contained |-> failed = {}]
    /\ UNCHANGED <<player, boot, skip_armed, baseline, sent>>

ExitHealth ==
    /\ app.pc = "exit_underrun"
    /\ LET disposition == Disposition(FaultSince(app.observed), app.window_open)
       IN  /\ IF disposition = "FailOpen"
              THEN player' = Released /\ skip_armed' = FALSE
                   /\ boot' = IF MovieIsActive THEN [boot EXCEPT !.phase = "Failed"] ELSE boot
              ELSE UNCHANGED <<player, skip_armed, boot>>
           /\ Return(IF ~app.contained THEN "containment failed"
                     ELSE IF disposition = "Fatal" THEN "fatal audio fault" ELSE "ended")
    /\ UNCHANGED <<clock, baseline, audio, sent>>

GameStep ==
    \/ BeginFrame \/ LoadFailures \/ LoadTimeline \/ MovieTurn \/ FeedPlayer \/ Advanced
    \/ RefillRing \/ QueueAccepts \/ QueueContains \/ QueueStaysLocked \/ StartClock
    \/ Completion \/ Reduce \/ Finish \/ TakeBaseline \/ Render \/ FrameFails \/ CommandFails \/ Health
    \/ Exit \/ ExitHealth

Next == GameStep \/ Demand \/ DemandFails \/ Callback
           \/ (Returned /\ UNCHANGED vars)

Spec == Init /\ [][Next]_vars

\* The game thread runs its frames and a callback that was called returns.
FairSpec == Spec /\ WF_vars(GameStep) /\ WF_vars(Callback)

-------------------------------------------------------------------------------
(* Properties.                                                             *)

Counts == 0..(MaxTimeline + Capacity + MaxFailures)

\* The state stays well-formed: the ring within its capacity, the queue of pictures
\* within its own and in order, the boot sequence within its duration.
TypeOK ==
    /\ player = Released \/
         /\ player.payload \in 1..(Len(Payloads) + 1) /\ player.cursor \in 0..PcmFrames
         /\ player.status \in {"Ready", "Playing", "Completed", "Failed"}
         /\ (player.status = "Failed") = (player.failure # "none")
         /\ Len(player.queue) <= MaxQueued
    /\ boot.phase \in {"Playing", "Completed", "Skipped", "Failed"}
    /\ boot.position \in 0..SafetyTicks
    /\ queued \in 0..Capacity /\ sent \in 0..PcmFrames /\ played \in 0..PcmFrames
    /\ {producer_finished, session_running, device_resumed, containment_ready, held,
        skip_armed} \subseteq BOOLEAN
    /\ {timeline_frames, session_generation} \subseteq Counts

\* Between two frames of the movie.
AtFrame == app.pc = "frame" /\ MovieIsActive

\* A movie that completed by itself was played out: its last sample left the ring,
\* its last picture was shown for its time and none was left behind.
CompletedMeansPlayedOut ==
    boot.cause = "SourceCompleted" =>
        /\ played = PcmFrames
        /\ player # Released =>
             player.drained /\ player.queue = <<>> /\ player.time >= player.current.end

\* While the movie goes on its sound has no hole: every PCM frame the player handed
\* out was accepted by the ring, and is queued or was played.
SoundHasNoHole ==
    AtFrame => player.cursor = sent /\ queued + played = sent

\* The movie is played whole: no hole while it goes on, nothing missing at its end.
MovieIsPlayedWhole == TypeOK /\ CompletedMeansPlayedOut /\ SoundHasNoHole

\* The picture keeps time with the sound: the player's clock is all the device has
\* asked for as of the last look at it, with nothing lost to rounding, and the
\* picture shown is the newest one due, of pictures admitted in order.  The decoder's
\* clock sees to that order, whatever times the transform reports.
PictureKeepsTimeWithSound ==
    /\ player # Released => player.failure # "InvalidTimestamp"
    /\ AtFrame =>
         /\ player.status = "Playing" =>
              player.time = ((clock.baseline + clock.applied) * ClockNs) \div (ClockRate * UnitNs)
         /\ player.current # NoFrame => player.current.timestamp <= player.time
         /\ \A i \in DOMAIN player.queue :
              /\ player.queue[i].timestamp > player.time
              /\ \A j \in 1..(i - 1) : player.queue[j].timestamp < player.queue[i].timestamp

\* The session outlives the movie's audio: no fault of the movie is taken for a
\* fatal one later, and whichever way the loop returns a contained device is silent.
SessionOutlivesTheMovie ==
    /\ Returned => app.result # "fatal audio fault"
    /\ Returned /\ containment_ready =>
           ~device_resumed /\ queued = 0 /\ callback.pc = "idle" /\ ~session_running
    /\ ~MovieIsActive /\ app.pc = "frame" => ~device_resumed /\ player = Released

\* The movie is played whole or given up for good, and the session goes on without it.
MovieRunsItsCourse == MovieIsPlayedWhole /\ SessionOutlivesTheMovie

\* A movie that is about to play was opened from a file that holds it all: however a
\* movie's streams are cut into packets and mixed, both are read back as they were
\* written, and of a file that was cut short nothing is taken or all of the sound.
MoviesAreReadWhole ==
    player = NewPlayer /\ app = [pc |-> "frame"] /\ queued = 0 /\ faults = NoFaults =>
        LayoutsAreReadBack

\* The movie ends, whatever decoder and device do: the boot sequence's deadline
\* does not depend on either.
MovieEnds == <>(~MovieIsActive \/ Returned)

===============================================================================
