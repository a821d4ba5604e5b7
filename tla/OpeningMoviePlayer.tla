-------------------------- MODULE OpeningMoviePlayer --------------------------
(***************************************************************************)
(* The opening movie's player in apps/openomega/opening_movie_player.cpp:  *)
(* it pushes the movie's video payloads into the decoder slice by slice,   *)
(* admits the frames that come back, publishes the newest one due at its   *)
(* own clock, and hands out the movie's PCM frames in order.               *)
(*                                                                         *)
(* A player is a record with its decoder in it, a call a function of both. *)
(* Pixels are left out: a frame is its timestamp, its duration and whether *)
(* its extent is still the movie's.  Calls after a move or from another    *)
(* thread are refused before they read anything and are left out too.      *)
(***************************************************************************)
EXTENDS H262Decoder, MovieStreams

CONSTANTS MovieFile,     \* the movie's bytes, cells of MovieStreams
          Payloads,      \* the sizes of the video payloads in it
          PcmFrames,     \* the number of PCM frames in it
          SafetyTicks,   \* the deadline calculated of it
          ClockRate,     \* kOpeningMovieAudioSampleRateHz
          ChunkBytes,    \* maximum_input_chunk_bytes
          MaxQueued,     \* kMaximumQueuedFrames
          MaxFeeds,      \* kMaximumDecoderFeedsPerAdvance
          UnitNs         \* nanoseconds in one unit of the player's clock (100)

ASSUME PlayerAssumption == {ClockRate, ChunkBytes, MaxQueued, MaxFeeds, UnitNs} \subseteq Nat \ {0}

\* What Create opens, in stereo; of a file it rejects there is no player.
Create == Open(MovieFile, ClockRate, 2)

\* The three figures are those of the file; the decoder's limit is the stream's size.
ASSUME MovieAssumption ==
    \E movie \in {Create} :
       /\ Accepted(movie)
       /\ Payloads = [i \in DOMAIN movie.video.payloads |-> movie.video.payloads[i].bytes]
       /\ PcmFrames = movie.audio.frames
       /\ SafetyTicks = movie.safety
       /\ MaxTotalInput = Total(movie.video.payloads)

Smaller(a, b) == IF a < b THEN a ELSE b
NoFrame == [timestamp |-> None, end |-> None]

NewPlayer ==
    [payload |-> 1, offset |-> 0, queue |-> <<>>, first |-> None, last |-> None,
     current |-> NoFrame, time |-> 0, remainder |-> 0, cursor |-> 0,
     decoder |-> NewDecoder, status |-> "Ready", failure |-> "none", drained |-> FALSE]

\* The first failure is the one every later call reports.
Failed(p, error) ==
    [p EXCEPT !.status = "Failed", !.failure = IF @ = "none" THEN error ELSE @]

-------------------------------------------------------------------------------
(* Frames the decoder gives back.                                          *)

\* The typed checks of one frame, in the code's order.  A timestamp and a duration
\* are 63-bit, so their 64-bit sum never overflows.
RejectionOf(p, frame) ==
    LET first == IF p.first = None THEN frame.timestamp ELSE p.first
        normalized == frame.timestamp - first
    IN  IF frame.resized THEN "FrameExtentChanged"
        ELSE IF frame.timestamp < 0 \/ frame.duration <= 0 \/ normalized < 0
                \/ (p.last # None /\ normalized <= p.last) THEN "InvalidTimestamp"
        ELSE IF Len(p.queue) >= MaxQueued THEN "FrameQueueExceeded"
        ELSE "none"

Admitted(p, frame) ==
    LET first == IF p.first = None THEN frame.timestamp ELSE p.first
        normalized == frame.timestamp - first
    IN  [p EXCEPT !.first = first, !.last = normalized,
                  !.queue = Append(@, [timestamp |-> normalized,
                                       end |-> normalized + frame.duration])]

\* A batch is admitted whole or not at all.
QueueDecodedFrames(p, batch) ==
    LET Step(staged, frame) ==
            IF staged.rejection # "none" THEN staged
            ELSE IF RejectionOf(staged.p, frame) # "none"
                 THEN [staged EXCEPT !.rejection = RejectionOf(staged.p, frame)]
            ELSE [staged EXCEPT !.p = Admitted(staged.p, frame)]
        staged == FoldLeft(Step, [p |-> p, rejection |-> "none"], batch)
    IN  IF staged.rejection = "none" THEN staged.p ELSE Failed(p, staged.rejection)

\* Every due frame leaves the queue; the newest one is shown.  Its conversion may fail.
PublishDueFrame(p) ==
    LET due == {i \in DOMAIN p.queue : p.queue[i].timestamp <= p.time}
        count == IF due = {} THEN 0 ELSE CHOOSE n \in due : \A i \in due : i <= n
    IN  IF count = 0 THEN {p}
        ELSE LET popped == [p EXCEPT !.queue = SubSeq(@, count + 1, Len(@))]
             IN  {[popped EXCEPT !.current = p.queue[count]],
                  Failed(popped, "FrameConversionFailed")}

\* Nanoseconds become units of the player's clock, the remainder carried.
AdvanceClock(p, elapsed) ==
    [p EXCEPT !.time = @ + (p.remainder + elapsed) \div UnitNs,
              !.remainder = (p.remainder + elapsed) % UnitNs]

-------------------------------------------------------------------------------
(* The calls.                                                              *)

\* Payloads with nothing left to push are passed over.
AtNextSlice(p) ==
    LET later == {i \in (p.payload + 1)..Len(Payloads) : Payloads[i] > 0}
    IN  IF p.payload > Len(Payloads) \/ p.offset < Payloads[p.payload] THEN p
        ELSE [p EXCEPT !.offset = 0,
                       !.payload = IF later = {} THEN Len(Payloads) + 1
                                   ELSE CHOOSE i \in later : \A j \in later : i <= j]

\* What the transform may answer to one call of the decoder.
Answers == [rejections : Rejections, pull : Pulls]

\* One slice goes to the decoder, or the decoder is drained; it may fail.
FeedDecoderOnce(p, answer) ==
    LET at == AtNextSlice(p)
        ending == at.payload > Len(Payloads)
        slice == IF ending THEN 0 ELSE Smaller(Payloads[at.payload] - at.offset, ChunkBytes)
        call == IF ending THEN Drain(p.decoder, answer.pull)
                ELSE Push(p.decoder, slice, answer.rejections, answer.pull)
        fed == [at EXCEPT !.decoder = call.decoder, !.offset = @ + slice, !.drained = ending]
    IN  IF call.state = "failed" THEN Failed([at EXCEPT !.decoder = call.decoder], "DecoderFailed")
        ELSE QueueDecodedFrames(fed, call.frames)

\* Advance up to its feeding loop: the results the call may go on from.
StartAdvance(p, elapsed) ==
    IF p.failure # "none" \/ p.status = "Completed" THEN {p}
    ELSE PublishDueFrame(AdvanceClock([p EXCEPT !.status = "Playing"], elapsed))

\* The loop feeds the decoder while no later frame is queued.
WantsFeed(p, feeds) ==
    /\ p.status = "Playing"
    /\ p.queue = <<>> /\ ~p.drained /\ feeds < MaxFeeds

\* One pass of the loop.
Feed(p, answer) ==
    LET fed == FeedDecoderOnce(p, answer)
    IN  IF fed.failure # "none" THEN {fed} ELSE PublishDueFrame(fed)

\* The end of Advance: the last frame's time is over, or there never was one.
FinishAdvance(p) ==
    IF p.status # "Playing" \/ ~p.drained \/ p.queue # <<>> THEN p
    ELSE IF p.current = NoFrame THEN Failed(p, "EmptyVideo")
    ELSE IF p.time >= p.current.end THEN [p EXCEPT !.status = "Completed"]
    ELSE p

\* ReadAudioFrames: the next PCM frames, none before a picture; decoding may fail.
ReadAudioFrames(p, requested) ==
    LET left == PcmFrames - p.cursor
        count == Smaller(requested, left)
    IN  IF p.failure # "none" THEN {[player |-> p, count |-> 0]}
        ELSE IF p.current = NoFrame
             THEN {[player |-> Failed(p, "AudioNotReady"), count |-> 0]}
        ELSE {[player |-> [p EXCEPT !.cursor = @ + count], count |-> count]}
             \cup IF count = 0 THEN {}
                  ELSE {[player |-> Failed(p, "AudioDecodeFailed"), count |-> 0]}

AudioFinished(p) == p.cursor >= PcmFrames

===============================================================================
