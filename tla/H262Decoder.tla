------------------------------ MODULE H262Decoder ------------------------------
(***************************************************************************)
(* The H.262 decoder of src/media/media_foundation_h262_decoder.cpp over   *)
(* Media Foundation's synchronous transform: Push and Drain, the loop that *)
(* pulls frames until the transform wants input, the clock that dates the  *)
(* frames, and the poisoning after an error.                               *)
(*                                                                         *)
(* A decoder is a record and a call a function of it and of what the       *)
(* transform answers, which is the transform's own choice.  Pixels, media  *)
(* types and reference counts are left out: a format is whether its extent *)
(* is still the one the decoder began with, and its rate stays the same    *)
(* (ReadOutputFormat refuses one without a positive cadence).  A sample    *)
(* without a time reports None, one without a duration 0; a time is never  *)
(* negative.                                                               *)
(***************************************************************************)
EXTENDS Integers, Sequences, SequencesExt

CONSTANTS
    Pulls,               \* what ProcessOutput may answer in a row
    Rejections,          \* the pulls between an input's rejections, in a row
    CadenceNumerator,    \* kMediaFoundationTicksPerSecond over the rate of frames
    CadenceDenominator,
    MaxNoProgress,       \* kMaximumNoProgressIterations
    MaxFormatChanges,    \* kMediaFoundationH262MaximumConsecutiveFormatChanges
    MaxFramesPerCall,    \* maximum_frames_per_call
    MaxTotalFrames,      \* maximum_total_frames
    MaxTotalInput        \* maximum_total_input_bytes

ASSUME H262DecoderAssumption ==
    /\ {CadenceNumerator, CadenceDenominator, MaxNoProgress, MaxFormatChanges,
        MaxFramesPerCall, MaxTotalFrames, MaxTotalInput} \subseteq Nat \ {0}
    /\ CadenceDenominator <= CadenceNumerator

None == -1

NewDecoder ==
    [accepted |-> 0, decoded |-> 0, changes |-> 0, drained |-> FALSE, poisoned |-> FALSE,
     ended |-> FALSE, resized |-> FALSE, remainder |-> 0, previous_end |-> None]

-------------------------------------------------------------------------------
(* OutputClock: a frame begins no earlier than the last one ended.           *)

\* A plausible error: a frame begins when the transform says.
ObserveAsReported(d, time, duration) ==
    LET begins == IF time # None THEN time ELSE IF d.previous_end = None THEN 0 ELSE d.previous_end
        lasts  == IF duration > 0 THEN duration ELSE CadenceNumerator \div CadenceDenominator
    IN  [decoder |-> [d EXCEPT !.previous_end = begins + lasts],
         frame |-> [timestamp |-> begins, duration |-> lasts, resized |-> d.resized]]

Observe(d, time, duration) ==
    LET cadence == CadenceNumerator + d.remainder
        lasts   == IF duration > 0 THEN duration ELSE cadence \div CadenceDenominator
        begins  == IF d.previous_end = None THEN (IF time = None THEN 0 ELSE time)
                   ELSE IF time > d.previous_end THEN time ELSE d.previous_end
    IN  [decoder |-> [d EXCEPT !.remainder = cadence % CadenceDenominator,
                               !.previous_end = begins + lasts],
         frame |-> [timestamp |-> begins, duration |-> lasts, resized |-> d.resized]]

\* The cadence starts over with a new output format.
Reconfigure(d, resized) == [d EXCEPT !.resized = resized, !.remainder = 0]

-------------------------------------------------------------------------------
(* PullUntilNeedInput, one answer of ProcessOutput after the other.          *)

\* A pull: the decoder, the frames so far, the answers without progress, and
\* whether it goes on, returned or failed.
Pulling(d) == [decoder |-> d, frames |-> <<>>, idle |-> 0,
               state |-> IF d.ended THEN "returned" ELSE "pulling"]

Returns(pull) == [pull EXCEPT !.state = "returned"]

\* An error keeps the decoder from ever being used again.
Poison(pull) == [pull EXCEPT !.state = "failed", !.decoder.poisoned = TRUE]

StreamEnds(pull) ==
    LET ended == [pull EXCEPT !.decoder.ended = TRUE]
    IN  IF pull.decoder.drained THEN Returns(ended) ELSE Poison(ended)

FormatChanges(pull, resized) ==
    IF pull.decoder.changes >= MaxFormatChanges THEN Poison(pull)
    ELSE [pull EXCEPT !.idle = 0,
                      !.decoder = Reconfigure([@ EXCEPT !.changes = @ + 1], resized)]

NoSample(pull) ==
    IF pull.idle >= MaxNoProgress THEN Poison(pull) ELSE [pull EXCEPT !.idle = @ + 1]

\* append_from_sample.
Sample(pull, time, duration) ==
    LET observed == Observe(pull.decoder, time, duration)
    IN  IF Len(pull.frames) >= MaxFramesPerCall \/ pull.decoder.decoded >= MaxTotalFrames
        THEN Poison(pull)
        ELSE [pull EXCEPT !.idle = 0,
                 !.decoder = [observed.decoder EXCEPT !.decoded = @ + 1, !.changes = 0],
                 !.frames = Append(@, observed.frame)]

PullUntilNeedInput(d, answers) ==
    LET Step(pull, answer) ==
            IF pull.state # "pulling" THEN pull
            ELSE CASE answer.is = "need input"    -> Returns(pull)
                   [] answer.is = "stream end"    -> StreamEnds(pull)
                   [] answer.is = "format change" -> FormatChanges(pull, answer.resized)
                   [] answer.is = "no sample"     -> NoSample(pull)
                   [] answer.is = "sample"        -> Sample(pull, answer.time, answer.duration)
                   [] answer.is = "failure"       -> Poison(pull)
    IN  FoldLeft(Step, Pulling(d), answers)

-------------------------------------------------------------------------------
(* The calls.                                                                *)

\* merge_frames: what several pulls of one call gave back.
Merge(before, pull) ==
    IF pull.state = "failed" THEN pull
    ELSE IF Len(before.frames) + Len(pull.frames) > MaxFramesPerCall THEN Poison(pull)
    ELSE [pull EXCEPT !.frames = before.frames \o @]

\* Pulls that make room for an input the transform did not accept.
AfterRejections(d, rejections) ==
    LET Step(call, answers) ==
            IF call.state = "failed" THEN call
            ELSE IF call.idle >= MaxNoProgress THEN Poison(call)
            ELSE [Merge(call, PullUntilNeedInput(call.decoder, answers))
                    EXCEPT !.idle = call.idle + 1]
    IN  FoldLeft(Step, [Pulling(d) EXCEPT !.state = "returned"], rejections)

\* Push: the chunk is offered until the transform takes it.
Push(d, bytes, rejections, answers) ==
    LET offered == AfterRejections(d, rejections)
    IN  IF d.poisoned \/ d.drained THEN [Pulling(d) EXCEPT !.state = "failed"]
        ELSE IF bytes > MaxTotalInput - d.accepted THEN Poison(Pulling(d))
        ELSE IF offered.state = "failed" THEN offered
        ELSE Merge(offered, PullUntilNeedInput([offered.decoder EXCEPT !.accepted = @ + bytes],
                                               answers))

\* Drain: once; the transform gives back what it still holds.
Drain(d, answers) ==
    IF d.poisoned \/ d.drained THEN [Pulling(d) EXCEPT !.state = "failed"]
    ELSE PullUntilNeedInput([d EXCEPT !.drained = TRUE], answers)

===============================================================================
