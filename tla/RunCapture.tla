----------------------------- MODULE RunCapture -----------------------------
(***************************************************************************)
(* The capture of a run: the input and elapsed-time recorders              *)
(* (input_trace.cpp, scheduler_elapsed_trace.cpp), the session that keeps  *)
(* them in step (run_capture_session.cpp), the plan of a finite capture    *)
(* (run_capture.cpp) and the session that reads it back                    *)
(* (run_capture_replay.cpp).  Pure operators on records.                   *)
(*                                                                         *)
(* Frames are numbered from the capture's first_frame_index.  A capture is *)
(*   [phase, maximum, inputs, times, pending, terminal]                    *)
(* and a trace is its length with the frames a replay has not read yet:    *)
(* those it has read decide nothing any more.                              *)
(***************************************************************************)
EXTENDS Naturals, Sequences

NoTrace == [count |-> 0, unread |-> <<>>]
NoTerminal == [marked |-> FALSE, frame |-> 0, host |-> FALSE, logical |-> FALSE]

\* PlanFiniteRunCapture: a capture of no frames has room for one all the same.  Limits
\* on the number of frames and of their indices are not reached.
PlannedFrames(requested_frames) == IF requested_frames = 0 THEN 1 ELSE requested_frames

\* RunCaptureSession::Create.
NewCapture(requested_frames) ==
    [phase |-> "AwaitInput", maximum |-> PlannedFrames(requested_frames),
     inputs |-> NoTrace, times |-> NoTrace, pending |-> 0, terminal |-> NoTerminal]

Refused == [refused |-> TRUE]

\* A plausible error: the last frame of the capacity is refused.
TakesOneLess(trace, frame, maximum) == trace.count + 1 < maximum /\ frame = trace.count

\* Both recorders take the next frame and nothing else, up to their capacity.
Takes(trace, frame, maximum) == trace.count < maximum /\ frame = trace.count
Record(trace, content) == [count |-> trace.count + 1, unread |-> Append(trace.unread, content)]

\* What each call leaves, or Refused.  A snapshot is [frame, input].
AppendInput(capture, snapshot) ==
    IF capture.phase = "AwaitInput" /\ Takes(capture.inputs, snapshot.frame, capture.maximum)
    THEN [capture EXCEPT !.phase = "AwaitElapsedOrTerminal", !.pending = snapshot.frame,
                         !.inputs = Record(@, snapshot.input)]
    ELSE Refused

AppendElapsed(capture, elapsed) ==
    IF /\ capture.phase = "AwaitElapsedOrTerminal"
       /\ Takes(capture.times, capture.pending, capture.maximum)
    THEN [capture EXCEPT !.phase = "AwaitInput", !.pending = 0, !.times = Record(@, elapsed)]
    ELSE Refused

MarkTerminal(capture, host_quit_requested, logical_quit_pressed) ==
    IF capture.phase = "AwaitElapsedOrTerminal" /\ (host_quit_requested \/ logical_quit_pressed)
    THEN [capture EXCEPT !.phase = "Terminal", !.pending = 0,
             !.terminal = [marked |-> TRUE, frame |-> capture.pending,
                           host |-> host_quit_requested, logical |-> logical_quit_pressed]]
    ELSE Refused

\* A capture is not finished between a frame's input and its elapsed time.
CanFinish(capture) == capture.phase \in {"AwaitInput", "Terminal"}
Finish(capture) == [inputs |-> capture.inputs, times |-> capture.times,
                    terminal |-> capture.terminal, maximum |-> capture.maximum]

-------------------------------------------------------------------------------
(* RunCaptureReplaySession: PlanRunCaptureReplay and Next.                 *)

IsReplayable(pair) ==
    /\ pair.maximum > 0
    /\ pair.inputs.count <= pair.maximum /\ pair.times.count <= pair.maximum
    /\ pair.inputs.count = pair.times.count + IF pair.terminal.marked THEN 1 ELSE 0
    /\ pair.terminal.marked =>
         /\ pair.terminal.host \/ pair.terminal.logical
         /\ pair.terminal.frame = pair.inputs.count - 1

Cursor(trace) == trace.count - Len(trace.unread)

\* Next reads a frame with its elapsed time while there is one, then the marked one.
ReadsTerminal(pair) == Cursor(pair.inputs) >= pair.times.count
CanRead(pair) ==
    /\ pair.inputs.unread # <<>>
    /\ ReadsTerminal(pair) =>
         /\ pair.terminal.marked /\ pair.terminal.frame = Cursor(pair.inputs)
         /\ pair.terminal.host \/ pair.terminal.logical

Skip(trace) == [trace EXCEPT !.unread = IF @ = <<>> THEN @ ELSE Tail(@)]

=============================================================================
