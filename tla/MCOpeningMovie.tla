---------------------------- MODULE MCOpeningMovie ----------------------------
(* A short movie, for TLC. *)
EXTENDS OpeningMovie

Sampled(time) == [is |-> "sample", time |-> time, duration |-> 0]
Changed == [is |-> "format change", resized |-> FALSE]
Resized == [is |-> "format change", resized |-> TRUE]
Answer(a) == [is |-> a]

\* Nothing; a picture without a time; one later than the last one's end and one
\* earlier; a new format of the same or another extent; too many new formats,
\* too little progress, a failure and the end of the stream.
MCPulls == {<<Answer("need input")>>,
            <<Sampled(None), Answer("need input")>>,
            <<Sampled(1), Sampled(1), Answer("need input")>>,
            <<Changed, Answer("no sample"), Sampled(4), Answer("stream end")>>,
            <<Resized, Sampled(None), Answer("need input")>>,
            <<Changed, Changed>>, <<Answer("no sample"), Answer("no sample")>>,
            <<Answer("failure")>>}

\* The input is taken at once, after a pull with or without a picture, or never.
MCRejections == {<<>>, <<(<<Sampled(None), Answer("need input")>>)>>,
                 <<(<<Answer("need input")>>), (<<Answer("need input")>>)>>}

\* What a file begins and ends with: a pack header with or without stuffing, a
\* system header, padding; nothing, the end of the program, and zeros after it.
Pack(stuffing) == <<StartCode, PackId, 1, Len(stuffing)>> \o stuffing
Befores == {Pack(<<>>),
            Pack(<<255>>) \o <<StartCode, SystemId, 1, 7>> \o <<StartCode, PaddingId, 2, 255, 255>>}
Afters == {<<>>, <<StartCode, EndId>>, <<StartCode, EndId, 0, 0>>}
Orders == {<<"video", "audio", "video", "audio">>, <<"audio", "video", "video", "audio">>,
           <<"audio", "audio", "video", "video">>}

\* The movie that is played: an empty payload and one of a slice and two thirds, whose
\* timestamps wrap; three PCM frames.
Played == [video |-> <<StartCode, 179, 5, 0, 0>>, facts |-> <<5, 0>>, rate |-> 2, channels |-> 2,
           block |-> 2, frames |-> <<<<1, 2>>, <<3, 4>>, <<5, 6>>>>]
MCMovieFile ==
    Written([movie |-> Played, video_cut |-> 0, audio_cut |-> 12, order |-> <<"video", "audio", "video", "audio">>,
             times |-> <<14, 2>>, endless |-> FALSE, before |-> Pack(<<>>), after |-> <<>>])
MCPayloads == <<0, 5>>

\* The movies that are read back: two sequence headers with matrices and extensions,
\* four PCM frames in blocks of two; the video or the audio cut anywhere.
Headers == <<StartCode, 179, 5, 1, StartCode, StartCode, 181, 1, 7, StartCode, 181, 2, 0>>
ReadBack == [video |-> Headers \o Headers, facts |-> <<5, 7>>, rate |-> 4, channels |-> 2,
             block |-> 4, frames |-> <<<<1, 258>>, <<3, 4>>, <<5, 6>>, <<7, 8>>>>]
Layout(cut, pcm_cut, order, endless, before, after) ==
    [movie |-> ReadBack, video_cut |-> cut, audio_cut |-> pcm_cut, order |-> order,
     times |-> <<14, 2>>, endless |-> endless, before |-> before, after |-> after]
MCLayouts ==
    {Layout(cut, 12, order, endless, before, after) :
        cut \in 0..26, order \in Orders, endless \in BOOLEAN, before \in Befores, after \in Afters}
    \cup {Layout(3, cut, order, endless, before, <<>>) :
            cut \in 0..26, order \in Orders, endless \in BOOLEAN, before \in Befores}

===============================================================================
