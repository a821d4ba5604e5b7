----------------------------- MODULE MovieStreams -----------------------------
(***************************************************************************)
(* The streams in the opening movie's file: the packets of an MPEG-2       *)
(* program stream (mpeg_program_stream_descriptor.cpp), the elementary     *)
(* video stream in them and its sequence headers                           *)
(* (mpeg_video_elementary_stream.cpp), the interleaved PCM frames in them  *)
(* (pss_pcm_audio_stream.cpp) and the deadline of the boot sequence        *)
(* (opening_movie_safety.cpp).                                             *)
(*                                                                         *)
(* A file is a sequence of cells.  A cell is a byte, or a field the code   *)
(* reads at once: the prefix 00 00 01 of a start code, a length, a         *)
(* timestamp, a word of the audio framing.  Offsets count cells from zero. *)
(* What the code rejects is Rejected, whatever the error.                  *)
(***************************************************************************)
EXTENDS Integers, Sequences, SequencesExt, FiniteSetsExt

CONSTANTS
    MaxPackets,         \* kMpegProgramStreamMaximumPacketDescriptors
    MaxTrailing,        \* kMpegProgramStreamMaximumTrailingZeroPaddingBytes
    MaxStartCodes,      \* kH262MaximumStartCodes
    TimestampWrap,      \* 2^33
    TimestampRate,      \* kMpegPresentationTicksPerSecond
    BootRate,           \* kBootSequenceTicksPerSecond
    SafetySlack,        \* kOpeningMovieSafetySlackTicks
    MaxSafety,          \* kOpeningMovieMaximumSafetyTicks
    Layouts             \* files to read back: a movie and how its streams are cut and mixed

ASSUME MovieStreamsAssumption ==
    {MaxPackets, MaxTrailing, MaxStartCodes, TimestampWrap, TimestampRate, BootRate,
     SafetySlack, MaxSafety} \subseteq Nat \ {0}

StartCode == 256        \* no byte
NoTime == -1
Rejected == [kind |-> "rejected"]
Accepted(result) == result.kind # "rejected"

At(file, offset) == file[offset + 1]
Cells(file, from, to) == SubSeq(file, from + 1, to)

-------------------------------------------------------------------------------
(* The packets.                                                            *)

EndId == 185
PackId == 186
SystemId == 187
MapId == 188
PrivateId == 189
PaddingId == 190
Private2Id == 191
AudioIds == 192..223
VideoIds == 224..239

\* The packets that carry the optional header of MPEG-2.
HasPesHeader(id) ==
    id >= PrivateId /\ id \notin {MapId, PaddingId, Private2Id, 240, 241, 242, 248, 255}

Class(id) == IF id \in AudioIds THEN "Audio"
             ELSE IF id \in VideoIds THEN "Video"
             ELSE IF id \in {PrivateId, Private2Id} THEN "PrivateData" ELSE "Other"

Packet(kind, id, at, payload, end) ==
    [kind |-> kind, class |-> "None", id |-> id, at |-> at, payload |-> payload, end |-> end,
     pts |-> NoTime, dts |-> NoTime, endless |-> FALSE]

\* A plausible error: a packet without a length ends at any start code.
NextStartCode(file, from) ==
    LET codes == {o \in from..(Len(file) - 2) : At(file, o) = StartCode}
    IN  IF codes = {} THEN Len(file) ELSE Min(codes)

\* Where a packet without a length ends; codes below EndId belong to its payload.
NextSystemsStartCode(file, from) ==
    LET codes == {o \in from..(Len(file) - 2) :
                     At(file, o) = StartCode /\ At(file, o + 1) \in EndId..255}
    IN  IF codes = {} THEN Len(file) ELSE Min(codes)

\* Start code, id, a cell of fixed marks, the length of the stuffing, the stuffing.
ParsePackHeader(file, at) ==
    LET end == at + 4 + At(file, at + 3)
    IN  IF \/ Len(file) - at < 4
           \/ At(file, at + 2) # 1
           \/ end > Len(file)
           \/ \E o \in (at + 4)..(end - 1) : At(file, o) # 255
        THEN Rejected ELSE Packet("PackHeader", PackId, at, end, end)

\* The optional header of a packet that may use the cells up to available: marks,
\* flags, its length, the timestamps the flags announce, anything else.
ParsePes(file, at, available, end, endless) ==
    LET id == At(file, at + 1)
        flags == At(file, at + 4)
        payload == at + 6 + At(file, at + 5)
        times == IF flags = 192 THEN 2 ELSE IF flags = 128 THEN 1 ELSE 0
    IN  IF \/ available - at < 6
           \/ At(file, at + 3) # 2
           \/ flags = 64
           \/ payload > available
           \/ At(file, at + 5) < times
           \/ \E t \in 1..times : At(file, at + 5 + t) \notin 0..(TimestampWrap - 1)
        THEN Rejected
        ELSE [Packet("Pes", id, at, payload,
                     IF endless THEN NextSystemsStartCode(file, payload) ELSE end)
              EXCEPT !.class = Class(id), !.endless = endless,
                     !.pts = IF times > 0 THEN At(file, at + 6) ELSE NoTime,
                     !.dts = IF times > 1 THEN At(file, at + 7) ELSE NoTime]

ParseLengthDelimitedPacket(file, at) ==
    LET id == At(file, at + 1)
        length == At(file, at + 2)
        endless == HasPesHeader(id) /\ length = 0
        end == IF endless THEN Len(file) ELSE at + 3 + length
        kind == CASE id = SystemId -> "SystemHeader" [] id = MapId -> "ProgramStreamMap"
                  [] id = PaddingId -> "Padding" [] OTHER -> "OpaqueLengthDelimited"
    IN  IF Len(file) - at < 3 \/ (endless /\ id \notin VideoIds) \/ end > Len(file)
        THEN Rejected
        ELSE IF HasPesHeader(id) THEN ParsePes(file, at, end, end, endless)
        ELSE IF id = PaddingId /\ \E o \in (at + 3)..(end - 1) : At(file, o) # 255
             THEN Rejected
        ELSE [Packet(kind, id, at, at + 3, end)
              EXCEPT !.class = IF kind = "OpaqueLengthDelimited" THEN Class(id) ELSE "None"]

\* A code below the systems codes may not stand at the start of a packet.
ParsePacket(file, at) ==
    IF Len(file) - at < 2 \/ At(file, at) # StartCode \/ At(file, at + 1) \notin EndId..255
    THEN Rejected
    ELSE CASE At(file, at + 1) = EndId  -> Packet("ProgramEnd", EndId, at, at + 2, at + 2)
           [] At(file, at + 1) = PackId -> ParsePackHeader(file, at)
           [] OTHER                     -> ParseLengthDelimitedPacket(file, at)

ParseTrailingZeroPadding(file, at) ==
    IF Len(file) - at > MaxTrailing \/ \E o \in at..(Len(file) - 1) : At(file, o) # 0
    THEN Rejected
    ELSE Packet("TrailingZeroPadding", 0, at, at, Len(file))

\* One packet after the other, a pack header first; after the end only zeros.
ScanProgramStream(file) ==
    LET Step(scan, k) ==
            LET at == IF scan.packets = <<>> THEN 0 ELSE Last(scan.packets).end
                packet == IF scan.packets # <<>> /\ Last(scan.packets).kind = "ProgramEnd"
                          THEN ParseTrailingZeroPadding(file, at) ELSE ParsePacket(file, at)
            IN  IF ~Accepted(scan) \/ at = Len(file) THEN scan
                ELSE IF \/ ~Accepted(packet)
                        \/ Len(scan.packets) >= MaxPackets
                        \/ scan.packets = <<>> /\ packet.kind # "PackHeader"
                     THEN Rejected
                ELSE [scan EXCEPT !.packets = Append(@, packet)]
    IN  FoldLeft(Step, [kind |-> "descriptor", packets |-> <<>>], [k \in 1..(MaxPackets + 1) |-> k])

InspectMpegProgramStream(file) ==
    LET scan == ScanProgramStream(file)
    IN  IF file = <<>> THEN Rejected ELSE scan

-------------------------------------------------------------------------------
(* The video stream.                                                       *)

\* What the plan's builder checks of a packet by itself.
PacketIsConsistent(packet) ==
    /\ packet.dts # NoTime => packet.pts # NoTime
    /\ CASE packet.kind = "Pes" -> /\ packet.class = Class(packet.id)
                                   /\ packet.endless => packet.class = "Video"
         [] packet.kind = "OpaqueLengthDelimited" ->
              /\ packet.class = Class(packet.id) /\ packet.id \notin VideoIds
              /\ ~packet.endless /\ packet.pts = NoTime
         [] OTHER -> packet.class = "None" /\ ~packet.endless /\ packet.pts = NoTime

\* The descriptor is whole: its packets tile the file from a pack header on, their
\* payloads lie in them, and only zeros follow the end of the program.
ValidateDescriptor(file, descriptor) ==
    LET packets == descriptor.packets
        count == Len(packets)
    IN  /\ packets # <<>> /\ packets[1].kind = "PackHeader"
        /\ \A i \in 1..count :
             LET packet == packets[i] IN
             /\ packet.at = IF i = 1 THEN 0 ELSE packets[i - 1].end
             /\ packet.at < packet.end /\ packet.payload \in packet.at..packet.end
             /\ PacketIsConsistent(packet)
             /\ packet.kind = "ProgramEnd" =>
                  i = count \/ (i + 1 = count /\ packets[count].kind = "TrailingZeroPadding")
             /\ packet.kind = "TrailingZeroPadding" =>
                  /\ i = count /\ i > 1 /\ packets[i - 1].kind = "ProgramEnd"
                  /\ packet.end - packet.at <= MaxTrailing
                  /\ \A o \in packet.at..(packet.end - 1) : At(file, o) = 0
        /\ packets[count].end = Len(file)

IsVideo(packet) == packet.kind = "Pes" /\ packet.class = "Video"

\* The payloads of the only video stream.
BuildMpegVideoElementaryStreamPlan(file, descriptor) ==
    LET payloads == SelectSeq(descriptor.packets, IsVideo)
        ids == {payloads[i].id : i \in DOMAIN payloads}
    IN  IF ~ValidateDescriptor(file, descriptor) \/ Cardinality(ids) # 1 THEN Rejected
        ELSE [kind |-> "plan",
              payloads |-> [i \in DOMAIN payloads |->
                               [at |-> payloads[i].payload,
                                bytes |-> payloads[i].end - payloads[i].payload,
                                pts |-> payloads[i].pts]]]

\* The borrowed view: the payloads in their order, read as one stream.
ElementaryStream(file, plan) ==
    FoldLeft(LAMBDA stream, range : stream \o Cells(file, range.at, range.at + range.bytes),
             <<>>, plan.payloads)

\* What a sequence header and its extension say together; another header must say
\* the same.
MergeFacts(scan) ==
    LET facts == <<scan.header, scan.extension>>
    IN  IF scan.header = 0 THEN scan
        ELSE IF scan.facts \notin {<<>>, facts} THEN Rejected
        ELSE [scan EXCEPT !.facts = facts]

\* A sequence header is what it says, 0 when that is not allowed, and the number of
\* quantizer matrices, which are passed over.
ParseBaseHeader(stream, at, scan) ==
    LET end == at + 4 + stream[at + 3]
    IN  IF at + 3 > Len(stream) \/ end - 1 > Len(stream) \/ stream[at + 2] \notin 1..255
        THEN Rejected
        ELSE [scan EXCEPT !.next = end, !.header = stream[at + 2], !.extension = 0]

\* Extensions other than the sequence's are no concern; that one follows a header,
\* once.
ParseExtension(stream, at, scan) ==
    IF at + 2 > Len(stream) THEN Rejected
    ELSE IF stream[at + 2] # 1 THEN scan
    ELSE IF \/ scan.header = 0 \/ scan.extension # 0 \/ at + 3 > Len(stream)
            \/ stream[at + 3] \notin 1..255 THEN Rejected
    ELSE [scan EXCEPT !.next = at + 4, !.extension = stream[at + 3]]

\* The sequence headers of the stream, wherever its packets cut it: the start codes
\* in turn, but for those inside a header.
InspectH262SequenceHeaderFacts(stream) ==
    LET codes == SelectSeq([i \in DOMAIN stream |->
                               IF i < Len(stream) /\ stream[i] = StartCode THEN i ELSE 0],
                           LAMBDA i : i # 0)
        Coded(scan, at) ==
            LET merged == MergeFacts(scan)
            IN  CASE stream[at + 1] = 179 -> IF Accepted(merged)
                                             THEN ParseBaseHeader(stream, at, merged) ELSE Rejected
                  [] stream[at + 1] = 181 -> ParseExtension(stream, at, scan)
                  [] OTHER -> scan
        Step(scan, at) ==
            IF ~Accepted(scan) THEN scan
            ELSE IF at < scan.next THEN scan
            ELSE IF scan.codes >= MaxStartCodes THEN Rejected
            ELSE Coded([scan EXCEPT !.codes = @ + 1], at)
        scanned == FoldLeft(Step, [kind |-> "scan", next |-> 1, codes |-> 0, header |-> 0,
                                   extension |-> 0, facts |-> <<>>], codes)
        ended == IF Accepted(scanned) THEN MergeFacts(scanned) ELSE Rejected
    IN  IF ~Accepted(ended) THEN Rejected
        ELSE IF ended.facts = <<>> THEN Rejected ELSE ended

-------------------------------------------------------------------------------
(* The PCM frames.                                                         *)

IsPrivate(packet) == packet.kind = "Pes" /\ packet.id = PrivateId
SampleBytes == 2
FramingCells == 10

\* The framing before the samples: magic, size of the header, encoding, rate, channels, bytes
\* of a channel's block, no loop, magic, bytes of the samples.
Sshd == 300
Ssbd == 301
NoLoop == 302

\* The contents of the private packets but for their prefix, empty ones left out.
ContentRanges(packets) ==
    LET privates == SelectSeq(packets, IsPrivate)
        Filled(packet) == packet.end - packet.payload > 1
        filled == SelectSeq(privates, Filled)
    IN  [i \in DOMAIN filled |-> [at |-> filled[i].payload + 1,
                                  bytes |-> filled[i].end - filled[i].payload - 1]]

Total(ranges) == FoldLeft(LAMBDA sum, range : sum + range.bytes, 0, ranges)

Samples(ranges) ==
    LET Step(taken, range) ==
            LET skipped == Min({taken.skip, range.bytes})
            IN  [skip |-> taken.skip - skipped,
                 offset |-> taken.offset + range.bytes - skipped,
                 payloads |-> IF skipped = range.bytes THEN taken.payloads
                              ELSE Append(taken.payloads,
                                          [at |-> range.at + skipped, bytes |-> range.bytes - skipped,
                                           offset |-> taken.offset])]
    IN  FoldLeft(Step, [skip |-> FramingCells, offset |-> 0, payloads |-> <<>>], ranges).payloads

\* The descriptor is compared with a new reading first.  One private stream, framed,
\* with as many samples as it says in whole rounds of the channels' blocks.
BuildPssPcmAudioStreamPlan(file, descriptor) ==
    LET privates == SelectSeq(descriptor.packets, IsPrivate)
        prefixes == {At(file, privates[i].payload) : i \in DOMAIN privates}
        ranges == ContentRanges(descriptor.packets)
        framing == SubSeq(ElementaryStream(file, [payloads |-> ranges]), 1, FramingCells)
        channels == framing[5]
        block == framing[6]
    IN  IF \/ InspectMpegProgramStream(file) # descriptor
           \/ \E i \in DOMAIN privates : privates[i].payload = privates[i].end
           \/ Cardinality(prefixes) # 1
           \/ Total(ranges) < FramingCells
           \/ <<framing[1], framing[2], framing[3]>> # <<Sshd, 24, 1>> \/ framing[4] = 0
           \/ channels = 0 \/ block = 0 \/ block % SampleBytes # 0
           \/ <<framing[7], framing[8], framing[9]>> # <<NoLoop, NoLoop, Ssbd>>
           \/ Total(ranges) # FramingCells + framing[10]
           \/ framing[10] = 0 \/ framing[10] % (channels * block) # 0
        THEN Rejected
        ELSE [kind |-> "plan", rate |-> framing[4], channels |-> channels, block |-> block,
              bytes |-> framing[10], frames |-> framing[10] \div (channels * SampleBytes),
              payloads |-> Samples(ranges)]

\* What DecodePssPcm16Interleaved checks of a plan before it reads.
PlanIsConsistent(file, plan) ==
    /\ {plan.rate, plan.channels, plan.block} \subseteq Nat \ {0}
    /\ plan.block % SampleBytes = 0 /\ plan.payloads # <<>>
    /\ plan.frames * plan.channels * SampleBytes = plan.bytes
    /\ plan.bytes > 0 /\ plan.bytes % (plan.channels * plan.block) = 0
    /\ \A i \in DOMAIN plan.payloads :
         LET range == plan.payloads[i] IN
         /\ range.bytes > 0 /\ range.at + range.bytes <= Len(file)
         /\ range.at >= IF i = 1 THEN 0
                        ELSE plan.payloads[i - 1].at + plan.payloads[i - 1].bytes
         /\ range.offset = IF i = 1 THEN 0
                           ELSE plan.payloads[i - 1].offset + plan.payloads[i - 1].bytes
    /\ Last(plan.payloads).offset + Last(plan.payloads).bytes = plan.bytes

\* The byte of the samples at an offset, in the last range that begins no later.
SampleByte(file, plan, offset) ==
    LET range == plan.payloads[Max({i \in DOMAIN plan.payloads :
                                        plan.payloads[i].offset <= offset})]
    IN  At(file, range.at + offset - range.offset)

Sample16(file, plan, offset) ==
    SampleByte(file, plan, offset) + 256 * SampleByte(file, plan, offset + 1)

\* A plausible error: the place in the block is counted in bytes.
DecodeByteFrames(file, plan, first, count) ==
    LET framesPerBlock == plan.block \div SampleBytes
        Offset(frame, channel) ==
            (frame \div framesPerBlock) * plan.channels * plan.block + channel * plan.block
              + (frame % framesPerBlock)
    IN  IF ~PlanIsConsistent(file, plan) \/ first + count > plan.frames THEN <<>>
        ELSE [n \in 1..count |-> [c \in 1..plan.channels |->
                 Sample16(file, plan, Offset(first + n - 1, c - 1))]]

\* The frames from first on: in every round, the channels' blocks follow each other.
DecodePssPcm16Interleaved(file, plan, first, count) ==
    LET framesPerBlock == plan.block \div SampleBytes
        Offset(frame, channel) ==
            (frame \div framesPerBlock) * plan.channels * plan.block + channel * plan.block
              + (frame % framesPerBlock) * SampleBytes
    IN  IF ~PlanIsConsistent(file, plan) \/ first + count > plan.frames THEN <<>>
        ELSE [n \in 1..count |-> [c \in 1..plan.channels |->
                 Sample16(file, plan, Offset(first + n - 1, c - 1))]]

-------------------------------------------------------------------------------
(* The deadline.                                                           *)

ConvertToTicksCeil(time) == (time * BootRate + TimestampRate - 1) \div TimestampRate

\* The timestamps of the plan, a fall by more than half the range being a wrap.
Unwrapped(plan) ==
    LET Step(seen, range) ==
            LET wraps == seen.raw - range.pts > TimestampWrap \div 2
                base == IF wraps THEN seen.base + TimestampWrap ELSE seen.base
            IN  IF range.pts = NoTime THEN seen
                ELSE [raw |-> range.pts, base |-> base, times |-> Append(seen.times, base + range.pts)]
    IN  FoldLeft(Step, [raw |-> 0, base |-> 0, times |-> <<>>], plan.payloads).times

CalculateOpeningMovieSafetyDurationTicks(plan) ==
    LET times == Unwrapped(plan)
        span == {times[i] : i \in DOMAIN times}
    IN  IF Len(times) < 2 \/ Cardinality(span) < 2 THEN MaxSafety
        ELSE Min({MaxSafety, ConvertToTicksCeil(Max(span) - Min(span)) + SafetySlack})

-------------------------------------------------------------------------------
(* OpeningMoviePlayer::Create, up to the decoder.                          *)

Open(file, rate, channels) ==
    LET descriptor == InspectMpegProgramStream(file)
        video == BuildMpegVideoElementaryStreamPlan(file, descriptor)
        facts == InspectH262SequenceHeaderFacts(ElementaryStream(file, video))
        audio == BuildPssPcmAudioStreamPlan(file, descriptor)
    IN  IF ~Accepted(descriptor) THEN Rejected
        ELSE IF ~Accepted(video) THEN Rejected
        ELSE IF ~Accepted(facts) \/ ~Accepted(audio) THEN Rejected
        ELSE IF audio.rate # rate \/ audio.channels # channels \/ Total(video.payloads) = 0
             THEN Rejected
        ELSE [kind |-> "movie", video |-> video, facts |-> facts.facts, audio |-> audio,
              safety |-> CalculateOpeningMovieSafetyDurationTicks(video)]

-------------------------------------------------------------------------------
(* Files, as somebody writes them: the reference of what is read.          *)

\* A movie is its video stream and what its headers say, and its PCM frames by
\* channel.  The bytes of its samples, by their place.
WrittenSample(movie, offset) ==
    LET round == movie.channels * movie.block
        frame == (offset \div round) * (movie.block \div 2) + (offset % movie.block) \div 2
        sample == movie.frames[frame + 1][(offset % round) \div movie.block + 1]
    IN  IF offset % 2 = 0 THEN sample % 256 ELSE sample \div 256

WrittenAudio(movie) ==
    LET bytes == Len(movie.frames) * movie.channels * 2
    IN  <<Sshd, 24, 1, movie.rate, movie.channels, movie.block, NoLoop, NoLoop, Ssbd, bytes>>
        \o [o \in 1..bytes |-> WrittenSample(movie, o - 1)]

WrittenPes(id, endless, time, payload) ==
    LET header == IF time = NoTime THEN <<0, 1, 255>> ELSE <<128, 1, time>>
    IN  <<StartCode, id, IF endless THEN 0 ELSE 4 + Len(payload), 2>> \o header \o payload

\* A layout: each stream cut in two, the order of the four packets, a time for each
\* video packet, whether these have no length, and what comes before and after.
Written(layout) ==
    LET audio == WrittenAudio(layout.movie)
        Half(stream, cut, which) == IF which = 1 THEN SubSeq(stream, 1, cut)
                                    ELSE SubSeq(stream, cut + 1, Len(stream))
        Step(file, stream) ==
            LET which == 1 + Cardinality({i \in 1..file.done : layout.order[i] = stream})
            IN  [done |-> file.done + 1,
                 cells |-> file.cells \o
                     IF stream = "video"
                     THEN WrittenPes(224, layout.endless, layout.times[which],
                                     Half(layout.movie.video, layout.video_cut, which))
                     ELSE WrittenPes(PrivateId, FALSE, NoTime,
                                     <<9>> \o Half(audio, layout.audio_cut, which))]
    IN  layout.before
        \o FoldLeft(Step, [done |-> 0, cells |-> <<>>], layout.order).cells \o layout.after

Times(plan) == [i \in DOMAIN plan.payloads |-> plan.payloads[i].pts]

ReadsBack(layout) ==
    LET movie == layout.movie
    IN  \A file \in {Written(layout)} : \A opened \in {Open(file, movie.rate, movie.channels)} :
        /\ Accepted(opened)
        /\ ElementaryStream(file, opened.video) = movie.video
        /\ Times(opened.video) = layout.times
        /\ opened.facts = movie.facts
        /\ opened.audio.frames = Len(movie.frames)
        /\ \A first \in 0..Len(movie.frames) : \A count \in 0..(Len(movie.frames) - first) :
             DecodePssPcm16Interleaved(file, opened.audio, first, count)
                 = SubSeq(movie.frames, first + 1, first + count)
        /\ opened.safety = MaxSafety
             \/ opened.safety >= ConvertToTicksCeil((layout.times[2] - layout.times[1]) % TimestampWrap)

\* A file that was cut short: no sample is missing or made up.
CutReadsNoMore(movie, whole, size) ==
    \A file \in {SubSeq(whole, 1, size)} : \A opened \in {Open(file, movie.rate, movie.channels)} :
        Accepted(opened) =>
          /\ IsPrefix(ElementaryStream(file, opened.video), movie.video)
          /\ DecodePssPcm16Interleaved(file, opened.audio, 0, opened.audio.frames) = movie.frames

\* However a movie's streams are cut into packets and mixed, they are read back as
\* they were written, from any frame on; of a file that is cut short either nothing
\* is taken or all of the sound.
LayoutsAreReadBack ==
    \A layout \in Layouts :
       /\ ReadsBack(layout)
       /\ layout.video_cut % 3 = 0 /\ layout.audio_cut % 5 = 0 =>
            \A whole \in {Written(layout)} : \A size \in 0..Len(whole) :
                CutReadsNoMore(layout.movie, whole, size)

===============================================================================
