----------------------------- MODULE MediaTools -----------------------------
(***************************************************************************)
(* The conversions between a file on disk and a packet on the wire, each   *)
(* run on its own: finding the audio of a WAV file, shifting its pitch,    *)
(* coding a sample, writing a packet and reading back what arrives of it.  *)
(***************************************************************************)
EXTENDS Alaw, RtpPacket, WavUtils, PitchShifter

CONSTANTS
    Samples,        \* PCM samples to code
    PacketSet,      \* packets to write, before any source is added
    BufferSizes,    \* sizes of the buffers to write them to
    Mixers,         \* sources that add_ssrc may be called with
    MaxSources,     \* bound on the contributing sources
    WavFiles        \* files to open

\* The packets a header can describe: a version of two bits and a payload type
\* of seven, lengths that fit their fields, as many sources as the bound.
Bytes == 0..255
Shorts == 0..65535
Quads == [1..4 -> Bytes]
Packets ==
    {p \in [padding : BOOLEAN, version : 0..3, payload_type : 0..127,
            marker : BOOLEAN, sequence_num : Shorts, timestamp : Quads,
            ssrc : Quads, csrc_list : Seq(Quads),
            extension : {Nothing} \cup [id : Shorts, data : Seq(Quads)],
            payload : Seq(Bytes)] :
        /\ Len(p.csrc_list) <= MaxSources
        /\ p.extension # Nothing => Len(p.extension.data) \in Shorts}

ASSUME PacketAssumption == PacketSet \subseteq Packets /\ Mixers \subseteq Quads
ASSUME SampleAssumption == Samples \subseteq PcmSamples
ASSUME SourceAssumption == MaxSources \in 0..15
ASSUME WavAssumption ==
    WavFiles \subseteq
        [riff : BOOLEAN, chunks : Seq([id : STRING, size : Nat])]

VARIABLES
    tool,           \* the conversion at work
    stage,          \* how far it is
    item,           \* what is converted
    out,            \* what it was converted to
    arrived         \* how many octets of a packet arrived

vars == <<tool, stage, item, out, arrived>>

Init ==
    /\ \/ tool = "alaw" /\ item \in Samples
       \/ tool = "rtp" /\ item \in PacketSet
       \/ tool = "wav" /\ item \in WavFiles
       \/ tool = "pitch" /\ \E i \in Increments, up \in BOOLEAN :
                                item = Reset(i, up)
    /\ stage = "in"
    /\ out = Nothing
    /\ arrived = 0

encode_alaw ==
    /\ tool = "alaw" /\ stage = "in"
    /\ out' = Encode(item)
    /\ stage' = "coded"
    /\ UNCHANGED <<tool, item, arrived>>

decode_alaw ==
    /\ tool = "alaw" /\ stage = "coded"
    /\ out' = Decode(out)
    /\ stage' = "decoded"
    /\ UNCHANGED <<tool, item, arrived>>

AddSource(ssrc) ==
    /\ tool = "rtp" /\ stage = "in"
    /\ Len(item.csrc_list) < MaxSources
    /\ item' = add_ssrc(item, ssrc)
    /\ UNCHANGED <<tool, stage, out, arrived>>

WritePacket(size) ==
    /\ tool = "rtp" /\ stage = "in"
    /\ out' = to_buffer(item, size)
    /\ stage' = IF out' = Nothing THEN "refused" ELSE "written"
    /\ UNCHANGED <<tool, item, arrived>>

\* A packet arrives, or the first octets of it.
ReadPacket ==
    /\ tool = "rtp" /\ stage = "written"
    /\ arrived' \in 0..Len(out)
    /\ out' = from_buffer(SubSeq(out, 1, arrived'))
    /\ stage' = "read"
    /\ UNCHANGED <<tool, item>>

OpenWav ==
    /\ tool = "wav" /\ stage = "in"
    /\ out' \in get_audio_data_offset(item)
    /\ stage' = "opened"
    /\ UNCHANGED <<tool, item, arrived>>

\* One sample through PitchShifter::process.
ShiftSample ==
    /\ tool = "pitch"
    /\ item' \in advance_pointers(item)
    /\ UNCHANGED <<tool, stage, out, arrived>>

Next ==
    \/ encode_alaw
    \/ decode_alaw
    \/ \E ssrc \in Mixers : AddSource(ssrc)
    \/ \E size \in BufferSizes : WritePacket(size)
    \/ ReadPacket
    \/ OpenWav
    \/ ShiftSample

Spec == Init /\ [][Next]_vars

-----------------------------------------------------------------------------
Magnitude(x) == IF x < 0 THEN -x ELSE x

\* "A-Law allocates more dynamic range to smaller signals" and decoding
\* "essentially reverses the encoding process": a decoded sample is off by at
\* most 16, or by a sixteenth of a loud one, has the sign of the original, and
\* coding it again gives the same octet.  Excepted are the samples -7..-1,
\* whose magnitude make_encode_table turns negative: they decode to -248.
SampleSurvives ==
    tool = "alaw" /\ stage = "decoded" /\ item \notin -7..-1 =>
        /\ \/ Magnitude(out - item) <= 16
           \/ 16 * Magnitude(out - item) <= Magnitude(item)
        /\ (out < 0) = (item < 0)
        /\ Decode(Encode(out)) = out

\* from_buffer never looks past the octets it was given, and what to_buffer
\* wrote it reads back: it refuses exactly the packets whose header was cut.
PacketSurvives ==
    tool = "rtp" /\ stage = "read" =>
        IF arrived < HeaderSize(item) THEN out = Nothing
        ELSE out = [item EXCEPT !.payload =
                      SubSeq(@, 1, arrived - HeaderSize(item))]

\* get_audio_data_offset finds the audio wherever it begins in the part of
\* the file it looks at, and open() counts the file from there, whatever
\* chunks come before, as long as each of those has an even size.  After a
\* chunk of an odd size `next_pos = pos + WAV_CHUNK_HEADER_SIZE + chunk_size`
\* is the padding octet, not the next chunk: the search leaves the chunks and
\* all but always falls back to 44, in the middle of a header or of the audio.
AudioFound ==
    tool = "wav" /\ stage = "opened" /\ item.riff =>
        \A i \in DOMAIN item.chunks :
            LET begin == ChunkStart(item, i) + WAV_CHUNK_HEADER_SIZE
            IN  /\ item.chunks[i].id = "data" /\ begin < bytes_read(item)
                /\ \A j \in 1..(i - 1) : /\ item.chunks[j].id # "data"
                                        /\ item.chunks[j].size % 2 = 0
                /\ bytes_read(item) >= DEFAULT_WAV_HEADER_SIZE
                => /\ out = begin
                   /\ AudioSize(item, out) = FileSize(item) - begin

\* A head reads the two samples on either side of its delay, none of them
\* about to be overwritten, and the weights of the heads add up to one.
HeadsFollow ==
    tool = "pitch" =>
        /\ Weight(item.phase_) + Weight(Opposite(item.phase_)) = One
        /\ \A phase \in {item.phase_, Opposite(item.phase_)} :
              LET Age(cell) == (item.write_ptr_ - cell + buffer_size_)
                                   % buffer_size_
                  cells == Cells(item, phase)
              IN  /\ One * (Age(cells[1]) - 1) < Delay(phase)
                  /\ Delay(phase) <= One * Age(cells[1])
                  /\ One * Age(cells[2]) <= Delay(phase)

\* The crossfade hides the jumps: a head that jumps is faint before and after.
NoClick ==
    [][tool = "pitch" =>
         \A head \in {0, 1} :
             LET Of(s) == IF head = 0 THEN s.phase_ ELSE Opposite(s.phase_)
             IN  Magnitude(Of(item') - Of(item)) > item.increment
                   => /\ Weight(Of(item)) <= 2 * item.increment
                      /\ Weight(Of(item')) <= 2 * item.increment]_vars
=============================================================================
