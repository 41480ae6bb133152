------------------------------ MODULE WavUtils ------------------------------
(***************************************************************************)
(* Where the audio of a WAV file begins.  What open() reads of a file is   *)
(* its first bytes_read octets; a file is described by whether it begins   *)
(* with "RIFF" and by its chunks, each an id and a size.  In a RIFF file a *)
(* chunk of an odd size is followed by a padding octet, zero, which this   *)
(* code does not know of.                                                  *)
(***************************************************************************)
EXTENDS Naturals, Sequences

DEFAULT_WAV_HEADER_SIZE == 44
WAV_CHUNK_OFFSET == 12
WAV_CHUNK_HEADER_SIZE == 8
HEADER_BUF_SIZE == 256

\* Where chunk i begins; chunk Len + 1 begins at the end of the file.
ChunkStart(wav, i) ==
    LET start[j \in 1..(Len(wav.chunks) + 1)] ==
            IF j = 1 THEN WAV_CHUNK_OFFSET
            ELSE start[j - 1] + WAV_CHUNK_HEADER_SIZE + wav.chunks[j - 1].size
                   + (wav.chunks[j - 1].size % 2)
    IN  start[i]

FileSize(wav) == ChunkStart(wav, Len(wav.chunks) + 1)
bytes_read(wav) == IF FileSize(wav) < HEADER_BUF_SIZE THEN FileSize(wav)
                   ELSE HEADER_BUF_SIZE

\* Mutant: only the first chunk is looked at.
FirstChunkOnly(wav) ==
    {IF wav.chunks[1].id = "data"
     THEN ChunkStart(wav, 1) + WAV_CHUNK_HEADER_SIZE
     ELSE DEFAULT_WAV_HEADER_SIZE}

\* The loop has taken the padding octet before chunk i for the beginning of a
\* chunk.  The id it reads is never "data", and the lower octet of the size it
\* reads is the end of an id: with any of the three octets above it set, that
\* size leads out of the buffer.  Otherwise the search goes on from a place
\* that depends on the octets of the id, and can end anywhere.
Astray(wav, i) ==
    IF \/ ChunkStart(wav, i) - 1 + WAV_CHUNK_HEADER_SIZE >= bytes_read(wav)
       \/ wav.chunks[i].size % 2^24 # 0
    THEN {DEFAULT_WAV_HEADER_SIZE}
    ELSE {DEFAULT_WAV_HEADER_SIZE} \cup ChunkStart(wav, i)..bytes_read(wav)

\* The loop: the first chunk that is the audio, has its header in the buffer,
\* and whose predecessors end in it; otherwise the default.  The result is one
\* of a set, which has more than one element only after an odd chunk.
FindData(wav) ==
    LET visit[i \in 1..(Len(wav.chunks) + 1)] ==
            IF ChunkStart(wav, i) + WAV_CHUNK_HEADER_SIZE >= bytes_read(wav)
            THEN {DEFAULT_WAV_HEADER_SIZE}
            ELSE IF wav.chunks[i].id = "data"
            THEN {ChunkStart(wav, i) + WAV_CHUNK_HEADER_SIZE}
            ELSE IF ChunkStart(wav, i) + WAV_CHUNK_HEADER_SIZE
                      + wav.chunks[i].size > bytes_read(wav)
            THEN {DEFAULT_WAV_HEADER_SIZE}
            ELSE IF wav.chunks[i].size % 2 = 1
            THEN Astray(wav, i + 1)
            ELSE visit[i + 1]
    IN  visit[1]

get_audio_data_offset(wav) ==
    IF bytes_read(wav) < DEFAULT_WAV_HEADER_SIZE THEN {DEFAULT_WAV_HEADER_SIZE}
    ELSE IF ~wav.riff THEN {0}
    ELSE FindData(wav)

\* FileInputNode::open: the audio that is counted and played (in octets).
AudioSize(wav, offset) ==
    IF FileSize(wav) > offset THEN FileSize(wav) - offset ELSE 0
=============================================================================
