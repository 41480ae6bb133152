-------------------------------- MODULE Alaw --------------------------------
(***************************************************************************)
(* The G.711 A-law codec: the entries of the two tables that encode_alaw   *)
(* and decode_alaw look their samples up in, by the arithmetic that fills  *)
(* the tables.  A shift right is a division that rounds down, also for a   *)
(* negative number, and `& QUANT_MASK' is a remainder by 16.               *)
(***************************************************************************)
EXTENDS Integers

PcmSamples == -32768..32767
AlawSamples == 0..255

SEGMENT_COUNT == 8
SIGN_BIT == 128
QUANT == 16

SEGMENT_EDGES == <<255, 511, 1023, 2047, 4095, 8191, 16383, 32767>>

\* PowerOfTwo[k], what a shift by k bits divides or multiplies by.
PowerOfTwo == <<2, 4, 8, 16, 32, 64, 128, 256, 512, 1024>>

\* byte ^ BASE_ALAW_MASK: the bits worth 1, 4, 16 and 64 are toggled.
Toggle(byte, worth) == worth * (1 - 2 * ((byte \div worth) % 2))

ToggleEven(byte) ==
    byte + Toggle(byte, 1) + Toggle(byte, 4) + Toggle(byte, 16) + Toggle(byte, 64)

\* The first segment whose edge is not below n.
Segment(n) ==
    CHOOSE s \in 0..(SEGMENT_COUNT - 1) :
        /\ n <= SEGMENT_EDGES[s + 1]
        /\ \A t \in 0..(s - 1) : n > SEGMENT_EDGES[t + 1]

\* Mutant: the first segment is not treated apart.
PcmShiftPlain(segment) == 3 + segment

PcmShift(segment) == IF segment = 0 THEN 4 ELSE 3 + segment

\* make_encode_table: magnitude, segment, quantization bits, mask.
Encode(pcm) ==
    LET normalized == IF pcm >= 0 THEN pcm ELSE -pcm - 8
        segment == Segment(normalized)
        quant == (normalized \div PowerOfTwo[PcmShift(segment)]) % QUANT
    IN  ToggleEven(segment * QUANT + quant) + IF pcm >= 0 THEN SIGN_BIT ELSE 0

\* make_decode_table.
Decode(alaw) ==
    LET masked == ToggleEven(alaw)
        segment == (masked \div QUANT) % SEGMENT_COUNT
        base == (masked % QUANT) * 16 + IF segment = 0 THEN 8 ELSE 264
        pcm == IF segment > 1 THEN base * PowerOfTwo[segment - 1] ELSE base
    IN  IF masked >= SIGN_BIT THEN pcm ELSE -pcm
=============================================================================
