------------------------------ MODULE RtpPacket ------------------------------
(***************************************************************************)
(* RTPPacket: writing a packet into a buffer of octets and reading one     *)
(* back.  A 16-bit field is a number, and htons and ntohs are its division *)
(* into two octets; a 32-bit field (timestamp, ssrc, ...) is kept as its   *)
(* four octets, the most significant first.                                *)
(***************************************************************************)
EXTENDS Naturals, Sequences, SequencesExt

MINIMUM_HEADER_SIZE == 12
MINIMUM_EXTENSION_SIZE == 4

Nothing == <<>>         \* std::nullopt, of an extension, a buffer or a packet

Flag(b) == IF b THEN 1 ELSE 0

\* What precedes the payload.
HeaderSize(p) ==
    MINIMUM_HEADER_SIZE + 4 * Len(p.csrc_list)
      + IF p.extension = Nothing THEN 0
        ELSE MINIMUM_EXTENSION_SIZE + 4 * Len(p.extension.data)

htons(n) == <<n \div 256, n % 256>>

\* The bit-fields FirstOctet and SecondOctet: four bits hold the number of
\* contributing sources, two the version, seven the payload type.
FirstOctet(p) == (p.version % 4) * 64 + Flag(p.padding) * 32
                   + Flag(p.extension # Nothing) * 16 + (Len(p.csrc_list) % 16)
SecondOctet(p) == Flag(p.marker) * 128 + (p.payload_type % 128)

\* RTPPacket::to_buffer into a buffer of `size' octets.
to_buffer(p, size) ==
    IF HeaderSize(p) + Len(p.payload) > size THEN Nothing
    ELSE <<FirstOctet(p), SecondOctet(p)>> \o htons(p.sequence_num)
           \o p.timestamp \o p.ssrc \o FlattenSeq(p.csrc_list)
           \o (IF p.extension = Nothing THEN <<>>
               ELSE htons(p.extension.id) \o htons(Len(p.extension.data))
                      \o FlattenSeq(p.extension.data))
           \o p.payload

Word(buffer, at) == SubSeq(buffer, at, at + 3)
ntohs(buffer, at) == buffer[at] * 256 + buffer[at + 1]
Words(buffer, at, n) == [i \in 1..n |-> Word(buffer, at + 4 * (i - 1))]

\* Mutant: a buffer that ends with its header is refused.
Shorter(buffer, expected_size) == Len(buffer) <= expected_size

\* buffer.size() < expected_size, tested before every read.
TooShort(buffer, expected_size) == Len(buffer) < expected_size

\* RTPPacket::from_buffer.
from_buffer(buffer) ==
    IF TooShort(buffer, MINIMUM_HEADER_SIZE) THEN Nothing
    ELSE
    LET cc == buffer[1] % 16
        extended == (buffer[1] \div 16) % 2 = 1
        fixed == MINIMUM_HEADER_SIZE + 4 * cc
        described == fixed + MINIMUM_EXTENSION_SIZE
        words == ntohs(buffer, fixed + 3)
        header == IF extended THEN described + 4 * words ELSE fixed
    IN  IF \/ TooShort(buffer, fixed)
           \/ extended /\ TooShort(buffer, described)
           \/ extended /\ TooShort(buffer, header)
        THEN Nothing
        ELSE [padding |-> (buffer[1] \div 32) % 2 = 1,
              version |-> buffer[1] \div 64,
              payload_type |-> buffer[2] % 128,
              marker |-> buffer[2] >= 128,
              sequence_num |-> ntohs(buffer, 3),
              timestamp |-> Word(buffer, 5),
              ssrc |-> Word(buffer, 9),
              csrc_list |-> Words(buffer, 13, cc),
              extension |-> IF ~extended THEN Nothing
                            ELSE [id |-> ntohs(buffer, fixed + 1),
                                  data |-> Words(buffer, described + 1, words)],
              payload |-> SubSeq(buffer, header + 1, Len(buffer))]

\* RTPPacket::add_ssrc: a mixer takes over as the source.
add_ssrc(p, ssrc) ==
    [p EXCEPT !.csrc_list = Append(@, p.ssrc), !.ssrc = ssrc]
=============================================================================
