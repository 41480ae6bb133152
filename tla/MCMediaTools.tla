---------------------------- MODULE MCMediaTools ----------------------------
(* MediaTools for TLC: every sample, and packets and files at the edges.   *)
EXTENDS MediaTools

AllSamples == PcmSamples

SomePackets ==
    [padding : {FALSE}, version : {2}, payload_type : {8, 127},
     marker : BOOLEAN, sequence_num : {0, 255, 256, 65535},
     timestamp : {<<0, 0, 0, 160>>}, ssrc : {<<1, 2, 3, 4>>},
     csrc_list : {<<>>},
     extension : {Nothing, [id |-> 258, data |-> <<>>],
                  [id |-> 1, data |-> << <<9, 8, 7, 6>>, <<5, 4, 3, 2>> >>]},
     payload : {<<>>, <<85, 213>>}]

\* A source whose octets differ from every packet's.
OneMixer == {<<255, 254, 253, 252>>}

Chunk == [id : {"fmt ", "LIST", "data"}, size : {0, 15, 16, 60, 200}]
SomeWavFiles ==
    [riff : BOOLEAN, chunks : UNION {[1..n -> Chunk] : n \in 0..3}]
=============================================================================
