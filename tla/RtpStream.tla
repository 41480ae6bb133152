------------------------------ MODULE RtpStream ------------------------------
(***************************************************************************)
(* An RTP stream: RTPStreamer::send_frame with its ring of packet buffers, *)
(* RTPPacketizer::packetize, the socket's queue of sends, a UDP path that  *)
(* loses and reorders packets, and the receiver of                         *)
(* src/tests/exampleClient.py, which rebuilds each packet's index from its *)
(* 16-bit sequence number.  Payloads are left out: what matters of a       *)
(* packet is its number n, its sequence number and the index it was        *)
(* encrypted under.  (The timestamp advances with the sequence number.)    *)
(***************************************************************************)
EXTENDS Integers, Sequences, FiniteSets

CONSTANTS
    SeqMod,         \* 2^16 in the code
    RocMod,         \* 2^32
    FirstSeqs,      \* the random first sequence numbers to consider
    Clients,        \* endpoints a graph may name
    Listener,       \* the one whose receiver is modelled
    Lossy,          \* those with a packet_loss_ratio above 0
    RING_BUFFER_SIZE,
    MaxPending,     \* bound on the sends the socket has queued
    Window,         \* the path delays or loses fewer packets than this in a row
    MaxPackets      \* bound on the length of the stream

ASSUME SeqAssumption == SeqMod \in Nat /\ SeqMod % 2 = 0 /\ SeqMod > 0
ASSUME RocAssumption == RocMod \in Nat /\ RocMod > 1
ASSUME FirstAssumption == FirstSeqs \subseteq 0..(SeqMod - 1)
ASSUME ClientAssumption == Listener \in Clients /\ Lossy \subseteq Clients
ASSUME RingAssumption == RING_BUFFER_SIZE \in Nat \ {0}
ASSUME BoundAssumption == {Window, MaxPackets, MaxPending} \subseteq Nat
\* At 50 packets a second the roll-over counter comes round after 178000 years.
ASSUME LifeAssumption == MaxPackets <= (RocMod - 1) * SeqMod
\* What is late is late by less than half the sequence numbers: 10 minutes on
\* the path, and a ring of 16 buffers.
ASSUME LateAssumption == /\ Window < SeqMod \div 2
                         /\ RING_BUFFER_SIZE <= SeqMod \div 2

VARIABLES
    sequence_num_, roc_,    \* of the packetizer
    clients_,               \* endpoints, in the order they were added
    packet_ring_,           \* the packet each buffer holds
    ring_index_,
    pending,                \* queued sends: a buffer, the packet it was queued
                            \* for, the client
    sent,                   \* packets made so far
    used,                   \* indices payloads were encrypted under
    path,                   \* packets in flight
    heard,                  \* the receiver's state
    last                    \* the last packet it decrypted, and its index

sender == <<sequence_num_, roc_, clients_, packet_ring_, ring_index_, sent,
            used>>
vars == <<sender, pending, path, heard, last>>

Half == SeqMod \div 2
\* (roc << 16) | seq
Index(roc, seq) == roc * SeqMod + seq

Packets == [n : 1..MaxPackets, seq : 0..(SeqMod - 1), index : Nat]
NoPacket == [n |-> 0, seq |-> 0, index |-> 0]

Init ==
    /\ sequence_num_ \in FirstSeqs
    /\ roc_ = 0
    /\ clients_ = <<>>
    /\ packet_ring_ = [slot \in 0..(RING_BUFFER_SIZE - 1) |-> NoPacket]
    /\ ring_index_ = 0
    /\ pending = <<>>
    /\ sent = 0
    /\ used = {}
    /\ path = {}
    /\ heard = [started |-> FALSE, roc |-> 0, max_seq_num |-> 0, newest |-> 0]
    /\ last = [packet |-> NoPacket, index |-> 0]

\* Mutant: the roll-over counter is forgotten.
packetize_without_roc ==
    /\ sequence_num_' = (sequence_num_ + 1) % SeqMod
    /\ UNCHANGED roc_

\* The counters: sequence_num_++, and roc_++ when it wraps to 0.
packetize ==
    /\ sequence_num_' = (sequence_num_ + 1) % SeqMod
    /\ roc_' = IF sequence_num_' = 0 THEN (roc_ + 1) % RocMod ELSE roc_

\* configure_streamer_from_graph adds the clients before the first frame; an
\* endpoint that is there already is not added again.
add_client(c) ==
    /\ sent = 0
    /\ \A i \in DOMAIN clients_ : clients_[i] # c
    /\ clients_' = Append(clients_, c)
    /\ UNCHANGED <<sequence_num_, roc_, packet_ring_, ring_index_, pending,
                   sent, used, path, heard, last>>

\* Mutant: the index is not advanced.
SameSlot == ring_index_

NextSlot == (ring_index_ + 1) % RING_BUFFER_SIZE

\* One frame, made in the next buffer and queued for every client but those
\* whose loss is simulated.  The header carries the old sequence number, the
\* index is built from it and the counter after the increment.
send_frame ==
    /\ sent < MaxPackets
    /\ Len(pending) < MaxPending
    /\ sent - heard.newest < Window
    /\ \A p \in path : sent - p.n < Window
    /\ clients_ # <<>>
    /\ packetize
    /\ LET index == Index(roc_', sequence_num_)
       IN  /\ used' = used \cup {index}
           /\ packet_ring_' = [packet_ring_ EXCEPT ![ring_index_] =
                 [n |-> sent + 1, seq |-> sequence_num_, index |-> index]]
    /\ ring_index_' = NextSlot
    /\ sent' = sent + 1
    /\ \E k \in 0..Len(clients_) : \E reached \in [1..k -> DOMAIN clients_] :
          /\ \A i, j \in 1..k : i < j => reached[i] < reached[j]
          /\ \A c \in DOMAIN clients_ :
                clients_[c] \in Lossy \/ \E i \in 1..k : reached[i] = c
          /\ pending' = pending \o [i \in 1..k |->
                [slot |-> ring_index_, n |-> sent + 1,
                 client |-> clients_[reached[i]]]]
    /\ UNCHANGED <<clients_, path, heard, last>>

\* The socket takes the oldest send, on the thread of the streamer's
\* io_context; it reads the buffer only now.
SocketSends ==
    /\ pending # <<>>
    /\ LET s == Head(pending)
       IN  path' = IF s.client = Listener
                   THEN path \cup {packet_ring_[s.slot]} ELSE path
    /\ pending' = Tail(pending)
    /\ UNCHANGED <<sender, heard, last>>

\* A send fails, or its datagram is lost.
Lose(p) ==
    /\ path' = path \ {p}
    /\ UNCHANGED <<sender, pending, heard, last>>

\* Mutant: a roll-over is used for the packet and not remembered.
ForgetfulRoc(seq) ==
    IF heard.max_seq_num < Half
    THEN IF seq - heard.max_seq_num > Half
         THEN [v |-> (heard.roc - 1) % RocMod, roc |-> heard.roc,
               max |-> heard.max_seq_num]
         ELSE [v |-> heard.roc, roc |-> heard.roc,
               max |-> IF seq > heard.max_seq_num THEN seq
                       ELSE heard.max_seq_num]
    ELSE IF heard.max_seq_num - seq > Half
         THEN [v |-> (heard.roc + 1) % RocMod, roc |-> heard.roc, max |-> seq]
         ELSE [v |-> heard.roc, roc |-> heard.roc,
               max |-> IF seq > heard.max_seq_num THEN seq
                       ELSE heard.max_seq_num]

\* exampleClient.py, "Calculate ROC": the roc v of this packet and the state
\* kept for the next.
CalculateRoc(seq) ==
    LET maxSeq == IF seq > heard.max_seq_num THEN seq ELSE heard.max_seq_num
        Keep(v) == [v |-> v, roc |-> heard.roc, max |-> heard.max_seq_num]
        next == (heard.roc + 1) % RocMod
    IN  CASE heard.max_seq_num < Half /\ seq - heard.max_seq_num > Half ->
               Keep((heard.roc - 1) % RocMod)
          [] heard.max_seq_num >= Half /\ heard.max_seq_num - seq > Half ->
               [v |-> next, roc |-> next, max |-> seq]
          [] OTHER -> [Keep(heard.roc) EXCEPT !.max = maxSeq]

\* A packet arrives; the first one sets roc to 0, and is assumed to be of the
\* first sequence cycle.
Receive(p) ==
    /\ heard.started \/ p.seq >= p.n - 1
    /\ LET r == IF heard.started THEN CalculateRoc(p.seq)
                ELSE [v |-> 0, roc |-> 0, max |-> p.seq]
       IN  /\ last' = [packet |-> p, index |-> Index(r.v, p.seq)]
           /\ heard' = [started |-> TRUE, roc |-> r.roc,
                        max_seq_num |-> r.max,
                        newest |-> IF p.n > heard.newest THEN p.n
                                   ELSE heard.newest]
    /\ path' = path \ {p}
    /\ UNCHANGED <<sender, pending>>

Next ==
    \/ \E c \in Clients : add_client(c)
    \/ send_frame
    \/ SocketSends
    \/ \E p \in path : Lose(p) \/ Receive(p)

Spec == Init /\ [][Next]_vars

-----------------------------------------------------------------------------
\* Every variable has its type.
TypeOK ==
    /\ sequence_num_ \in 0..(SeqMod - 1)
    /\ roc_ \in 0..(RocMod - 1)
    /\ clients_ \in Seq(Clients)
    /\ ring_index_ \in DOMAIN packet_ring_
    /\ sent \in 0..MaxPackets
    /\ used \subseteq 0..(RocMod * SeqMod - 1)
    /\ \A p \in path : p \in Packets
    /\ heard.roc \in 0..(RocMod - 1)
    /\ heard.max_seq_num \in 0..(SeqMod - 1)

\* "... ensuring a unique index for encryption": no two packets of a stream
\* are encrypted under the same index.
IndexUnique == Cardinality(used) = sent

\* A buffer of the ring is left alone until its sends are done, unless the
\* socket stalls for a whole turn of the ring: a queued send still finds the
\* packet it was queued for.
RingHolds ==
    \A i \in DOMAIN pending :
        \/ packet_ring_[pending[i].slot].n = pending[i].n
        \/ sent - pending[i].n >= RING_BUFFER_SIZE

\* The receiver's index is the sender's, for all packets but the last of each
\* sequence cycle, whatever the path loses or reorders within its window.
ReceiverInSync ==
    last.packet.seq # SeqMod - 1 => last.index = last.packet.index

\* "RFC 3711 Sequence Number Handling": the receiver decrypts every packet
\* under the index it was encrypted under.
ReceiverAgrees == last.index = last.packet.index
=============================================================================
