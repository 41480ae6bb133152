--------------------------- MODULE RtpStream_proofs --------------------------
(***************************************************************************)
(* Proofs about the stream for sequence numbers, rings and paths of any    *)
(* size.  Everything rests on one number, the position of a packet in the  *)
(* stream of all sequence numbers and their roll-overs: the packetizer's   *)
(* counters are the position of the next packet, the receiver's the        *)
(* position of the newest one it has heard.                                *)
(***************************************************************************)
EXTENDS RtpStream, FiniteSetTheorems, SequenceTheorems, TLAPS

\* Of the next packet, and of the first one: packet n is at Base + n - 1.
Position == Index(roc_, sequence_num_)
Base == Position - sent

CounterInv ==
    /\ sequence_num_ \in 0..(SeqMod - 1)
    /\ roc_ \in 0..(RocMod - 1)
    /\ sent \in 0..MaxPackets
    /\ Base \in 0..(SeqMod - 1)

\* What the steps below need of multiples.
LEMMA Multiples ==
    ASSUME NEW a \in Int, NEW b \in Int, NEW m \in Nat
    PROVE  /\ a * m \in Int
           /\ (a + 1) * m = a * m + m
           /\ (a - 1) * m = a * m - m
           /\ a <= b => a * m <= b * m
  OBVIOUS

\* A counter modulo m.
LEMMA Wraps ==
    ASSUME NEW m \in Nat \ {0}, NEW i \in 0..(m - 1)
    PROVE  (i + 1) % m = IF i + 1 = m THEN 0 ELSE i + 1
  OBVIOUS

\* The constants are numbers, and the half is one.
LEMMA Constants ==
    /\ SeqMod \in Nat \ {0} /\ SeqMod = 2 * Half /\ Half \in Nat \ {0}
    /\ RocMod \in Nat \ {0} /\ RocMod > 1
    /\ Window \in Nat /\ Window < Half
    /\ RING_BUFFER_SIZE \in Nat \ {0} /\ RING_BUFFER_SIZE <= Half
    /\ MaxPackets \in Nat
  BY SeqAssumption, RocAssumption, RingAssumption, BoundAssumption,
     LateAssumption DEF Half

\* packetize moves the position by one, so that Base stays where it is: while
\* MaxPackets bounds the stream, roc_ does not come round.
LEMMA CounterStep ==
    ASSUME CounterInv, sent < MaxPackets, packetize, sent' = sent + 1
    PROVE  /\ CounterInv'
           /\ Base' = Base
           /\ Position' = Position + 1
           /\ roc_' = IF sequence_num_ = SeqMod - 1 THEN roc_ + 1 ELSE roc_
<1> USE Constants
<1>0. /\ sequence_num_ \in 0..(SeqMod - 1) /\ roc_ \in 0..(RocMod - 1)
      /\ sent \in 0..MaxPackets
  BY DEF CounterInv
<1>1. roc_ * SeqMod \in Int /\ (roc_ + 1) * SeqMod = roc_ * SeqMod + SeqMod
  <2>1. roc_ \in Int /\ SeqMod \in Nat
    BY <1>0
  <2> HIDE Constants
  <2> QED
    BY <2>1, Multiples
<1>2. sequence_num_' = IF sequence_num_ = SeqMod - 1 THEN 0
                       ELSE sequence_num_ + 1
  <2>1. SeqMod \in Nat \ {0} /\ sequence_num_ \in 0..(SeqMod - 1)
    BY <1>0
  <2>2. (sequence_num_ + 1) % SeqMod
           = IF sequence_num_ + 1 = SeqMod THEN 0 ELSE sequence_num_ + 1
    BY <2>1, Wraps
  <2> QED
    BY <2>1, <2>2 DEF packetize
<1>3. CASE sequence_num_ = SeqMod - 1
  <2>1. sequence_num_' = 0 /\ roc_' = (roc_ + 1) % RocMod
    BY <1>2, <1>3 DEF packetize
  <2>2. roc_ * SeqMod <= sent
    BY <1>0, <1>1, <1>3 DEF CounterInv, Base, Position, Index
  <2>3. roc_ * SeqMod < (RocMod - 1) * SeqMod
    BY <1>0, <1>1, <2>2, LifeAssumption
  <2>4. roc_ < RocMod - 1
    BY <1>0, <2>3, Multiples
  <2>5. roc_' = roc_ + 1
    BY <1>0, <2>1, <2>4, Wraps
  <2> QED
    BY <1>0, <1>1, <1>3, <2>1, <2>4, <2>5 DEF CounterInv, Base, Position, Index
<1>4. CASE sequence_num_ # SeqMod - 1
  <2>1. sequence_num_' = sequence_num_ + 1 /\ roc_' = roc_
    BY <1>0, <1>2, <1>4 DEF packetize
  <2> QED
    BY <1>0, <1>1, <1>4, <2>1 DEF CounterInv, Base, Position, Index
<1> QED
  BY <1>3, <1>4

-----------------------------------------------------------------------------
\* An index in use lies behind the position, except that of the last packet of
\* the previous cycle, which packetize encrypts under the new roc_.
UsedInv ==
    /\ IsFiniteSet(used) /\ Cardinality(used) = sent
    /\ \A x \in used : /\ x \in Nat
                       /\ x < Position \/ x = Index(roc_, SeqMod - 1)

LEMMA UsedStep ==
    ASSUME CounterInv, UsedInv, send_frame
    PROVE  UsedInv'
<1> USE Constants
<1> DEFINE index == Index(roc_', sequence_num_)
<1>1. /\ used' = used \cup {index} /\ sent' = sent + 1
      /\ sent < MaxPackets /\ packetize
  BY DEF send_frame
<1>2. /\ CounterInv' /\ Position' = Position + 1
      /\ roc_' = IF sequence_num_ = SeqMod - 1 THEN roc_ + 1 ELSE roc_
  BY <1>1, CounterStep
<1>3. /\ sequence_num_ \in 0..(SeqMod - 1) /\ roc_ \in Nat
      /\ roc_ * SeqMod \in Nat /\ (roc_ + 1) * SeqMod = roc_ * SeqMod + SeqMod
  BY Multiples DEF CounterInv
<1>4. /\ index \in Nat /\ index \notin used
      /\ \A x \in used' : x \in Nat /\ (x < Position' \/ x = Index(roc_', SeqMod - 1))
  <2>1. CASE sequence_num_ = SeqMod - 1
    BY <1>1, <1>2, <1>3, <2>1 DEF UsedInv, Position, Index
  <2>2. CASE sequence_num_ # SeqMod - 1
    BY <1>1, <1>2, <1>3, <2>2 DEF UsedInv, Position, Index
  <2> QED
    BY <2>1, <2>2
<1>5. IsFiniteSet(used') /\ Cardinality(used') = Cardinality(used) + 1
  BY <1>1, <1>4, FS_AddElement DEF UsedInv
<1> QED
  BY <1>1, <1>4, <1>5 DEF UsedInv

-----------------------------------------------------------------------------
Slots == 0..(RING_BUFFER_SIZE - 1)

\* How many packets ago a slot of the ring was written.
Age(slot) == IF slot < ring_index_ THEN ring_index_ - slot
             ELSE ring_index_ - slot + RING_BUFFER_SIZE

\* A packet of this stream: its sequence number is that of its position, and
\* so is its index unless it is the last of its cycle, which is encrypted a
\* whole cycle too late.
Genuine(p) ==
    /\ p \in [n : Nat, seq : Nat, index : Nat]
    /\ p.n \in 1..sent
    /\ p.seq \in 0..(SeqMod - 1)
    /\ \E cycle \in Nat : cycle * SeqMod + p.seq = Base + p.n - 1
    /\ p.seq # SeqMod - 1 => p.index = Base + p.n - 1
    /\ p.seq = SeqMod - 1 => p.index = Base + p.n - 1 + SeqMod

\* The ring holds the last packets in the order of their slots.
RingInv ==
    /\ ring_index_ \in Slots
    /\ packet_ring_ \in [Slots -> [n : Nat, seq : Nat, index : Nat]]
    /\ \A slot \in Slots :
          /\ packet_ring_[slot].n = IF sent < Age(slot) THEN 0
                                    ELSE sent + 1 - Age(slot)
          /\ packet_ring_[slot].n > 0 => Genuine(packet_ring_[slot])

Sends == [slot : Slots, n : Nat, client : Clients]

\* A queued send points to a slot that was written for it.
PendingInv ==
    /\ pending \in Seq(Sends)
    /\ \A i \in DOMAIN pending :
          /\ pending[i].n \in 1..sent
          /\ packet_ring_[pending[i].slot].n > 0
    /\ RingHolds

\* The ring's write pointer advances by one slot, and so do the ages.
LEMMA AgeStep ==
    ASSUME ring_index_ \in Slots, ring_index_' = NextSlot, NEW slot \in Slots
    PROVE  /\ ring_index_' \in Slots
           /\ Age(slot) \in 1..RING_BUFFER_SIZE
           /\ Age(ring_index_) = RING_BUFFER_SIZE
           /\ Age(slot)' = IF slot = ring_index_ THEN 1 ELSE Age(slot) + 1
<1>1. RING_BUFFER_SIZE \in Nat \ {0}
  BY Constants
<1>2. (ring_index_ + 1) % RING_BUFFER_SIZE
         = IF ring_index_ + 1 = RING_BUFFER_SIZE THEN 0 ELSE ring_index_ + 1
  BY <1>1, Wraps DEF Slots
<1> QED
  BY <1>1, <1>2 DEF NextSlot, Age, Slots

\* The packet that send_frame makes is genuine, and the others stay so.
LEMMA GenuineStep ==
    ASSUME CounterInv, Base' = Base, sent' = sent + 1, NEW p, Genuine(p)
    PROVE  Genuine(p)'
  BY DEF Genuine, CounterInv

LEMMA GenuineMade ==
    ASSUME CounterInv, send_frame, NEW p,
           p = [n |-> sent + 1, seq |-> sequence_num_,
                index |-> Index(roc_', sequence_num_)]
    PROVE  p.index \in Nat /\ Genuine(p)'
<1>1. sent < MaxPackets /\ packetize /\ sent' = sent + 1
  BY DEF send_frame
<1>2. /\ Base' = Base
      /\ roc_' = IF sequence_num_ = SeqMod - 1 THEN roc_ + 1 ELSE roc_
  BY <1>1, CounterStep
<1>3. /\ sequence_num_ \in 0..(SeqMod - 1) /\ roc_ \in Nat /\ sent \in Nat
      /\ SeqMod \in Nat \ {0}
  BY Constants DEF CounterInv
<1>4. roc_ * SeqMod \in Nat /\ (roc_ + 1) * SeqMod \in Nat
  BY <1>3
<1>5. roc_ * SeqMod + p.seq = Base' + p.n - 1
  BY <1>2, <1>3, <1>4 DEF Base, Position, Index
<1>6. /\ p.seq # SeqMod - 1 => p.index = Base' + p.n - 1
      /\ p.seq = SeqMod - 1 => p.index = Base' + p.n - 1 + SeqMod
  <2>1. (roc_ + 1) * SeqMod = roc_ * SeqMod + SeqMod
    BY <1>3, Multiples
  <2> QED
    BY <1>2, <1>3, <1>4, <1>5, <2>1 DEF Index
<1>7. p.index \in Nat
  BY <1>2, <1>3, <1>4 DEF Index
<1>8. /\ p.n \in 1..sent' /\ p.seq \in 0..(SeqMod - 1)
      /\ p \in [n : Nat, seq : Nat, index : Nat]
  BY <1>1, <1>3, <1>7
<1> QED
  BY <1>3, <1>5, <1>6, <1>7, <1>8 DEF Genuine

LEMMA RingStep ==
    ASSUME CounterInv, RingInv, send_frame
    PROVE  RingInv'
<1> DEFINE index == Index(roc_', sequence_num_)
<1>1. /\ sent < MaxPackets /\ packetize /\ sent' = sent + 1
      /\ ring_index_' = NextSlot
      /\ packet_ring_' = [packet_ring_ EXCEPT ![ring_index_] =
             [n |-> sent + 1, seq |-> sequence_num_, index |-> index]]
  BY DEF send_frame
<1>2. PICK p : p = [n |-> sent + 1, seq |-> sequence_num_, index |-> index]
  OBVIOUS
<1>3. p.index \in Nat /\ Genuine(p)'
  BY <1>2, GenuineMade
<1>4. Base' = Base
  BY <1>1, CounterStep
<1>5. ring_index_ \in Slots /\ sent \in Nat /\ sequence_num_ \in Nat
  BY DEF RingInv, CounterInv
<1>6. packet_ring_' = [packet_ring_ EXCEPT ![ring_index_] = p]
  BY <1>1, <1>2
<1>7. packet_ring_' \in [Slots -> [n : Nat, seq : Nat, index : Nat]]
  BY <1>2, <1>3, <1>5, <1>6 DEF RingInv
<1>8. ASSUME NEW slot \in Slots
      PROVE  /\ packet_ring_'[slot].n = IF sent' < Age(slot)' THEN 0
                                        ELSE sent' + 1 - Age(slot)'
             /\ packet_ring_'[slot].n > 0 => Genuine(packet_ring_[slot])'
  <2>1. /\ Age(slot) \in 1..RING_BUFFER_SIZE
        /\ Age(slot)' = IF slot = ring_index_ THEN 1 ELSE Age(slot) + 1
    BY <1>1, <1>5, AgeStep
  <2>2. CASE slot = ring_index_
    <3>1. packet_ring_'[slot] = p
      BY <1>5, <1>6, <2>2 DEF RingInv
    <3> QED
      BY <1>1, <1>2, <1>3, <1>5, <2>1, <2>2, <3>1 DEF Genuine
  <2>3. CASE slot # ring_index_
    <3>1. packet_ring_'[slot] = packet_ring_[slot]
      BY <1>5, <1>6, <2>3 DEF RingInv
    <3>2. packet_ring_[slot].n > 0 => Genuine(packet_ring_[slot])
      BY DEF RingInv
    <3>3. packet_ring_[slot].n > 0 => Genuine(packet_ring_[slot])'
      BY <1>1, <1>4, <3>1, <3>2 DEF Genuine, CounterInv
    <3>4. packet_ring_[slot].n = IF sent < Age(slot) THEN 0
                                 ELSE sent + 1 - Age(slot)
      BY DEF RingInv
    <3> QED
      BY <1>1, <1>5, <2>1, <2>3, <3>1, <3>3, <3>4
  <2> QED
    BY <2>2, <2>3
<1>9. ring_index_' \in Slots
  BY <1>1, <1>5, AgeStep
<1> QED
  BY <1>7, <1>8, <1>9 DEF RingInv

\* A frame is queued behind the sends there are; its slot was last written a
\* whole turn of the ring ago.
LEMMA PendingSend ==
    ASSUME CounterInv, RingInv, PendingInv, clients_ \in Seq(Clients), send_frame
    PROVE  PendingInv'
<1>1. /\ sent' = sent + 1 /\ ring_index_' = NextSlot
      /\ packet_ring_' = [packet_ring_ EXCEPT ![ring_index_] =
             [n |-> sent + 1, seq |-> sequence_num_,
              index |-> Index(roc_', sequence_num_)]]
  BY DEF send_frame
<1>a. PICK k \in 0..Len(clients_) : \E reached \in [1..k -> DOMAIN clients_] :
        pending' = pending \o [i \in 1..k |->
           [slot |-> ring_index_, n |-> sent + 1,
            client |-> clients_[reached[i]]]]
  BY DEF send_frame
<1>2. PICK reached \in [1..k -> DOMAIN clients_] :
        pending' = pending \o [i \in 1..k |->
           [slot |-> ring_index_, n |-> sent + 1,
            client |-> clients_[reached[i]]]]
  BY <1>a
<1> DEFINE new == [i \in 1..k |-> [slot |-> ring_index_, n |-> sent + 1,
                                  client |-> clients_[reached[i]]]]
<1>3. /\ ring_index_ \in Slots /\ sent \in Nat /\ Len(clients_) \in Nat
      /\ k \in Nat /\ packet_ring_ \in [Slots -> [n : Nat, seq : Nat, index : Nat]]
  BY DEF RingInv, CounterInv
<1>4. \A i \in 1..k : clients_[reached[i]] \in Clients
  BY <1>2
<1>5. new \in Seq(Sends) /\ Len(new) = k
  <2>1. new \in [1..k -> Sends]
    BY <1>3, <1>4 DEF Sends
  <2> HIDE DEF new
  <2> QED
    BY <1>3, <2>1, IsASeq
<1>6. \A i \in 1..k : new[i].slot = ring_index_ /\ new[i].n = sent + 1
  OBVIOUS
<1> HIDE DEF new
<1>7. pending \in Seq(Sends) /\ Len(pending) \in Nat
      /\ DOMAIN pending = 1..Len(pending)
  BY DEF PendingInv
<1>8. /\ pending' = pending \o new /\ pending' \in Seq(Sends)
      /\ Len(pending') = Len(pending) + k
      /\ \A i \in 1..Len(pending) : pending'[i] = pending[i]
      /\ \A i \in (Len(pending) + 1)..(Len(pending) + k) :
            pending'[i] = new[i - Len(pending)]
  BY <1>2, <1>5, <1>7, ConcatProperties, SMTT(30) DEF new
<1>9. ASSUME NEW i \in DOMAIN pending'
      PROVE  /\ pending'[i].n \in 1..sent'
             /\ packet_ring_'[pending'[i].slot].n > 0
             /\ \/ packet_ring_'[pending'[i].slot].n = pending'[i].n
                \/ sent' - pending'[i].n >= RING_BUFFER_SIZE
  <2>0. i \in 1..(Len(pending) + k)
    BY <1>8
  <2>1. CASE i \in 1..Len(pending)
    <3> DEFINE slot == pending[i].slot
    <3>0. pending'[i] = pending[i] /\ i \in DOMAIN pending
      BY <1>7, <1>8, <2>1
    <3>a. pending[i] \in Sends
      BY <1>7, <3>0
    <3>b. slot \in Slots
      BY <3>a DEF Sends
    <3>1. /\ pending[i].n \in 1..sent /\ packet_ring_[slot].n > 0
          /\ \/ packet_ring_[slot].n = pending[i].n
             \/ sent - pending[i].n >= RING_BUFFER_SIZE
      BY <3>0 DEF PendingInv, RingHolds
    <3>c. pending'[i].slot = slot /\ pending'[i].n = pending[i].n
      BY <3>0
    <3> HIDE DEF slot
    <3>2. CASE slot = ring_index_
      <4>1. Age(slot) = RING_BUFFER_SIZE /\ RING_BUFFER_SIZE \in Nat \ {0}
        BY <1>1, <1>3, <3>2, AgeStep, Constants
      <4>2. packet_ring_[slot].n = sent + 1 - RING_BUFFER_SIZE
        BY <1>3, <3>b, <3>1, <4>1 DEF RingInv
      <4>3. packet_ring_'[slot].n = sent + 1
        BY <1>1, <1>3, <3>2
      <4> QED
        BY <1>1, <1>3, <3>1, <3>c, <4>1, <4>2, <4>3, SMTT(30)
    <3>3. CASE slot # ring_index_
      <4>1. packet_ring_'[slot] = packet_ring_[slot]
        BY <1>1, <1>3, <3>b, <3>3
      <4>2. RING_BUFFER_SIZE \in Nat
        BY Constants
      <4> QED
        BY <1>1, <1>3, <3>1, <3>c, <4>1, <4>2, SMTT(30)
    <3> QED
      BY <3>2, <3>3
  <2>2. CASE i \in (Len(pending) + 1)..(Len(pending) + k)
    <3>1. pending'[i].slot = ring_index_ /\ pending'[i].n = sent + 1
      <4>1. i - Len(pending) \in 1..k /\ pending'[i] = new[i - Len(pending)]
        BY <1>3, <1>7, <1>8, <2>2
      <4> QED
        BY <1>6, <4>1
    <3>2. packet_ring_'[ring_index_].n = sent + 1
      BY <1>1, <1>3
    <3> QED
      BY <1>1, <1>3, <3>1, <3>2
  <2> QED
    BY <1>3, <1>7, <2>0, <2>1, <2>2
<1> QED
  BY <1>8, <1>9 DEF PendingInv, RingHolds

\* The oldest send leaves the queue.
LEMMA PendingTake ==
    ASSUME PendingInv, SocketSends
    PROVE  PendingInv'
<1>1. pending # <<>> /\ pending' = Tail(pending) /\ UNCHANGED sender
  BY DEF SocketSends
<1>2. /\ pending \in Seq(Sends) /\ Len(pending) \in Nat
      /\ DOMAIN pending = 1..Len(pending)
  BY DEF PendingInv
<1>3. /\ pending' \in Seq(Sends) /\ Len(pending') = Len(pending) - 1
      /\ \A i \in 1..Len(pending') : /\ pending'[i] = pending[i + 1]
                                     /\ i + 1 \in DOMAIN pending
      /\ DOMAIN pending' = 1..Len(pending')
  BY <1>1, <1>2, HeadTailProperties
<1> QED
  BY <1>1, <1>3 DEF PendingInv, RingHolds, sender

-----------------------------------------------------------------------------
\* What is on the path is late by less than half the sequence numbers.
PathInv == \A p \in path : Genuine(p) /\ sent - p.n < Half

Hearing == [started : BOOLEAN, roc : 0..(RocMod - 1),
            max_seq_num : 0..(SeqMod - 1), newest : Nat]

\* The receiver's counters are the position of the newest packet it heard.
HeardInv ==
    /\ heard \in Hearing
    /\ heard.newest \in 0..sent /\ sent - heard.newest < Half
    /\ heard.started =>
          /\ heard.newest > 0
          /\ Index(heard.roc, heard.max_seq_num) = Base + heard.newest - 1
    /\ ~heard.started => heard.newest = 0

\* The heart of the receiver: a packet less than half the sequence numbers
\* away from the newest one gets the cycle it was sent in, and the newest
\* position is kept.
LEMMA RocFound ==
    ASSUME CounterInv, HeardInv, heard.started,
           NEW p, Genuine(p), sent - p.n < Half
    PROVE  /\ CalculateRoc(p.seq).v * SeqMod + p.seq = Base + p.n - 1
           /\ CalculateRoc(p.seq).roc \in 0..(RocMod - 1)
           /\ CalculateRoc(p.seq).max \in 0..(SeqMod - 1)
           /\ CalculateRoc(p.seq).roc * SeqMod + CalculateRoc(p.seq).max
                 = Base + (IF p.n > heard.newest THEN p.n ELSE heard.newest) - 1
<1> DEFINE roc == heard.roc
           max == heard.max_seq_num
           next == (roc + 1) % RocMod
           r == CalculateRoc(p.seq)
<1>1. /\ SeqMod \in Nat \ {0} /\ SeqMod = 2 * Half /\ Half \in Nat \ {0}
      /\ RocMod \in Nat \ {0}
      /\ roc \in 0..(RocMod - 1) /\ max \in 0..(SeqMod - 1)
      /\ p.seq \in 0..(SeqMod - 1) /\ p.n \in 1..sent /\ sent \in 0..MaxPackets
      /\ heard.newest \in 1..sent /\ sent - heard.newest < Half
      /\ Base \in 0..(SeqMod - 1)
  BY Constants DEF HeardInv, Hearing, CounterInv, Genuine
<1>2. PICK cycle \in Nat : cycle * SeqMod + p.seq = Base + p.n - 1
  BY DEF Genuine
<1>3. roc * SeqMod + max = Base + heard.newest - 1
  BY DEF HeardInv, Index
<1>4. /\ roc * SeqMod \in Int /\ cycle * SeqMod \in Int
      /\ (roc + 1) * SeqMod = roc * SeqMod + SeqMod
      /\ (roc - 1) * SeqMod = roc * SeqMod - SeqMod
      /\ cycle >= roc + 2 => cycle * SeqMod >= roc * SeqMod + 2 * SeqMod
      /\ cycle <= roc - 2 => cycle * SeqMod <= roc * SeqMod - 2 * SeqMod
  <2>1. roc \in Int /\ cycle \in Int /\ SeqMod \in Nat
    BY <1>1
  <2>2. /\ roc * SeqMod \in Int /\ cycle * SeqMod \in Int
        /\ (roc + 1) * SeqMod = roc * SeqMod + SeqMod
        /\ (roc - 1) * SeqMod = roc * SeqMod - SeqMod
    BY <2>1, Multiples
  <2>3. /\ (roc + 2) * SeqMod = roc * SeqMod + 2 * SeqMod
        /\ (roc - 2) * SeqMod = roc * SeqMod - 2 * SeqMod
    BY <2>1
  <2>4. /\ roc + 2 <= cycle => (roc + 2) * SeqMod <= cycle * SeqMod
        /\ cycle <= roc - 2 => cycle * SeqMod <= (roc - 2) * SeqMod
    BY <2>1, Multiples
  <2> QED
    BY <2>1, <2>2, <2>3, <2>4
<1>5. cycle \in {roc - 1, roc, roc + 1}
  <2>1. PICK A \in Int, B \in Int : A = cycle * SeqMod /\ B = roc * SeqMod
    BY <1>4
  <2>2. /\ A + p.seq = Base + p.n - 1 /\ B + max = Base + heard.newest - 1
        /\ cycle >= roc + 2 => A >= B + 2 * SeqMod
        /\ cycle <= roc - 2 => A <= B - 2 * SeqMod
    BY <1>2, <1>3, <1>4, <2>1
  <2>3. A - B = (p.n - heard.newest) + (max - p.seq)
    <3>1. /\ p.n \in Int /\ p.seq \in Int /\ heard.newest \in Int
          /\ max \in Int /\ Base \in Int /\ A \in Int /\ B \in Int
      BY <1>1
    <3>2. A + p.seq = Base + p.n - 1 /\ B + max = Base + heard.newest - 1
      BY <2>2
    <3> QED
      BY <3>1, <3>2
  <2>4. /\ p.n - heard.newest < Half /\ heard.newest - p.n < Half
        /\ p.n - heard.newest \in Int
    BY <1>1
  <2>5. ~(cycle >= roc + 2) /\ ~(cycle <= roc - 2)
    BY <1>1, <2>1, <2>2, <2>3, <2>4
  <2> QED
    BY <1>1, <2>5
<1>6. CASE cycle = roc - 1
  <2>1. max < Half /\ p.seq - max > Half /\ p.n < heard.newest
    BY <1>1, <1>2, <1>3, <1>4, <1>6
  <2>2. r = [v |-> (roc - 1) % RocMod, roc |-> roc, max |-> max]
    BY <1>1, <2>1 DEF CalculateRoc
  <2>3. (roc - 1) % RocMod = roc - 1
    BY <1>1, <1>6
  <2> QED
    BY <1>1, <1>2, <1>3, <1>4, <1>6, <2>1, <2>2, <2>3
<1>7. CASE cycle = roc + 1
  <2>1. max >= Half /\ max - p.seq > Half /\ p.n > heard.newest
    BY <1>1, <1>2, <1>3, <1>4, <1>7
  <2>2. r = [v |-> next, roc |-> next, max |-> p.seq]
    BY <1>1, <2>1 DEF CalculateRoc
  <2>3. next = roc + 1
    <3>1. cycle * SeqMod < RocMod * SeqMod
      <4>1. (RocMod - 1) * SeqMod = RocMod * SeqMod - SeqMod
            /\ RocMod * SeqMod \in Int
        BY <1>1, Multiples
      <4> QED
        BY <1>1, <1>2, <1>4, <4>1, LifeAssumption, Constants
    <3>2. cycle < RocMod
      BY <1>1, <3>1, Multiples
    <3> QED
      BY <1>1, <1>7, <3>2, Wraps
  <2> QED
    BY <1>1, <1>2, <1>3, <1>4, <1>7, <2>1, <2>2, <2>3
<1>8. CASE cycle = roc
  <2>1. /\ ~(max < Half /\ p.seq - max > Half)
        /\ ~(max >= Half /\ max - p.seq > Half)
        /\ p.seq > max <=> p.n > heard.newest
    BY <1>1, <1>2, <1>3, <1>4, <1>8
  <2>2. r = [v |-> roc, roc |-> roc, max |-> IF p.seq > max THEN p.seq ELSE max]
    BY <2>1 DEF CalculateRoc
  <2> QED
    BY <1>1, <1>2, <1>3, <1>4, <1>8, <2>1, <2>2
<1> QED
  BY <1>5, <1>6, <1>7, <1>8

\* A new frame makes what is on the path, and what was heard, one older.
LEMMA LateSend ==
    ASSUME CounterInv, PathInv, HeardInv, send_frame
    PROVE  PathInv' /\ HeardInv'
<1>1. /\ sent < MaxPackets /\ packetize /\ sent' = sent + 1
      /\ sent - heard.newest < Window /\ \A p \in path : sent - p.n < Window
      /\ UNCHANGED <<path, heard>>
  BY DEF send_frame
<1>2. Base' = Base
  BY <1>1, CounterStep
<1>3. /\ sent \in Nat /\ Window \in Nat /\ Half \in Nat /\ Window < Half
      /\ Base \in Int
  BY Constants DEF CounterInv
<1>4. ASSUME NEW p \in path PROVE Genuine(p)' /\ sent' - p.n < Half
  <2>1. Genuine(p) /\ p.n \in Nat /\ sent - p.n < Window
    BY <1>1 DEF PathInv, Genuine
  <2> QED
    BY <1>1, <1>2, <1>3, <2>1, GenuineStep
<1>5. /\ heard.newest \in 0..sent' /\ sent' - heard.newest < Half
  BY <1>1, <1>3 DEF HeardInv
<1>6. PathInv'
  BY <1>1, <1>4 DEF PathInv, Half
<1> QED
  BY <1>1, <1>2, <1>5, <1>6 DEF HeardInv, Half, Index, Hearing

\* What the socket takes from the ring is a packet of the last turn.
LEMMA PathTake ==
    ASSUME CounterInv, RingInv, PendingInv, PathInv, SocketSends
    PROVE  PathInv'
<1> DEFINE slot == Head(pending).slot
<1>1. UNCHANGED sender /\ path' \subseteq path \cup {packet_ring_[slot]}
  BY DEF SocketSends
<1>2. pending # <<>> /\ pending \in Seq(Sends)
  BY DEF SocketSends, PendingInv
<1>3. Head(pending) = pending[1] /\ 1 \in DOMAIN pending /\ pending[1] \in Sends
  BY <1>2
<1>4. slot \in Slots /\ packet_ring_[slot].n > 0
  BY <1>3 DEF PendingInv, Sends
<1> HIDE DEF slot
<1>5. Genuine(packet_ring_[slot])
  BY <1>4 DEF RingInv
<1>6. /\ Age(slot) \in 1..RING_BUFFER_SIZE /\ RING_BUFFER_SIZE \in Nat
      /\ RING_BUFFER_SIZE <= Half /\ Half \in Nat /\ sent \in Nat
  BY <1>4, Constants DEF RingInv, CounterInv, Age, Slots
<1>7. packet_ring_[slot].n = sent + 1 - Age(slot)
  BY <1>4, <1>6 DEF RingInv
<1>8. sent - packet_ring_[slot].n < Half
  BY <1>6, <1>7
<1>9. \A p \in path' : Genuine(p) /\ sent - p.n < Half
  BY <1>1, <1>5, <1>8 DEF PathInv
<1> QED
  BY <1>1, <1>9 DEF PathInv, Genuine, Base, Position, Index, Half, sender

\* The receiver's index for the last packet of a cycle is a cycle short.
Missed == last.packet.seq = SeqMod - 1 =>
             last.index \in Nat /\ last.packet.index = last.index + SeqMod

\* The first packet sets the receiver's counters; the later ones find theirs.
LEMMA ReceiveStep ==
    ASSUME CounterInv, PathInv, HeardInv, NEW p \in path, Receive(p)
    PROVE  PathInv' /\ HeardInv' /\ ReceiverInSync' /\ Missed'
<1> DEFINE r == IF heard.started THEN CalculateRoc(p.seq)
                ELSE [v |-> 0, roc |-> 0, max |-> p.seq]
           newest == IF p.n > heard.newest THEN p.n ELSE heard.newest
<1>1. /\ heard.started \/ p.seq >= p.n - 1
      /\ last' = [packet |-> p, index |-> Index(r.v, p.seq)]
      /\ heard' = [started |-> TRUE, roc |-> r.roc, max_seq_num |-> r.max,
                   newest |-> newest]
      /\ path' \subseteq path /\ UNCHANGED sender
  BY DEF Receive
<1>2. Genuine(p) /\ sent - p.n < Half
  BY DEF PathInv
<1>3. /\ p.n \in 1..sent /\ p.seq \in 0..(SeqMod - 1) /\ sent \in Nat
      /\ SeqMod \in Nat \ {0} /\ RocMod \in Nat \ {0} /\ Half \in Nat
      /\ Base \in 0..(SeqMod - 1) /\ heard.newest \in 0..sent
      /\ sent - heard.newest < Half
  BY <1>2, Constants DEF Genuine, CounterInv, HeardInv
<1>4. /\ r.v * SeqMod + p.seq = Base + p.n - 1
      /\ r.roc \in 0..(RocMod - 1) /\ r.max \in 0..(SeqMod - 1)
      /\ r.roc * SeqMod + r.max = Base + newest - 1
  <2>1. CASE heard.started
    BY <1>2, <2>1, RocFound
  <2>2. CASE ~heard.started
    <3>1. PICK cycle \in Nat : cycle * SeqMod + p.seq = Base + p.n - 1
      BY <1>2 DEF Genuine
    <3>2. cycle * SeqMod < SeqMod
      BY <1>1, <1>3, <2>2, <3>1
    <3>3. cycle = 0
      BY <1>3, <3>2
    <3>4. heard.newest = 0
      BY <2>2 DEF HeardInv
    <3>5. 0 * SeqMod = 0
      BY <1>3
    <3> QED
      BY <1>3, <2>2, <3>1, <3>3, <3>4, <3>5
  <2> QED
    BY <2>1, <2>2
<1> HIDE DEF r
<1>5. newest \in 1..sent /\ sent - newest < Half
  BY <1>2, <1>3
<1> HIDE DEF newest
<1>6. Base' = Base /\ sent' = sent
  BY <1>1 DEF sender, Base, Position, Index
<1>7. PathInv'
  BY <1>1, <1>6 DEF PathInv, Genuine, Half
<1>8. HeardInv'
  <2>1. heard' \in Hearing
    BY <1>1, <1>3, <1>4, <1>5 DEF Hearing
  <2>2. /\ heard'.newest = newest /\ heard'.started
        /\ Index(heard'.roc, heard'.max_seq_num) = Base + newest - 1
    BY <1>1, <1>4 DEF Index
  <2> QED
    BY <1>3, <1>5, <1>6, <2>1, <2>2 DEF HeardInv, Hearing, Half, Index
<1>9. ReceiverInSync'
  <2>1. p.seq # SeqMod - 1 => p.index = Base + p.n - 1
    BY <1>2 DEF Genuine
  <2>2. Index(r.v, p.seq) = Base + p.n - 1
    BY <1>4 DEF Index
  <2> QED
    BY <1>1, <2>1, <2>2 DEF ReceiverInSync
<1>10. Missed'
  <2>1. p.seq = SeqMod - 1 => p.index = Base + p.n - 1 + SeqMod
    BY <1>2 DEF Genuine
  <2>2. Index(r.v, p.seq) = Base + p.n - 1
    BY <1>4 DEF Index
  <2>3. last'.packet = p /\ last'.index = Base + p.n - 1
    BY <1>1, <2>2
  <2>4. Base + p.n - 1 \in Nat
    BY <1>3
  <2> QED
    BY <2>1, <2>3, <2>4 DEF Missed
<1> QED
  BY <1>7, <1>8, <1>9, <1>10

-----------------------------------------------------------------------------
StreamInv ==
    /\ CounterInv
    /\ clients_ \in Seq(Clients)
    /\ UsedInv
    /\ RingInv
    /\ PendingInv
    /\ PathInv
    /\ HeardInv
    /\ ReceiverInSync
    /\ Missed

LEMMA StreamInit == Init => StreamInv
<1> SUFFICES ASSUME Init PROVE StreamInv
  OBVIOUS
<1> USE DEF Init
<1>1. 0 * SeqMod = 0 /\ sequence_num_ \in 0..(SeqMod - 1)
  BY Constants, FirstAssumption
<1>2. CounterInv /\ Base = sequence_num_
  BY <1>1, Constants DEF CounterInv, Base, Position, Index
<1>3. UsedInv
  BY FS_EmptySet DEF UsedInv
<1>4. RingInv
  <2>1. /\ ring_index_ \in Slots
        /\ packet_ring_ \in [Slots -> [n : Nat, seq : Nat, index : Nat]]
    BY Constants DEF Slots, NoPacket
  <2>2. \A slot \in Slots : packet_ring_[slot].n = 0 /\ Age(slot) > 0
    BY Constants DEF Slots, NoPacket, Age
  <2>3. \A slot \in Slots : Age(slot) \in Int
    BY Constants DEF Slots, Age
  <2> QED
    BY <2>1, <2>2, <2>3 DEF RingInv
<1>5. PendingInv /\ clients_ \in Seq(Clients)
  BY DEF PendingInv, RingHolds
<1>6. PathInv /\ HeardInv
  BY Constants DEF PathInv, HeardInv, Hearing
<1>7. ReceiverInSync /\ Missed
  BY Constants DEF ReceiverInSync, Missed, NoPacket
<1> QED
  BY <1>2, <1>3, <1>4, <1>5, <1>6, <1>7 DEF StreamInv

\* What does not touch the sender leaves its invariants alone.
LEMMA SenderStays ==
    ASSUME StreamInv, UNCHANGED sender
    PROVE  CounterInv' /\ clients_' \in Seq(Clients) /\ UsedInv' /\ RingInv'
<1> USE DEF sender
<1>1. CounterInv' /\ clients_' \in Seq(Clients) /\ UsedInv'
  BY DEF StreamInv, CounterInv, UsedInv, Base, Position, Index
<1>2. RingInv'
  BY DEF StreamInv, RingInv, Genuine, Age, Slots, Base, Position, Index
<1> QED
  BY <1>1, <1>2

LEMMA StreamStep == StreamInv /\ [Next]_vars => StreamInv'
<1> SUFFICES ASSUME StreamInv, [Next]_vars PROVE StreamInv'
  OBVIOUS
<1>1. ASSUME NEW c \in Clients, add_client(c) PROVE StreamInv'
  <2>1. /\ clients_' = Append(clients_, c)
        /\ UNCHANGED <<sequence_num_, roc_, packet_ring_, ring_index_, pending,
                       sent, used, path, heard, last>>
    BY <1>1 DEF add_client
  <2>2. clients_' \in Seq(Clients)
    BY <2>1 DEF StreamInv
  <2>3. CounterInv' /\ UsedInv' /\ ReceiverInSync' /\ Missed' /\ PendingInv'
    BY <2>1 DEF StreamInv, CounterInv, UsedInv, ReceiverInSync, Missed, PendingInv,
                RingHolds, Base, Position, Index
  <2>4. RingInv' /\ PathInv' /\ HeardInv'
    BY <2>1 DEF StreamInv, RingInv, PathInv, HeardInv, Genuine, Age, Slots,
                Base, Position, Index, Half
  <2> QED
    BY <2>2, <2>3, <2>4 DEF StreamInv
<1>2. CASE send_frame
  <2>1. /\ sent < MaxPackets /\ packetize /\ sent' = sent + 1
        /\ UNCHANGED <<clients_, last>>
    BY <1>2 DEF send_frame
  <2>2. CounterInv' /\ UsedInv' /\ RingInv' /\ PendingInv'
    BY <1>2, <2>1, CounterStep, UsedStep, RingStep, PendingSend DEF StreamInv
  <2>3. PathInv' /\ HeardInv'
    BY <1>2, LateSend DEF StreamInv
  <2> QED
    BY <2>1, <2>2, <2>3 DEF StreamInv, ReceiverInSync, Missed
<1>3. CASE SocketSends
  <2>1. UNCHANGED <<sender, heard, last>>
    BY <1>3 DEF SocketSends
  <2>2. PendingInv' /\ PathInv'
    BY <1>3, PendingTake, PathTake DEF StreamInv
  <2>3. HeardInv' /\ ReceiverInSync' /\ Missed'
    BY <2>1 DEF StreamInv, HeardInv, ReceiverInSync, Missed, Base, Position, Index,
                Half, sender
  <2> QED
    BY <2>1, <2>2, <2>3, SenderStays DEF StreamInv
<1>4. ASSUME NEW p \in path, Lose(p) PROVE StreamInv'
  <2>1. path' \subseteq path /\ UNCHANGED <<sender, pending, heard, last>>
    BY <1>4 DEF Lose
  <2>2. /\ PendingInv' /\ PathInv' /\ HeardInv' /\ ReceiverInSync' /\ Missed'
    BY <2>1 DEF StreamInv, PendingInv, RingHolds, PathInv, HeardInv, Genuine,
                ReceiverInSync, Missed, Base, Position, Index, Half, sender
  <2> QED
    BY <2>1, <2>2, SenderStays DEF StreamInv
<1>5. ASSUME NEW p \in path, Receive(p) PROVE StreamInv'
  <2>1. UNCHANGED <<sender, pending>>
    BY <1>5 DEF Receive
  <2>2. PathInv' /\ HeardInv' /\ ReceiverInSync' /\ Missed'
    BY <1>5, ReceiveStep DEF StreamInv
  <2>3. PendingInv'
    BY <2>1 DEF StreamInv, PendingInv, RingHolds, sender
  <2> QED
    BY <2>1, <2>2, <2>3, SenderStays DEF StreamInv
<1>6. CASE UNCHANGED vars
  <2>1. UNCHANGED <<sender, pending, path, heard, last>>
    BY <1>6 DEF vars
  <2>2. /\ PendingInv' /\ PathInv' /\ HeardInv' /\ ReceiverInSync' /\ Missed'
    BY <2>1 DEF StreamInv, PendingInv, RingHolds, PathInv, HeardInv, Genuine,
                ReceiverInSync, Missed, Base, Position, Index, Half, sender
  <2> QED
    BY <2>1, <2>2, SenderStays DEF StreamInv
<1> QED
  BY <1>1, <1>2, <1>3, <1>4, <1>5, <1>6 DEF Next

\* RTPPacketizer::packetize never encrypts two packets of a stream under one
\* index, although the last packet of each cycle gets that of the next one.
THEOREM IndicesUnique == Spec => []IndexUnique
<1>1. StreamInv => IndexUnique
  BY DEF StreamInv, UsedInv, IndexUnique
<1> QED
  BY <1>1, StreamInit, StreamStep, PTL DEF Spec

\* The ring of RTPStreamer keeps a queued send's packet for a whole turn,
\* whatever the number of clients, the size of the ring and the losses.
THEOREM RingKeeps == Spec => []RingHolds
<1>1. StreamInv => RingHolds
  BY DEF StreamInv, PendingInv
<1> QED
  BY <1>1, StreamInit, StreamStep, PTL DEF Spec

\* The receiver of exampleClient.py finds the index of every packet but the
\* last of each cycle, for any path that keeps within half the numbers.
THEOREM InSync == Spec => []ReceiverInSync
<1>1. StreamInv => ReceiverInSync
  BY DEF StreamInv
<1> QED
  BY <1>1, StreamInit, StreamStep, PTL DEF Spec

\* packetize increments roc_ before it builds the index: the receiver decrypts
\* a packet under the index it was encrypted under unless it is the last of a
\* sequence cycle, and never if it is, whatever the path does.
THEOREM LastOfCycleMissed ==
  Spec => [](ReceiverAgrees <=> last.packet.seq # SeqMod - 1)
<1>1. ASSUME StreamInv
      PROVE  ReceiverAgrees <=> last.packet.seq # SeqMod - 1
  BY <1>1, Constants DEF StreamInv, ReceiverInSync, Missed, ReceiverAgrees
<1> QED
  BY <1>1, StreamInit, StreamStep, PTL DEF Spec

\* Type correctness of the packetizer, the ring and the receiver.
THEOREM TypeCorrect == Spec => []TypeOK
<1>1. ASSUME StreamInv PROVE TypeOK
  <2>1. /\ sequence_num_ \in 0..(SeqMod - 1) /\ roc_ \in 0..(RocMod - 1)
        /\ sent \in 0..MaxPackets /\ clients_ \in Seq(Clients)
    BY <1>1 DEF StreamInv, CounterInv
  <2>2. ring_index_ \in DOMAIN packet_ring_
    BY <1>1 DEF StreamInv, RingInv
  <2>3. used \subseteq 0..(RocMod * SeqMod - 1)
    <3>1. /\ roc_ * SeqMod \in Int /\ RocMod * SeqMod \in Int
          /\ roc_ * SeqMod <= RocMod * SeqMod - SeqMod
      <4>1. (RocMod - 1) * SeqMod = RocMod * SeqMod - SeqMod
            /\ RocMod * SeqMod \in Int
        BY Constants, Multiples
      <4>2. roc_ * SeqMod <= (RocMod - 1) * SeqMod /\ roc_ * SeqMod \in Int
        BY <2>1, Constants, Multiples
      <4> QED
        BY <4>1, <4>2
    <3>2. \A x \in used : x \in Nat /\ (x < Position \/ x = Index(roc_, SeqMod - 1))
      BY <1>1 DEF StreamInv, UsedInv
    <3> QED
      BY <2>1, <3>1, <3>2, Constants DEF Position, Index
  <2>4. \A p \in path : p \in Packets
    <3> SUFFICES ASSUME NEW p \in path PROVE p \in Packets
      OBVIOUS
    <3>1. /\ p \in [n : Nat, seq : Nat, index : Nat]
          /\ p.n \in 1..sent /\ p.seq \in 0..(SeqMod - 1)
      BY <1>1 DEF StreamInv, PathInv, Genuine
    <3>2. p.n \in 1..MaxPackets
      BY <2>1, <3>1, Constants
    <3> QED
      BY <3>1, <3>2 DEF Packets
  <2>5. heard.roc \in 0..(RocMod - 1) /\ heard.max_seq_num \in 0..(SeqMod - 1)
    BY <1>1 DEF StreamInv, HeardInv, Hearing
  <2> QED
    BY <2>1, <2>2, <2>3, <2>4, <2>5 DEF TypeOK
<1> QED
  BY <1>1, StreamInit, StreamStep, PTL DEF Spec
=============================================================================
