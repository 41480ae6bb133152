---------------------------- MODULE Server_proofs ----------------------------
(***************************************************************************)
(* Proofs about any number of connections, requests and sessions: what a   *)
(* WebSocket's client is told and what a client is answered.               *)
(***************************************************************************)
EXTENDS Server, SequenceTheorems, WellFoundedInduction, TLAPS

-----------------------------------------------------------------------------
(* The messages to a client: n were sent, w is on the wire, q queued and p *)
(* posted.                                                                 *)

\* The wire and the queue hold the first messages in order.
Queued(w, q) == /\ w \in Seq(Nat) /\ q \in Seq(Nat)
                /\ \A i \in 1..Len(w) : w[i] = i
                /\ \A i \in 1..Len(q) : q[i] = Len(w) + i

\* The posted handlers hold those after the first a in order, and closes.
Posted(p, a, n) ==
    /\ p \in Seq(Nat) /\ a \in Nat /\ n \in Nat /\ a <= n
    /\ \A i \in 1..Len(p) : p[i] = 0 \/ p[i] \in (a + 1)..n
    /\ \A m \in (a + 1)..n : \E i \in 1..Len(p) : p[i] = m
    /\ \A i, j \in 1..Len(p) : i < j /\ p[j] # 0 => p[i] < p[j]

Told(w, q, p, n) == Queued(w, q) /\ Posted(p, Len(w) + Len(q), n)

\* send() posts the next message.
LEMMA SendTold ==
  ASSUME NEW p, NEW a, NEW n, Posted(p, a, n)
  PROVE  Posted(Append(p, n + 1), a, n + 1)
<1> DEFINE r == Append(p, n + 1)
<1>1. /\ p \in Seq(Nat) /\ a \in Nat /\ n \in Nat /\ a <= n
      /\ \A i \in 1..Len(p) : p[i] = 0 \/ p[i] \in (a + 1)..n
      /\ \A m \in (a + 1)..n : \E i \in 1..Len(p) : p[i] = m
      /\ \A i, j \in 1..Len(p) : i < j /\ p[j] # 0 => p[i] < p[j]
  BY DEF Posted
<1>2. /\ r \in Seq(Nat) /\ Len(r) = Len(p) + 1 /\ Len(p) \in Nat
      /\ \A i \in 1..Len(p) : r[i] = p[i]
      /\ r[Len(p) + 1] = n + 1
  BY <1>1
<1> HIDE DEF r
<1>3. \A i \in 1..Len(r) : i \in 1..Len(p) \/ i = Len(p) + 1
  BY <1>2
<1>4. \A i \in 1..Len(p) : r[i] = 0 \/ r[i] \in (a + 1)..n
  BY <1>1, <1>2
<1>5. \A i \in 1..Len(r) : r[i] = 0 \/ r[i] \in (a + 1)..(n + 1)
  BY <1>1, <1>2, <1>3, <1>4
<1>6. ASSUME NEW m \in (a + 1)..(n + 1) PROVE \E i \in 1..Len(r) : r[i] = m
  <2>1. CASE m = n + 1
    BY <1>2, <2>1
  <2>2. CASE m # n + 1
    <3>1. m \in (a + 1)..n
      BY <1>1, <2>2
    <3>2. PICK i \in 1..Len(p) : p[i] = m
      BY <1>1, <3>1
    <3> QED
      BY <1>2, <3>2
  <2> QED
    BY <2>1, <2>2
<1>7. ASSUME NEW i \in 1..Len(r), NEW j \in 1..Len(r), i < j, r[j] # 0
      PROVE  r[i] < r[j]
  <2>1. i \in 1..Len(p)
    BY <1>2, <1>7
  <2>2. CASE j \in 1..Len(p)
    BY <1>1, <1>2, <1>7, <2>1, <2>2
  <2>3. CASE j = Len(p) + 1
    <3>1. r[j] = n + 1
      BY <1>2, <2>3
    <3>2. r[i] = 0 \/ r[i] \in (a + 1)..n
      BY <1>4, <2>1
    <3>3. a \in Nat /\ n \in Nat
      BY <1>1
    <3> QED
      BY <3>1, <3>2, <3>3
  <2> QED
    BY <1>3, <2>2, <2>3
<1>8. Posted(r, a, n + 1)
  BY <1>1, <1>2, <1>5, <1>6, <1>7 DEF Posted
<1> QED
  BY <1>8 DEF r

\* close() posts itself.
LEMMA CloseTold ==
  ASSUME NEW p, NEW a, NEW n, Posted(p, a, n)
  PROVE  Posted(Append(p, 0), a, n)
<1> DEFINE r == Append(p, 0)
<1>1. /\ p \in Seq(Nat) /\ a \in Nat /\ n \in Nat /\ a <= n
      /\ \A i \in 1..Len(p) : p[i] = 0 \/ p[i] \in (a + 1)..n
      /\ \A m \in (a + 1)..n : \E i \in 1..Len(p) : p[i] = m
      /\ \A i, j \in 1..Len(p) : i < j /\ p[j] # 0 => p[i] < p[j]
  BY DEF Posted
<1>2. /\ r \in Seq(Nat) /\ Len(r) = Len(p) + 1 /\ Len(p) \in Nat
      /\ \A i \in 1..Len(p) : r[i] = p[i]
      /\ r[Len(p) + 1] = 0
  BY <1>1
<1> HIDE DEF r
<1>3. \A i \in 1..Len(r) : i \in 1..Len(p) \/ i = Len(p) + 1
  BY <1>2
<1>4. \A i \in 1..Len(r) : r[i] = 0 \/ r[i] \in (a + 1)..n
  BY <1>1, <1>2, <1>3
<1>5. ASSUME NEW m \in (a + 1)..n PROVE \E i \in 1..Len(r) : r[i] = m
  <2>1. PICK i \in 1..Len(p) : p[i] = m
    BY <1>1
  <2> QED
    BY <1>2, <2>1
<1>6. ASSUME NEW i \in 1..Len(r), NEW j \in 1..Len(r), i < j, r[j] # 0
      PROVE  r[i] < r[j]
  <2>1. j \in 1..Len(p)
    BY <1>2, <1>3, <1>6
  <2>2. i \in 1..Len(p)
    BY <1>2, <1>6, <2>1
  <2> QED
    BY <1>1, <1>2, <1>6, <2>1, <2>2
<1>7. Posted(r, a, n)
  BY <1>1, <1>2, <1>4, <1>5, <1>6 DEF Posted
<1> QED
  BY <1>7 DEF r

\* The handler that runs next is that of the next message, or a close.
LEMMA HandlerTold ==
  ASSUME NEW p, NEW a, NEW n, Posted(p, a, n), p # <<>>
  PROVE  /\ Head(p) \in Nat
         /\ Head(p) = 0 => Posted(Tail(p), a, n)
         /\ Head(p) # 0 => Head(p) = a + 1 /\ Posted(Tail(p), a + 1, n)
<1> DEFINE r == Tail(p)
<1>1. /\ p \in Seq(Nat) /\ a \in Nat /\ n \in Nat /\ a <= n
      /\ \A i \in 1..Len(p) : p[i] = 0 \/ p[i] \in (a + 1)..n
      /\ \A m \in (a + 1)..n : \E i \in 1..Len(p) : p[i] = m
      /\ \A i, j \in 1..Len(p) : i < j /\ p[j] # 0 => p[i] < p[j]
  BY DEF Posted
<1>2. /\ r \in Seq(Nat) /\ Len(r) = Len(p) - 1 /\ Len(p) \in Nat
      /\ Len(p) >= 1 /\ Head(p) = p[1] /\ Head(p) \in Nat
      /\ \A i \in 1..Len(r) : r[i] = p[i + 1]
  BY <1>1
<1> HIDE DEF r
<1>3. \A i \in 1..Len(r) : i + 1 \in 1..Len(p)
  BY <1>2
<1>4. \A i \in 1..Len(p) : i # 1 => i - 1 \in 1..Len(r) /\ (i - 1) + 1 = i
  BY <1>2
<1>5. 1 \in 1..Len(p)
  BY <1>2
<1>6. ASSUME NEW i \in 1..Len(r), NEW j \in 1..Len(r), i < j, r[j] # 0
      PROVE  r[i] < r[j]
  <2>1. i + 1 < j + 1
    BY <1>2, <1>6
  <2> QED
    BY <1>1, <1>2, <1>3, <1>6, <2>1
<1>7. ASSUME NEW m, m # Head(p), NEW i \in 1..Len(p), p[i] = m
      PROVE  \E k \in 1..Len(r) : r[k] = m
  <2>1. i # 1
    BY <1>2, <1>7
  <2>2. r[i - 1] = m
    BY <1>2, <1>4, <1>7, <2>1
  <2> QED
    BY <1>4, <2>1, <2>2
<1>8. \A i \in 1..Len(r) : r[i] = 0 \/ r[i] \in (a + 1)..n
  BY <1>1, <1>2, <1>3
<1>9. CASE Head(p) = 0
  <2>1. \A m \in (a + 1)..n : m # Head(p)
    BY <1>1, <1>9
  <2>2. \A m \in (a + 1)..n : \E i \in 1..Len(r) : r[i] = m
    BY <1>1, <1>7, <2>1
  <2>3. Posted(r, a, n)
    BY <1>1, <1>2, <1>6, <1>8, <2>2 DEF Posted
  <2> QED
    BY <1>9, <2>3 DEF r
<1>10. CASE Head(p) # 0
  <2>1. p[1] \in (a + 1)..n
    BY <1>1, <1>2, <1>5, <1>10
  <2>2. a + 1 \in (a + 1)..n
    BY <1>1, <2>1
  <2>3. PICK k \in 1..Len(p) : p[k] = a + 1
    BY <1>1, <2>2
  <2>4. k = 1
    <3> SUFFICES ASSUME k # 1 PROVE FALSE
      OBVIOUS
    <3>1. 1 < k /\ p[k] # 0
      BY <1>1, <1>2, <2>3
    <3>2. p[1] < p[k]
      BY <1>1, <1>5, <3>1
    <3> QED
      BY <1>1, <2>1, <2>3, <3>2
  <2>5. Head(p) = a + 1 /\ a + 1 \in Nat /\ a + 1 <= n
    BY <1>1, <1>2, <2>2, <2>3, <2>4
  <2>6. ASSUME NEW i \in 1..Len(r) PROVE r[i] = 0 \/ r[i] \in ((a + 1) + 1)..n
    <3>1. CASE r[i] = 0
      BY <3>1
    <3>2. CASE r[i] # 0
      <4>1. 1 < i + 1 /\ i + 1 \in 1..Len(p) /\ p[i + 1] = r[i]
        BY <1>2, <1>3
      <4>2. p[1] < r[i]
        BY <1>1, <1>5, <3>2, <4>1
      <4>3. r[i] \in (a + 1)..n
        BY <1>8, <3>2
      <4>4. p[1] = a + 1 /\ a \in Nat /\ n \in Nat
        BY <1>1, <1>2, <2>5
      <4> QED
        BY <4>2, <4>3, <4>4
    <3> QED
      BY <3>1, <3>2
  <2>7. ASSUME NEW m \in ((a + 1) + 1)..n PROVE \E i \in 1..Len(r) : r[i] = m
    <3>1. m \in (a + 1)..n /\ m # Head(p)
      BY <1>1, <2>5
    <3> QED
      BY <1>1, <1>7, <3>1
  <2>8. Posted(r, a + 1, n)
    BY <1>1, <1>2, <1>6, <2>5, <2>6, <2>7 DEF Posted
  <2> QED
    BY <1>10, <2>5, <2>8 DEF r
<1> QED
  BY <1>2, <1>9, <1>10

\* Enqueue: the next message joins the queue.
LEMMA EnqueueTold ==
  ASSUME NEW w, NEW q, NEW p, NEW n, Told(w, q, p, n), p # <<>>, Head(p) # 0
  PROVE  /\ Told(w, Append(q, Head(p)), Tail(p), n)
         /\ Head(p) = Len(w) + Len(q) + 1
<1>1. /\ w \in Seq(Nat) /\ q \in Seq(Nat)
      /\ \A i \in 1..Len(w) : w[i] = i
      /\ \A i \in 1..Len(q) : q[i] = Len(w) + i
  BY DEF Told, Queued
<1>2. Head(p) = Len(w) + Len(q) + 1 /\ Head(p) \in Nat
      /\ Posted(Tail(p), Len(w) + Len(q) + 1, n)
  BY HandlerTold DEF Told
<1> DEFINE r == Append(q, Head(p))
<1>3. /\ r \in Seq(Nat) /\ Len(r) = Len(q) + 1 /\ Len(q) \in Nat
      /\ Len(w) \in Nat /\ \A i \in 1..Len(q) : r[i] = q[i]
      /\ r[Len(q) + 1] = Head(p)
  BY <1>1, <1>2
<1> HIDE DEF r
<1>4. ASSUME NEW i \in 1..Len(r) PROVE r[i] = Len(w) + i
  <2>1. CASE i \in 1..Len(q)
    BY <1>1, <1>3, <2>1
  <2>2. CASE i = Len(q) + 1
    BY <1>2, <1>3, <2>2
  <2> QED
    BY <1>3, <2>1, <2>2
<1>5. Queued(w, r)
  BY <1>1, <1>3, <1>4 DEF Queued
<1>6. Len(w) + Len(q) + 1 = Len(w) + Len(r)
  BY <1>3
<1>7. Told(w, r, Tail(p), n)
  BY <1>2, <1>5, <1>6 DEF Told
<1> QED
  BY <1>2, <1>7 DEF r

\* Written: the first of the queue is on the wire.
LEMMA WriteTold ==
  ASSUME NEW w, NEW q, NEW p, NEW n, Told(w, q, p, n), q # <<>>
  PROVE  /\ Told(Append(w, Head(q)), Tail(q), p, n)
         /\ Head(q) = Len(w) + 1
<1>1. /\ w \in Seq(Nat) /\ q \in Seq(Nat)
      /\ \A i \in 1..Len(w) : w[i] = i
      /\ \A i \in 1..Len(q) : q[i] = Len(w) + i
  BY DEF Told, Queued
<1> DEFINE v == Append(w, Head(q))
           r == Tail(q)
<1>2. /\ Len(q) \in Nat /\ Len(q) >= 1 /\ Head(q) = q[1] /\ Head(q) \in Nat
      /\ Len(w) \in Nat
  BY <1>1
<1>3. Head(q) = Len(w) + 1
  BY <1>1, <1>2
<1>4. /\ v \in Seq(Nat) /\ Len(v) = Len(w) + 1
      /\ \A i \in 1..Len(w) : v[i] = w[i]
      /\ v[Len(w) + 1] = Len(w) + 1
  BY <1>1, <1>2, <1>3
<1>5. /\ r \in Seq(Nat) /\ Len(r) = Len(q) - 1
      /\ \A i \in 1..Len(r) : r[i] = q[i + 1]
  BY <1>1
<1> HIDE DEF v, r
<1>6. ASSUME NEW i \in 1..Len(v) PROVE v[i] = i
  <2>1. i \in 1..Len(w) \/ i = Len(w) + 1
    BY <1>2, <1>4
  <2> QED
    BY <1>1, <1>4, <2>1
<1>7. ASSUME NEW i \in 1..Len(r) PROVE r[i] = Len(v) + i
  <2>1. i + 1 \in 1..Len(q)
    BY <1>2, <1>5
  <2>2. r[i] = Len(w) + (i + 1)
    BY <1>1, <1>5, <2>1
  <2> QED
    BY <1>2, <1>4, <1>5, <2>2
<1>8. Queued(v, r)
  BY <1>4, <1>5, <1>6, <1>7 DEF Queued
<1>9. Len(v) + Len(r) = Len(w) + Len(q)
  BY <1>2, <1>4, <1>5
<1>10. Told(v, r, p, n)
  BY <1>8, <1>9 DEF Told
<1> QED
  BY <1>3, <1>10 DEF v, r

-----------------------------------------------------------------------------
(* A WebSocket.                                                            *)

Socket == [status : {"none", "handshake", "open", "failed", "closing", "closed"},
           write : {"none", "flight", "aborted"}, closing : BOOLEAN,
           posted : Seq(Nat), send_queue_ : Seq(Nat), wire : Seq(Nat),
           sent : Nat, early : BOOLEAN, gone : BOOLEAN]

\* When a write is under way.
WriteOk(s) ==
    /\ s.write # "none" => s.send_queue_ # <<>>
    /\ s.write = "flight" => s.status \in {"handshake", "open", "failed"}
    /\ s.status \in {"handshake", "open"} /\ s.closing => s.write = "flight"
    /\ s.status = "open" /\ ~s.early /\ s.send_queue_ # <<>>
          => s.write = "flight"
    /\ s.gone => s.status \notin {"none", "handshake", "open"}
    /\ s.status = "handshake" /\ s.send_queue_ # <<>> => s.early
    /\ s.status = "none" => s.posted = <<>> /\ s.send_queue_ = <<>> /\ ~s.closing

\* Where message m is, if the client is owed it.
LastOk(s, m) ==
    m > 0 /\ ~s.gone =>
        \/ m <= Len(s.wire)
        \/ /\ s.posted # <<>> /\ Head(s.posted) = m /\ s.status = "open"
           /\ s.send_queue_ = <<>> /\ ~s.closing
        \/ s.send_queue_ # <<>> /\ Head(s.send_queue_) = m /\ s.write = "flight"

SocketOk(s, m) == /\ s \in Socket
                  /\ Told(s.wire, s.send_queue_, s.posted, s.sent)
                  /\ WriteOk(s)
                  /\ m \in Nat
                  /\ LastOk(s, m)

\* What one more element does to a sequence.
LEMMA Appended ==
  ASSUME NEW p \in Seq(Nat), NEW e \in Nat
  PROVE  /\ Append(p, e) \in Seq(Nat) /\ Append(p, e) # <<>>
         /\ p # <<>> => Head(Append(p, e)) = Head(p)
         /\ p = <<>> => Head(Append(p, e)) = e
<1>1. /\ Append(p, e) \in Seq(Nat) /\ Len(Append(p, e)) = Len(p) + 1
      /\ Len(p) \in Nat
  OBVIOUS
<1>2. Append(p, e) # <<>>
  BY <1>1
<1>3. ASSUME p # <<>> PROVE Head(Append(p, e)) = Head(p)
  BY <1>3
<1>4. ASSUME p = <<>> PROVE Head(Append(p, e)) = e
  BY <1>4
<1> QED
  BY <1>1, <1>2, <1>3, <1>4

\* send() by the session of a WebSocket that was accepted.
LEMMA SendOk ==
  ASSUME NEW s, NEW m, SocketOk(s, m), s.status # "none"
  PROVE  /\ SocketOk(send(s), m)
         /\ send(s).status = s.status
         /\ s.status = "open" /\ ~s.closing /\ s.posted = <<>>
            /\ s.send_queue_ = <<>> => SocketOk(send(s), s.sent + 1)
<1> DEFINE r == send(s)
<1>1. s \in Socket /\ s.posted \in Seq(Nat) /\ s.sent \in Nat /\ m \in Nat
  BY DEF SocketOk, Socket
<1>2. /\ r.status = s.status /\ r.write = s.write /\ r.closing = s.closing
      /\ r.posted = Append(s.posted, s.sent + 1)
      /\ r.send_queue_ = s.send_queue_ /\ r.wire = s.wire
      /\ r.sent = s.sent + 1 /\ r.early = s.early /\ r.gone = s.gone
  BY <1>1 DEF Socket, send
<1>3. /\ r.posted \in Seq(Nat) /\ r.posted # <<>>
      /\ s.posted # <<>> => Head(r.posted) = Head(s.posted)
      /\ s.posted = <<>> => Head(r.posted) = s.sent + 1
  BY <1>1, <1>2, Appended
<1>4. r \in Socket
  <2>1. s.sent + 1 \in Nat
    BY <1>1
  <2> QED
    BY <1>1, <1>2, <1>3, <2>1 DEF Socket, send
<1> HIDE DEF r
<1>5. Told(r.wire, r.send_queue_, r.posted, r.sent)
  BY <1>2, SendTold DEF SocketOk, Told
<1>6. WriteOk(r)
  BY <1>2 DEF SocketOk, WriteOk
<1>7. LastOk(r, m)
  BY <1>2, <1>3 DEF SocketOk, LastOk
<1>8. SocketOk(r, m)
  BY <1>1, <1>4, <1>5, <1>6, <1>7 DEF SocketOk
<1>9. ASSUME s.status = "open", ~s.closing, s.posted = <<>>, s.send_queue_ = <<>>
      PROVE  SocketOk(r, s.sent + 1)
  <2>1. LastOk(r, s.sent + 1)
    BY <1>2, <1>3, <1>9 DEF LastOk
  <2>2. s.sent + 1 \in Nat
    BY <1>1
  <2> QED
    BY <1>4, <1>5, <1>6, <2>1, <2>2 DEF SocketOk
<1> QED
  BY <1>2, <1>8, <1>9 DEF r

\* close() by the registry, of a WebSocket that was accepted.
LEMMA CloseOk ==
  ASSUME NEW s, NEW m, SocketOk(s, m), s.status # "none"
  PROVE  SocketOk(close(s), m) /\ close(s).status = s.status
<1> DEFINE r == close(s)
<1>1. s \in Socket /\ s.posted \in Seq(Nat) /\ m \in Nat
  BY DEF SocketOk, Socket
<1>2. /\ r.status = s.status /\ r.write = s.write /\ r.closing = s.closing
      /\ r.posted = Append(s.posted, 0)
      /\ r.send_queue_ = s.send_queue_ /\ r.wire = s.wire
      /\ r.sent = s.sent /\ r.early = s.early /\ r.gone = s.gone
  BY <1>1 DEF Socket, close, Close
<1>3. /\ r.posted \in Seq(Nat) /\ r.posted # <<>>
      /\ s.posted # <<>> => Head(r.posted) = Head(s.posted)
  BY <1>1, <1>2, Appended
<1>4. r \in Socket
  BY <1>1, <1>2, <1>3 DEF Socket, close
<1> HIDE DEF r
<1>5. Told(r.wire, r.send_queue_, r.posted, r.sent)
  BY <1>2, CloseTold DEF SocketOk, Told
<1>6. WriteOk(r)
  BY <1>2 DEF SocketOk, WriteOk
<1>7. LastOk(r, m)
  BY <1>2, <1>3 DEF SocketOk, LastOk
<1>8. SocketOk(r, m)
  BY <1>1, <1>4, <1>5, <1>6, <1>7 DEF SocketOk
<1> QED
  BY <1>2, <1>8 DEF r

\* do_accept of a new WebSocket.
LEMMA AcceptOk ==
  ASSUME NEW s, NEW m, SocketOk(s, m), s.status = "none"
  PROVE  SocketOk(do_accept(s), m) /\ do_accept(s).status = "handshake"
<1> DEFINE r == do_accept(s)
<1>1. s \in Socket
  BY DEF SocketOk
<1>2. /\ r.status = "handshake" /\ r.write = s.write /\ r.closing = s.closing
      /\ r.posted = s.posted /\ r.send_queue_ = s.send_queue_
      /\ r.wire = s.wire /\ r.sent = s.sent /\ r.early = s.early
      /\ r.gone = s.gone
  BY <1>1 DEF Socket, do_accept
<1>3. r \in Socket
  BY <1>1, <1>2 DEF Socket, do_accept
<1> HIDE DEF r
<1>4. WriteOk(r)
  BY <1>2 DEF SocketOk, WriteOk
<1>5. LastOk(r, m)
  BY <1>2 DEF SocketOk, LastOk, WriteOk
<1>6. SocketOk(r, m)
  BY <1>2, <1>3, <1>4, <1>5 DEF SocketOk
<1> QED
  BY <1>2, <1>6 DEF r

\* The client is gone: whatever it was owed, it is no longer.
LEMMA GoneOk ==
  ASSUME NEW s, NEW m, SocketOk(s, m), s.status \in {"handshake", "open"}
  PROVE  SocketOk([s EXCEPT !.status = "failed", !.gone = TRUE], m)
<1> DEFINE r == [s EXCEPT !.status = "failed", !.gone = TRUE]
<1>1. s \in Socket
  BY DEF SocketOk
<1>2. /\ r.status = "failed" /\ r.write = s.write /\ r.closing = s.closing
      /\ r.posted = s.posted /\ r.send_queue_ = s.send_queue_
      /\ r.wire = s.wire /\ r.sent = s.sent /\ r.early = s.early
      /\ r.gone = TRUE
  BY <1>1 DEF Socket
<1>3. r \in Socket
  BY <1>1 DEF Socket
<1> HIDE DEF r
<1>4. WriteOk(r)
  BY <1>2 DEF SocketOk, WriteOk
<1>5. LastOk(r, m)
  BY <1>2 DEF LastOk
<1>6. SocketOk(r, m)
  BY <1>2, <1>3, <1>4, <1>5 DEF SocketOk
<1> QED
  BY <1>6 DEF r

\* What do_write may leave.
LEMMA DoWriteIs ==
  ASSUME NEW s \in Socket, NEW r \in do_write(s)
  PROVE  /\ r \in Socket
         /\ r.status = s.status /\ r.closing = s.closing /\ r.posted = s.posted
         /\ r.send_queue_ = s.send_queue_ /\ r.wire = s.wire /\ r.sent = s.sent
         /\ r.gone = s.gone
         /\ r.early = (s.early \/ s.status = "handshake")
         /\ r.write \in {"flight", "aborted"}
         /\ s.status = "open" /\ ~s.closing => r.write = "flight"
         /\ s.status \notin {"handshake", "open"} \/ (s.status = "open" /\ s.closing)
               => r.write = "aborted"
<1> DEFINE early == s.early \/ s.status = "handshake"
<1>1. PICK write \in IF s.status = "open" /\ ~s.closing THEN {"flight"}
                     ELSE IF s.status = "handshake" THEN {"flight", "aborted"}
                     ELSE {"aborted"} :
          r = [s EXCEPT !.write = write, !.early = early]
  BY Zenon DEF do_write
<1>2. /\ write \in {"flight", "aborted"}
      /\ s.status = "open" /\ ~s.closing => write = "flight"
      /\ s.status \notin {"handshake", "open"} \/ (s.status = "open" /\ s.closing)
            => write = "aborted"
  BY <1>1
<1>3. early \in BOOLEAN /\ early = (s.early \/ s.status = "handshake")
  OBVIOUS
<1> HIDE DEF early
<1>4. /\ r \in Socket /\ r.early = early /\ r.write = write
      /\ r.status = s.status /\ r.closing = s.closing /\ r.posted = s.posted
      /\ r.send_queue_ = s.send_queue_ /\ r.wire = s.wire /\ r.sent = s.sent
      /\ r.gone = s.gone
  BY <1>1, <1>2, <1>3 DEF Socket
<1> QED
  BY <1>2, <1>3, <1>4

\* The handshake ends, well or not.
LEMMA HandshakeOk ==
  ASSUME NEW s, NEW m, SocketOk(s, m), s.status = "handshake"
  PROVE  /\ SocketOk([s EXCEPT !.status = "open"], m)
         /\ SocketOk([s EXCEPT !.status = "failed", !.gone = TRUE], m)
<1>1. s \in Socket
  BY DEF SocketOk
<1>2. SocketOk([s EXCEPT !.status = "open"], m)
  <2> DEFINE r == [s EXCEPT !.status = "open"]
  <2>1. /\ r.status = "open" /\ r.write = s.write /\ r.closing = s.closing
        /\ r.posted = s.posted /\ r.send_queue_ = s.send_queue_
        /\ r.wire = s.wire /\ r.sent = s.sent /\ r.early = s.early
        /\ r.gone = s.gone
    BY <1>1 DEF Socket
  <2>2. r \in Socket
    BY <1>1 DEF Socket
  <2> HIDE DEF r
  <2>3. WriteOk(r)
    BY <2>1 DEF SocketOk, WriteOk
  <2>4. LastOk(r, m)
    BY <2>1 DEF SocketOk, LastOk, WriteOk
  <2>5. SocketOk(r, m)
    BY <2>1, <2>2, <2>3, <2>4 DEF SocketOk
  <2> QED
    BY <2>5 DEF r
<1>3. SocketOk([s EXCEPT !.status = "failed", !.gone = TRUE], m)
  BY <1>1, GoneOk DEF SocketOk, WriteOk
<1> QED
  BY <1>2, <1>3

\* The handler of send(): the message is queued, and written when it is the
\* only one.
LEMMA EnqueueOk ==
  ASSUME NEW s, NEW m, SocketOk(s, m), s.posted # <<>>, Head(s.posted) # 0,
         NEW r, r \in LET queued == [s EXCEPT !.posted = Tail(@),
                                              !.send_queue_ = Append(@, Head(s.posted))]
                      IN  IF s.send_queue_ = <<>> THEN do_write(queued) ELSE {queued}
  PROVE  SocketOk(r, m) /\ r.status = s.status
<1> DEFINE queued == [s EXCEPT !.posted = Tail(@),
                               !.send_queue_ = Append(@, Head(s.posted))]
<1>1. s \in Socket /\ m \in Nat
  BY DEF SocketOk
<1>2. /\ s.posted \in Seq(Nat) /\ s.send_queue_ \in Seq(Nat)
      /\ Tail(s.posted) \in Seq(Nat) /\ Head(s.posted) \in Nat
  BY <1>1 DEF Socket
<1>3. /\ Append(s.send_queue_, Head(s.posted)) \in Seq(Nat)
      /\ Append(s.send_queue_, Head(s.posted)) # <<>>
      /\ s.send_queue_ # <<>> => Head(Append(s.send_queue_, Head(s.posted)))
                                   = Head(s.send_queue_)
      /\ s.send_queue_ = <<>> => Head(Append(s.send_queue_, Head(s.posted)))
                                   = Head(s.posted)
  BY <1>2, Appended
<1>4. /\ queued.status = s.status /\ queued.write = s.write
      /\ queued.closing = s.closing /\ queued.posted = Tail(s.posted)
      /\ queued.send_queue_ = Append(s.send_queue_, Head(s.posted))
      /\ queued.wire = s.wire /\ queued.sent = s.sent
      /\ queued.early = s.early /\ queued.gone = s.gone
  BY <1>1 DEF Socket
<1>5. queued \in Socket
  BY <1>1, <1>2, <1>3 DEF Socket
<1>6. r \in IF s.send_queue_ = <<>> THEN do_write(queued) ELSE {queued}
  OBVIOUS
<1> HIDE DEF queued
<1>7. /\ r.status = s.status /\ r.closing = s.closing /\ r.posted = Tail(s.posted)
      /\ r.send_queue_ = Append(s.send_queue_, Head(s.posted))
      /\ r.wire = s.wire /\ r.sent = s.sent /\ r.gone = s.gone /\ r \in Socket
      /\ s.send_queue_ # <<>> => r.write = s.write /\ r.early = s.early
      /\ s.send_queue_ = <<>> =>
           /\ s.status = "open" /\ ~s.closing => r.write = "flight"
           /\ r.write = "flight" => s.status = "handshake"
                                     \/ (s.status = "open" /\ ~s.closing)
           /\ r.early = (s.early \/ s.status = "handshake")
  <2>1. CASE s.send_queue_ # <<>>
    BY <1>4, <1>5, <1>6, <2>1
  <2>2. CASE s.send_queue_ = <<>>
    <3>1. r \in do_write(queued)
      BY <1>6, <2>2
    <3> QED
      BY <1>4, <1>5, <2>2, <3>1, DoWriteIs
  <2> QED
    BY <2>1, <2>2
<1>8. Told(r.wire, r.send_queue_, r.posted, r.sent)
  <2>1. Told(s.wire, s.send_queue_, s.posted, s.sent)
    BY DEF SocketOk
  <2>2. Told(s.wire, Append(s.send_queue_, Head(s.posted)), Tail(s.posted), s.sent)
    BY <2>1, EnqueueTold
  <2> QED
    BY <1>7, <2>2
<1>9. WriteOk(r)
  <2>1. r.send_queue_ # <<>>
    BY <1>3, <1>7
  <2>2. s.status # "none" /\ WriteOk(s)
    BY DEF SocketOk, WriteOk
  <2>3. CASE s.send_queue_ # <<>>
    BY <1>7, <2>1, <2>2, <2>3 DEF WriteOk
  <2>4. CASE s.send_queue_ = <<>>
    <3>1. s.status \in {"handshake", "open"} => ~s.closing
      BY <2>2, <2>4 DEF WriteOk
    <3> QED
      BY <1>7, <2>1, <2>2, <2>4, <3>1 DEF WriteOk
  <2> QED
    BY <2>3, <2>4
<1>10. LastOk(r, m)
  <2>1. CASE s.send_queue_ # <<>>
    BY <1>3, <1>7, <2>1 DEF SocketOk, LastOk
  <2>2. CASE s.send_queue_ = <<>>
    BY <1>3, <1>7, <2>2 DEF SocketOk, LastOk
  <2> QED
    BY <2>1, <2>2
<1> QED
  BY <1>1, <1>7, <1>8, <1>9, <1>10 DEF SocketOk

\* The handler of close().
LEMMA StartCloseOk ==
  ASSUME NEW s, NEW m, SocketOk(s, m), s.posted # <<>>, Head(s.posted) = 0,
         NEW next, next = [s EXCEPT !.posted = Tail(@)]
  PROVE  /\ s.status \in {"handshake", "open"} => SocketOk(async_close(next), m)
         /\ s.status # "open" => SocketOk(next, m)
         /\ s.status # "none"
<1>1. s \in Socket /\ m \in Nat /\ WriteOk(s) /\ LastOk(s, m)
  BY DEF SocketOk
<1>2. s.posted \in Seq(Nat) /\ Tail(s.posted) \in Seq(Nat)
  BY <1>1 DEF Socket
<1>3. /\ next.write = s.write /\ next.posted = Tail(s.posted)
      /\ next.send_queue_ = s.send_queue_ /\ next.wire = s.wire
      /\ next.sent = s.sent /\ next.early = s.early /\ next.gone = s.gone
      /\ next.status = s.status /\ next.closing = s.closing
      /\ next \in Socket
  BY <1>1, <1>2 DEF Socket
<1>4. Told(s.wire, s.send_queue_, Tail(s.posted), s.sent)
  BY HandlerTold DEF SocketOk, Told
<1>5. s.status # "none"
  BY <1>1 DEF WriteOk
<1>6. ASSUME s.status # "open" PROVE SocketOk(next, m)
  <2>1. WriteOk(next)
    BY <1>1, <1>3, <1>5, <1>6 DEF WriteOk
  <2>2. LastOk(next, m)
    BY <1>1, <1>3, <1>6 DEF LastOk
  <2> QED
    BY <1>1, <1>3, <1>4, <2>1, <2>2 DEF SocketOk
<1>7. ASSUME s.status \in {"handshake", "open"} PROVE SocketOk(async_close(next), m)
  <2> DEFINE r == async_close(next)
  <2>1. CASE s.write = "flight"
    <3>1. /\ r.write = "flight" /\ r.posted = Tail(s.posted)
          /\ r.send_queue_ = s.send_queue_ /\ r.wire = s.wire
          /\ r.sent = s.sent /\ r.early = s.early /\ r.gone = s.gone
          /\ r.status = s.status /\ r.closing = TRUE /\ r \in Socket
      BY <1>3, <2>1 DEF async_close, Socket
    <3> HIDE DEF r
    <3>2. WriteOk(r)
      BY <1>1, <1>7, <2>1, <3>1 DEF WriteOk
    <3>3. LastOk(r, m)
      BY <1>1, <2>1, <3>1 DEF LastOk
    <3>4. SocketOk(r, m)
      BY <1>1, <1>4, <3>1, <3>2, <3>3 DEF SocketOk
    <3> QED
      BY <3>4 DEF r
  <2>2. CASE s.write # "flight"
    <3>1. /\ r.write = s.write /\ r.posted = Tail(s.posted)
          /\ r.send_queue_ = s.send_queue_ /\ r.wire = s.wire
          /\ r.sent = s.sent /\ r.early = s.early /\ r.gone = s.gone
          /\ r.status = "closing" /\ r.closing = s.closing /\ r \in Socket
      BY <1>3, <2>2 DEF async_close, Socket
    <3> HIDE DEF r
    <3>2. WriteOk(r)
      BY <1>1, <2>2, <3>1 DEF WriteOk
    <3>3. LastOk(r, m)
      BY <1>1, <2>2, <3>1 DEF LastOk
    <3>4. SocketOk(r, m)
      BY <1>1, <1>4, <3>1, <3>2, <3>3 DEF SocketOk
    <3> QED
      BY <3>4 DEF r
  <2> QED
    BY <2>1, <2>2
<1> QED
  BY <1>5, <1>6, <1>7

\* What on_write of a message that was written leaves.
Delivered(s) == [s EXCEPT !.write = "none",
                          !.wire = Append(@, Head(s.send_queue_)),
                          !.send_queue_ = Tail(@),
                          !.status = IF s.closing THEN "closing" ELSE @]
AfterWritten(s) == IF Delivered(s).send_queue_ = <<>> THEN {Delivered(s)}
                   ELSE do_write(Delivered(s))

\* on_write of a message that was written.
LEMMA WrittenOk ==
  ASSUME NEW s, NEW m, SocketOk(s, m), s.write = "flight",
         NEW r \in AfterWritten(s)
  PROVE  SocketOk(r, m) /\ r.status # "none"
<1> DEFINE done == Delivered(s)
<1>1. s \in Socket /\ m \in Nat /\ s.send_queue_ # <<>>
  BY DEF SocketOk, WriteOk
<1>2. /\ s.wire \in Seq(Nat) /\ s.send_queue_ \in Seq(Nat)
      /\ Tail(s.send_queue_) \in Seq(Nat) /\ Head(s.send_queue_) \in Nat
  BY <1>1 DEF Socket
<1>3. /\ Append(s.wire, Head(s.send_queue_)) \in Seq(Nat)
      /\ Len(Append(s.wire, Head(s.send_queue_))) = Len(s.wire) + 1
      /\ Len(s.wire) \in Nat
  BY <1>2
<1>4. /\ done.write = "none" /\ done.closing = s.closing
      /\ done.posted = s.posted /\ done.send_queue_ = Tail(s.send_queue_)
      /\ done.wire = Append(s.wire, Head(s.send_queue_))
      /\ done.sent = s.sent /\ done.early = s.early /\ done.gone = s.gone
      /\ done.status = IF s.closing THEN "closing" ELSE s.status
  BY <1>1 DEF Socket, Delivered
<1>5. done \in Socket
  BY <1>1, <1>2, <1>3 DEF Socket, Delivered
<1>6. r \in IF done.send_queue_ = <<>> THEN {done} ELSE do_write(done)
  BY DEF AfterWritten
<1> HIDE DEF done
<1>7. /\ r.status = done.status /\ r.closing = s.closing /\ r.posted = s.posted
      /\ r.send_queue_ = Tail(s.send_queue_)
      /\ r.wire = Append(s.wire, Head(s.send_queue_)) /\ r.sent = s.sent
      /\ r.gone = s.gone /\ r \in Socket
      /\ r.send_queue_ = <<>> => r.write = "none" /\ r.early = s.early
      /\ r.send_queue_ # <<>> =>
           /\ done.status = "open" /\ ~s.closing => r.write = "flight"
           /\ r.write = "flight" => done.status = "handshake"
                                     \/ (done.status = "open" /\ ~s.closing)
           /\ r.early = (s.early \/ done.status = "handshake")
  <2>1. CASE done.send_queue_ = <<>>
    BY <1>4, <1>5, <1>6, <2>1
  <2>2. CASE done.send_queue_ # <<>>
    <3>1. r \in do_write(done)
      BY <1>6, <2>2
    <3> QED
      BY <1>4, <1>5, <2>2, <3>1, DoWriteIs
  <2> QED
    BY <2>1, <2>2
<1>8. /\ Told(r.wire, r.send_queue_, r.posted, r.sent)
      /\ Head(s.send_queue_) = Len(s.wire) + 1
  <2>1. Told(s.wire, s.send_queue_, s.posted, s.sent)
    BY DEF SocketOk
  <2>2. /\ Told(Append(s.wire, Head(s.send_queue_)), Tail(s.send_queue_),
                s.posted, s.sent)
        /\ Head(s.send_queue_) = Len(s.wire) + 1
    BY <1>1, <2>1, WriteTold
  <2> QED
    BY <1>7, <2>2
<1>9. /\ s.status \in {"handshake", "open", "failed"}
      /\ r.status = IF s.closing THEN "closing" ELSE s.status
  BY <1>4, <1>7 DEF SocketOk, WriteOk
<1>10. WriteOk(r)
  <2>1. CASE r.send_queue_ = <<>>
    <3>1. r.write = "none" /\ r.status # "none"
      BY <1>7, <1>9, <2>1
    <3>2. r.status \in {"handshake", "open"} => ~r.closing
      BY <1>7, <1>9
    <3>3. r.gone => r.status \notin {"handshake", "open"}
      BY <1>7, <1>9 DEF SocketOk, WriteOk
    <3> QED
      BY <2>1, <3>1, <3>2, <3>3 DEF WriteOk
  <2>2. CASE r.send_queue_ # <<>>
    <3>1. done.status = r.status
      BY <1>7
    <3>2. s.gone => r.status \notin {"handshake", "open"}
      BY <1>9 DEF SocketOk, WriteOk
    <3> QED
      BY <1>7, <1>9, <2>2, <3>1, <3>2 DEF WriteOk
  <2> QED
    BY <2>1, <2>2
<1>11. LastOk(r, m)
  <2> SUFFICES ASSUME m > 0, ~s.gone PROVE m <= Len(r.wire)
    BY <1>7 DEF LastOk
  <2>1. m <= Len(s.wire) \/ Head(s.send_queue_) = m
    BY <1>1 DEF SocketOk, LastOk
  <2>2. Len(r.wire) = Len(s.wire) + 1
    BY <1>3, <1>7
  <2>3. m \in Nat /\ Len(s.wire) \in Nat
    BY <1>1, <1>3
  <2>4. m <= Len(s.wire) \/ m = Len(s.wire) + 1
    BY <1>8, <2>1
  <2> QED
    BY <2>2, <2>3, <2>4
<1>12. r.status # "none"
  BY <1>9
<1>13. r \in Socket
  BY <1>7
<1> QED
  BY <1>1, <1>8, <1>10, <1>11, <1>12, <1>13 DEF SocketOk

\* on_write of one that was not.
LEMMA WriteFailsOk ==
  ASSUME NEW s, NEW m, SocketOk(s, m),
         s.write = "aborted" \/ (s.write = "flight" /\ s.gone)
  PROVE  SocketOk([s EXCEPT !.write = "none"], m)
<1> DEFINE r == [s EXCEPT !.write = "none"]
<1>1. s \in Socket
  BY DEF SocketOk
<1>2. /\ r.status = s.status /\ r.write = "none" /\ r.closing = s.closing
      /\ r.posted = s.posted /\ r.send_queue_ = s.send_queue_
      /\ r.wire = s.wire /\ r.sent = s.sent /\ r.early = s.early
      /\ r.gone = s.gone
  BY <1>1 DEF Socket
<1>3. r \in Socket
  BY <1>1 DEF Socket
<1> HIDE DEF r
<1>4. WriteOk(r)
  BY <1>2 DEF SocketOk, WriteOk
<1>5. LastOk(r, m)
  BY <1>2 DEF SocketOk, LastOk
<1>6. SocketOk(r, m)
  BY <1>2, <1>3, <1>4, <1>5 DEF SocketOk
<1> QED
  BY <1>6 DEF r

\* The close handshake ends.
LEMMA ClosedOk ==
  ASSUME NEW s, NEW m, SocketOk(s, m), s.status = "closing"
  PROVE  SocketOk([s EXCEPT !.status = "closed"], m)
<1> DEFINE r == [s EXCEPT !.status = "closed"]
<1>1. s \in Socket
  BY DEF SocketOk
<1>2. /\ r.status = "closed" /\ r.write = s.write /\ r.closing = s.closing
      /\ r.posted = s.posted /\ r.send_queue_ = s.send_queue_
      /\ r.wire = s.wire /\ r.sent = s.sent /\ r.early = s.early
      /\ r.gone = s.gone
  BY <1>1 DEF Socket
<1>3. r \in Socket
  BY <1>1 DEF Socket
<1> HIDE DEF r
<1>4. WriteOk(r)
  BY <1>2 DEF SocketOk, WriteOk
<1>5. LastOk(r, m)
  BY <1>2 DEF SocketOk, LastOk
<1>6. SocketOk(r, m)
  BY <1>2, <1>3, <1>4, <1>5 DEF SocketOk
<1> QED
  BY <1>6 DEF r

-----------------------------------------------------------------------------
(* What the parser accepts.                                                *)

\* A set of natural numbers has a least one.
LEMMA Least ==
  ASSUME NEW S \in SUBSET Nat, S # {}
  PROVE  \E n \in S : \A m \in S : n <= m
<1>1. PICK n \in S : \A m \in S : ~(<<m, n>> \in OpToRel(<, Nat))
  BY NatLessThanWellFounded, WFMin
<1>2. \A m \in S : ~(m < n)
  BY <1>1 DEF OpToRel
<1> QED
  BY <1>2

\* Steps that end well have each ended well.
LEMMA AllOk ==
  ASSUME NEW results, DOMAIN results \subseteq Nat, FirstFailure(results) = "ok",
         NEW i \in DOMAIN results
  PROVE  results[i] = "ok"
<1> DEFINE failed == {k \in DOMAIN results : results[k] # "ok"}
<1> SUFFICES ASSUME failed # {} PROVE FALSE
  OBVIOUS
<1>1. FirstFailure(results) = results[Min(failed)]
  BY DEF FirstFailure
<1>2. failed \in SUBSET Nat
  OBVIOUS
<1>3. \E n \in failed : \A m \in failed : n <= m
  <2> HIDE DEF failed
  <2> QED
    BY <1>2, Least
<1>4. Min(failed) \in failed
  <2> HIDE DEF failed
  <2> QED
    BY <1>3 DEF Min
<1> QED
  BY <1>1, <1>4

\* A node that the parser takes is no second clients node.
LEMMA NodeTaken ==
  ASSUME NEW nodes, NEW i, NodeResult(nodes, i) = "ok"
  PROVE  /\ nodes[i] # Bad
         /\ ~(/\ nodes[i].type = "clients"
              /\ \E j \in 1..(i - 1) : nodes[j] # Bad /\ nodes[j].type = "clients")
<1> DEFINE node == nodes[i]
           second == /\ node.type = "clients"
                     /\ \E j \in 1..(i - 1) :
                           nodes[j] # Bad /\ nodes[j].type = "clients"
           steps == <<Require(<<node.id, node.type, node.data>>),
                      IF Bad \in {node.type, node.data} THEN "ok"
                      ELSE create(node.type, node.data),
                      IF second THEN "ParseError" ELSE "ok">>
<1>1. NodeResult(nodes, i) = IF node = Bad THEN "ParseError" ELSE FirstFailure(steps)
  BY DEF NodeResult
<1>2. node # Bad /\ FirstFailure(steps) = "ok"
  BY <1>1
<1>3. DOMAIN steps = 1..3
  OBVIOUS
<1>4. steps[3] = "ok"
  <2> HIDE DEF steps
  <2> QED
    BY <1>2, <1>3, AllOk
<1>5. ~second
  BY <1>4
<1> QED
  BY <1>2, <1>5

\* The graphs for which parse_graph succeeds can be played.
LEMMA ParsedPlayable ==
  ASSUME NEW flow, flow # Bad, Listed(flow.nodes), Listed(flow.edges),
         parse_graph(flow) = "ok"
  PROVE  Playable(flow)
<1> DEFINE map == node_map(flow.nodes)
           ids == {flow.nodes[i].id : i \in DOMAIN flow.nodes}
<1>1. /\ flow.nodes # Bad /\ flow.edges # Bad
      /\ parse_nodes(flow.nodes) = "ok"
      /\ set_start_node(flow.start, map) = "ok"
      /\ parse_edges(flow.edges, map) = "ok"
  BY DEF parse_graph
<1>2. DOMAIN map = ids
  BY DEF node_map
<1>3. /\ DOMAIN flow.nodes \subseteq Nat \ {0}
      /\ DOMAIN flow.edges \subseteq Nat \ {0}
  BY <1>1 DEF Listed
<1>4. ASSUME NEW i \in DOMAIN flow.nodes PROVE NodeResult(flow.nodes, i) = "ok"
  <2> DEFINE results == [k \in DOMAIN flow.nodes |-> NodeResult(flow.nodes, k)]
  <2>1. FirstFailure(results) = "ok"
    BY <1>1 DEF parse_nodes
  <2>2. DOMAIN results = DOMAIN flow.nodes /\ results[i] = NodeResult(flow.nodes, i)
    OBVIOUS
  <2> HIDE DEF results
  <2> QED
    BY <1>3, <2>1, <2>2, AllOk
<1>5. ASSUME NEW i \in DOMAIN flow.nodes, NEW j \in DOMAIN flow.nodes,
             flow.nodes[i].type = "clients", flow.nodes[j].type = "clients"
      PROVE  ~(i < j)
  <2> SUFFICES ASSUME i < j PROVE FALSE
    OBVIOUS
  <2>1. i \in 1..(j - 1)
    BY <1>3
  <2>2. flow.nodes[i] # Bad
    BY <1>4, NodeTaken
  <2> QED
    BY <1>4, <1>5, <2>1, <2>2, NodeTaken
<1>6. \A i, j \in DOMAIN flow.nodes :
         flow.nodes[i].type = "clients" /\ flow.nodes[j].type = "clients" => i = j
  <2> SUFFICES ASSUME NEW i \in DOMAIN flow.nodes, NEW j \in DOMAIN flow.nodes,
                      flow.nodes[i].type = "clients", flow.nodes[j].type = "clients"
               PROVE  i = j
    OBVIOUS
  <2>1. i \in Nat /\ j \in Nat
    BY <1>3
  <2>2. ~(i < j) /\ ~(j < i)
    BY <1>5
  <2> QED
    BY <2>1, <2>2
<1>7. flow.start \in ids
  BY <1>1, <1>2 DEF set_start_node
<1>8. ASSUME NEW i \in DOMAIN flow.edges PROVE EdgeResult(flow.edges[i], map) = "ok"
  <2> DEFINE results == [k \in DOMAIN flow.edges |-> EdgeResult(flow.edges[k], map)]
  <2>1. FirstFailure(results) = "ok"
    BY <1>1 DEF parse_edges
  <2>2. /\ DOMAIN results = DOMAIN flow.edges
        /\ results[i] = EdgeResult(flow.edges[i], map)
    BY SMTT(60)
  <2> HIDE DEF results
  <2> QED
    BY <1>3, <2>1, <2>2, AllOk
<1> HIDE DEF map
<1>9. ASSUME NEW i \in DOMAIN flow.edges
      PROVE  LET e == flow.edges[i]
             IN  /\ {e.source, e.target} \subseteq ids
                 /\ map[e.source].type # "clients"
                 /\ map[e.target].type # "fileOptions"
  <2> DEFINE e == flow.edges[i]
  <2>1. /\ {e.source, e.target} \subseteq DOMAIN map
        /\ map[e.source].type # "clients"
        /\ Connects(map[e.source].type, map[e.target].type)
    BY <1>8 DEF EdgeResult
  <2>2. map[e.target].type # "fileOptions"
    BY <2>1 DEF Connects
  <2> QED
    BY <1>2, <2>1, <2>2, ZenonT(60)
<1> QED
  BY <1>6, <1>7, <1>9 DEF Playable, map

\* The outcomes of route_query: a WebSocket is connected only by an upgrade
\* for a session that is there, and 200 answers a request for a session only
\* if its graph can be played.
LEMMA Outcomes ==
  ASSUME NEW req \in Requests \cup Probes, NEW live, NEW running,
         NEW outcome \in route_query(req, live, running)
  PROVE  /\ outcome.status \in Nat
         /\ outcome.effect = "connect" => req.upgrade /\ req.id \in live
         /\ outcome.effect = "stop" => req.id \in live
         /\ outcome.status = 200 /\ req.method = "POST" /\ req.path \in Sessions
               => Playable(req.body.flow)
<1>1. \A status \in Nat : /\ Refused(status).status = status
                          /\ Refused(status).effect = "none"
  BY DEF Refused
<1>2. \A effect : Done(effect).status = 200 /\ Done(effect).effect = effect
  BY DEF Done
<1>3. \A error : map_app_error(error) \in {400, 409, 502, 500}
  BY DEF map_app_error
<1>4. ASSUME NEW n \in Nat \ {200}, outcome = Refused(n)
      PROVE  /\ outcome.status \in Nat /\ outcome.effect = "none"
             /\ outcome.status # 200
  BY <1>1, <1>4
<1>5. CASE req.path = Bad \/ req.path \notin DOMAIN Routes
           \/ req.method # Routes[req.path]
  <2>1. outcome \in {Refused(500), Refused(404), Refused(405)}
    BY <1>5 DEF route_query
  <2> QED
    BY <1>4, <2>1
<1>6. CASE ~(req.path = Bad \/ req.path \notin DOMAIN Routes
             \/ req.method # Routes[req.path])
  <2>1. CASE req.path \in Sessions
    <3>1. outcome \in process_session_request(req)
      <4>1. req.path # "connect" /\ req.path # "metrics"
        BY <2>1 DEF Sessions
      <4>2. route_query(req, live, running) = process_session_request(req)
        BY <1>6, <2>1, <4>1 DEF route_query
      <4> QED
        BY <4>2
    <3>2. CASE req.body = Bad
      <4>1. outcome = Refused(400)
        BY <3>1, <3>2 DEF process_session_request
      <4> QED
        BY <1>4, <4>1
    <3>3. CASE req.body # Bad
      <4>1. PICK result \in create_session(req) :
              outcome = IF result = "ok" THEN Done("create")
                        ELSE Refused(map_app_error(result))
        BY <3>1, <3>3 DEF process_session_request
      <4>2. CASE result = "ok"
        <5>1. parse_graph(req.body.flow) = "ok"
          BY <4>2 DEF create_session
        <5>2. req.body.flow # Bad
          BY <5>1 DEF parse_graph
        <5>3. Listed(req.body.flow.nodes) /\ Listed(req.body.flow.edges)
          BY <3>3, <5>2, RequestsAssumption
        <5>4. Playable(req.body.flow)
          BY <5>1, <5>2, <5>3, ParsedPlayable
        <5> QED
          BY <1>2, <4>1, <4>2, <5>4
      <4>3. CASE result # "ok"
        <5>1. outcome = Refused(map_app_error(result))
          BY <4>1, <4>3
        <5>2. map_app_error(result) \in Nat \ {200}
          BY <1>3
        <5> QED
          BY <1>4, <5>1, <5>2
      <4> QED
        BY <4>2, <4>3
    <3> QED
      BY <3>2, <3>3
  <2>2. CASE req.path = "connect"
    <3>1. req.path \notin Sessions
      BY <2>2 DEF Sessions
    <3>2. outcome = handle_websocket_request(req, live, running)
      BY <1>6, <2>2, <3>1 DEF route_query
    <3>3. CASE req.upgrade /\ req.id # Bad /\ req.id \in live \ running
      <4>1. outcome = Done("connect")
        BY <3>2, <3>3 DEF handle_websocket_request
      <4> QED
        BY <1>2, <3>1, <3>3, <4>1
    <3>4. CASE ~(req.upgrade /\ req.id # Bad /\ req.id \in live \ running)
      <4>1. outcome \in {Refused(400), Refused(map_app_error("LogicError"))}
        BY <3>2, <3>4 DEF handle_websocket_request
      <4>2. map_app_error("LogicError") \in Nat \ {200}
        BY <1>3
      <4> QED
        BY <1>4, <4>1, <4>2
    <3> QED
      BY <3>3, <3>4
  <2>3. CASE req.path = "metrics"
    <3>1. req.path \notin Sessions /\ req.path # "connect"
      BY <2>3 DEF Sessions
    <3>2. outcome = Done("none")
      BY <1>6, <2>3, <3>1 DEF route_query
    <3> QED
      BY <1>2, <3>1, <3>2
  <2>4. CASE req.path \notin Sessions /\ req.path # "connect" /\ req.path # "metrics"
    <3>1. outcome = SessionOp(req, live)
      BY <1>6, <2>4 DEF route_query
    <3>2. CASE req.id # Bad /\ req.id \in live
      <4>1. outcome = Done(req.path)
        BY <3>1, <3>2 DEF SessionOp
      <4> QED
        BY <1>2, <2>4, <3>2, <4>1
    <3>3. CASE ~(req.id # Bad /\ req.id \in live)
      <4>1. outcome \in {Refused(400), Refused(404)}
        BY <3>1, <3>3 DEF SessionOp
      <4> QED
        BY <1>4, <4>1
    <3> QED
      BY <3>2, <3>3
  <2> QED
    BY <2>1, <2>2, <2>3, <2>4
<1> QED
  BY <1>5, <1>6

-----------------------------------------------------------------------------
(* What a client has sent and the server not read.                         *)

Known == Requests \cup Probes
Units == [kind : {"head", Body, Eof}, req : Known \cup {Bad}]

\* The heads in b are those of the requests w, in this order: pos is where.
MatchAt(b, w, pos) ==
    /\ pos \in [1..Len(w) -> 1..Len(b)]
    /\ \A i, j \in 1..Len(w) : i < j => pos[i] < pos[j]
    /\ \A i \in 1..Len(w) : /\ b[pos[i]].kind = "head"
                            /\ b[pos[i]].req = w[i]
    /\ \A k \in 1..Len(b) : b[k].kind = "head" => \E i \in 1..Len(w) : pos[i] = k
Match(b, w) == /\ b \in Seq(Units) /\ w \in Seq(Known)
               /\ \E pos : MatchAt(b, w, pos)

\* A body comes after the head that announced it, and the client owes one
\* when such a head is the last that it sent.
Shape(b, owes, eof) ==
    /\ \A i \in 1..Len(b) : /\ b[i].kind = "head" => b[i].req \in Known
                            /\ b[i].kind = Eof => eof
    /\ \A i \in 1..(Len(b) - 1) :
          /\ b[i + 1].kind = Body => b[i].kind = "head" /\ b[i].req.body_follows
          /\ b[i].kind = "head" /\ b[i].req.body_follows
                => b[i + 1].kind \in {Body, Eof}
    /\ b # <<>> /\ ~eof =>
          (owes <=> b[Len(b)].kind = "head" /\ b[Len(b)].req.body_follows)

\* A head is what comes next, or a body is.
AtHead(b, owes, eof) == /\ b # <<>> => b[1].kind # Body
                        /\ b = <<>> /\ ~eof => ~owes
AtBody(b, owes, eof) == /\ b # <<>> => b[1].kind \in {Body, Eof}
                        /\ b = <<>> /\ ~eof => owes

\* What is known of sequences at their two ends.
LEMMA AppendIs ==
  ASSUME NEW S, NEW b \in Seq(S), NEW e \in S
  PROVE  /\ Append(b, e) \in Seq(S) /\ Append(b, e) # <<>>
         /\ Len(Append(b, e)) = Len(b) + 1 /\ Len(b) \in Nat
         /\ \A i \in 1..Len(b) : Append(b, e)[i] = b[i]
         /\ Append(b, e)[Len(b) + 1] = e
<1>1. /\ Append(b, e) \in Seq(S)
      /\ Len(Append(b, e)) = Len(b) + 1 /\ Len(b) \in Nat
  OBVIOUS
<1>2. /\ \A i \in 1..Len(b) : Append(b, e)[i] = b[i]
      /\ Append(b, e)[Len(b) + 1] = e
  OBVIOUS
<1>3. Append(b, e) # <<>>
  BY <1>1
<1> QED
  BY <1>1, <1>2, <1>3

LEMMA TailIs ==
  ASSUME NEW S, NEW b \in Seq(S), b # <<>>
  PROVE  /\ Tail(b) \in Seq(S) /\ Len(Tail(b)) = Len(b) - 1
         /\ Len(b) \in Nat /\ Len(b) >= 1
         /\ \A i \in 1..Len(Tail(b)) : Tail(b)[i] = b[i + 1]
         /\ Head(b) = b[1] /\ Head(b) \in S
         /\ Tail(b) = <<>> <=> Len(b) = 1
<1>1. /\ Tail(b) \in Seq(S) /\ Len(Tail(b)) = Len(b) - 1
      /\ \A i \in 1..Len(Tail(b)) : Tail(b)[i] = b[i + 1]
      /\ Head(b) \in S
  BY HeadTailProperties
<1>2. Len(b) \in Nat /\ Len(b) >= 1 /\ Head(b) = b[1]
  OBVIOUS
<1>3. Tail(b) = <<>> <=> Len(Tail(b)) = 0
  BY <1>1
<1>4. Tail(b) = <<>> <=> Len(b) = 1
  BY <1>1, <1>2, <1>3
<1> QED
  BY <1>1, <1>2, <1>4

LEMMA TailAppend ==
  ASSUME NEW S, NEW b \in Seq(S), b # <<>>, NEW e \in S
  PROVE  /\ Tail(Append(b, e)) = Append(Tail(b), e)
         /\ Head(Append(b, e)) = Head(b)
BY HeadTailAppend

\* A new head is matched by the new request.
LEMMA MatchHead ==
  ASSUME NEW b, NEW w, Match(b, w), NEW u \in Units, u.kind = "head",
         u.req \in Known
  PROVE  Match(Append(b, u), Append(w, u.req))
<1>1. b \in Seq(Units) /\ w \in Seq(Known)
  BY DEF Match
<1>2. PICK pos : MatchAt(b, w, pos)
  BY DEF Match
<1> DEFINE c == Append(b, u)
           v == Append(w, u.req)
<1>3. /\ c \in Seq(Units) /\ Len(c) = Len(b) + 1 /\ Len(b) \in Nat
      /\ \A i \in 1..Len(b) : c[i] = b[i]
      /\ c[Len(b) + 1] = u
  BY <1>1, AppendIs
<1>4. /\ v \in Seq(Known) /\ Len(v) = Len(w) + 1 /\ Len(w) \in Nat
      /\ \A i \in 1..Len(w) : v[i] = w[i]
      /\ v[Len(w) + 1] = u.req
  BY <1>1, AppendIs
<1> HIDE DEF c, v
<1> DEFINE p == [i \in 1..(Len(w) + 1) |-> IF i = Len(w) + 1 THEN Len(b) + 1
                                          ELSE pos[i]]
<1>5. /\ pos \in [1..Len(w) -> 1..Len(b)]
      /\ \A i, j \in 1..Len(w) : i < j => pos[i] < pos[j]
      /\ \A i \in 1..Len(w) : b[pos[i]].kind = "head" /\ b[pos[i]].req = w[i]
      /\ \A k \in 1..Len(b) : b[k].kind = "head" => \E i \in 1..Len(w) : pos[i] = k
  BY <1>2 DEF MatchAt
<1>6. \A i \in 1..Len(v) : i \in 1..Len(w) \/ i = Len(w) + 1
  BY <1>4
<1>7. \A i \in 1..Len(w) : p[i] = pos[i] /\ p[i] \in 1..Len(b)
  BY <1>4, <1>5, SMTT(60)
<1>8. p[Len(w) + 1] = Len(b) + 1
  BY <1>4
<1>9. DOMAIN p = 1..Len(v) /\ p = [i \in 1..Len(v) |-> p[i]]
  BY <1>4
<1> HIDE DEF p
<1>10. \A i \in 1..Len(v) : p[i] \in 1..Len(c)
  BY <1>3, <1>6, <1>7, <1>8
<1>11. p \in [1..Len(v) -> 1..Len(c)]
  BY <1>9, <1>10
<1>12. ASSUME NEW i \in 1..Len(v), NEW j \in 1..Len(v), i < j
       PROVE  p[i] < p[j]
  <2>1. i \in 1..Len(w)
    BY <1>4, <1>12
  <2>2. CASE j \in 1..Len(w)
    BY <1>5, <1>7, <1>12, <2>1, <2>2
  <2>3. CASE j = Len(w) + 1
    <3>1. p[i] \in 1..Len(b) /\ p[j] = Len(b) + 1
      BY <1>7, <1>8, <2>1, <2>3
    <3> QED
      BY <1>3, <3>1
  <2> QED
    BY <1>6, <2>2, <2>3
<1>13. ASSUME NEW i \in 1..Len(v)
       PROVE  c[p[i]].kind = "head" /\ c[p[i]].req = v[i]
  <2>1. CASE i \in 1..Len(w)
    <3>1. p[i] = pos[i] /\ p[i] \in 1..Len(b) /\ v[i] = w[i]
      BY <1>4, <1>7, <2>1
    <3>2. c[p[i]] = b[pos[i]]
      BY <1>3, <3>1
    <3> QED
      BY <1>5, <2>1, <3>1, <3>2
  <2>2. CASE i = Len(w) + 1
    BY <1>3, <1>4, <1>8, <2>2
  <2> QED
    BY <1>6, <2>1, <2>2
<1>14. ASSUME NEW k \in 1..Len(c), c[k].kind = "head"
       PROVE  \E i \in 1..Len(v) : p[i] = k
  <2>1. CASE k \in 1..Len(b)
    <3>1. PICK i \in 1..Len(w) : pos[i] = k
      BY <1>3, <1>5, <1>14, <2>1
    <3>2. i \in 1..Len(v)
      BY <1>4
    <3> QED
      BY <1>7, <3>1, <3>2
  <2>2. CASE k = Len(b) + 1
    <3>1. Len(w) + 1 \in 1..Len(v)
      BY <1>4
    <3> QED
      BY <1>8, <2>2, <3>1
  <2> QED
    BY <1>3, <2>1, <2>2
<1>15. MatchAt(c, v, p)
  BY <1>11, <1>12, <1>13, <1>14 DEF MatchAt
<1>16. Match(c, v)
  BY <1>3, <1>4, <1>15 DEF Match
<1> QED
  BY <1>16 DEF c, v

\* Anything else is not.
LEMMA MatchOther ==
  ASSUME NEW b, NEW w, Match(b, w), NEW u \in Units, u.kind # "head"
  PROVE  Match(Append(b, u), w)
<1>1. b \in Seq(Units) /\ w \in Seq(Known)
  BY DEF Match
<1>2. PICK pos : MatchAt(b, w, pos)
  BY DEF Match
<1> DEFINE c == Append(b, u)
<1>3. /\ c \in Seq(Units) /\ Len(c) = Len(b) + 1 /\ Len(b) \in Nat
      /\ \A i \in 1..Len(b) : c[i] = b[i]
      /\ c[Len(b) + 1] = u
  BY <1>1, AppendIs
<1> HIDE DEF c
<1>4. /\ pos \in [1..Len(w) -> 1..Len(b)]
      /\ \A i, j \in 1..Len(w) : i < j => pos[i] < pos[j]
      /\ \A i \in 1..Len(w) : b[pos[i]].kind = "head" /\ b[pos[i]].req = w[i]
      /\ \A k \in 1..Len(b) : b[k].kind = "head" => \E i \in 1..Len(w) : pos[i] = k
  BY <1>2 DEF MatchAt
<1>5. \A k \in 1..Len(b) : k \in 1..Len(c)
  BY <1>3
<1>6. pos \in [1..Len(w) -> 1..Len(c)]
  BY <1>4, <1>5
<1>7. \A i \in 1..Len(w) : c[pos[i]].kind = "head" /\ c[pos[i]].req = w[i]
  BY <1>3, <1>4
<1>8. ASSUME NEW k \in 1..Len(c), c[k].kind = "head"
      PROVE  \E i \in 1..Len(w) : pos[i] = k
  <2>1. k # Len(b) + 1
    BY <1>3, <1>8
  <2>2. k \in 1..Len(b)
    BY <1>3, <2>1
  <2> QED
    BY <1>3, <1>4, <1>8, <2>2
<1>9. MatchAt(c, w, pos)
  BY <1>4, <1>6, <1>7, <1>8 DEF MatchAt
<1>10. Match(c, w)
  BY <1>1, <1>3, <1>9 DEF Match
<1> QED
  BY <1>10 DEF c

\* The head that is read is that of the oldest request.
LEMMA MatchTailHead ==
  ASSUME NEW b, NEW w, Match(b, w), b # <<>>, b[1].kind = "head"
  PROVE  w # <<>> /\ Head(w) = b[1].req /\ Match(Tail(b), Tail(w))
<1>1. b \in Seq(Units) /\ w \in Seq(Known)
  BY DEF Match
<1>2. PICK pos : MatchAt(b, w, pos)
  BY DEF Match
<1>3. /\ pos \in [1..Len(w) -> 1..Len(b)]
      /\ \A i, j \in 1..Len(w) : i < j => pos[i] < pos[j]
      /\ \A i \in 1..Len(w) : b[pos[i]].kind = "head" /\ b[pos[i]].req = w[i]
      /\ \A k \in 1..Len(b) : b[k].kind = "head" => \E i \in 1..Len(w) : pos[i] = k
  BY <1>2 DEF MatchAt
<1> DEFINE c == Tail(b)
           v == Tail(w)
<1>4. /\ c \in Seq(Units) /\ Len(c) = Len(b) - 1 /\ Len(b) \in Nat
      /\ Len(b) >= 1 /\ \A i \in 1..Len(c) : c[i] = b[i + 1]
  BY <1>1, TailIs
<1>5. 1 \in 1..Len(b)
  BY <1>4
<1>6. PICK f \in 1..Len(w) : pos[f] = 1
  BY <1>3, <1>5
<1>7. Len(w) \in Nat /\ 1 \in 1..Len(w)
  BY <1>1
<1>8. f = 1
  <2> SUFFICES ASSUME f # 1 PROVE FALSE
    OBVIOUS
  <2>1. 1 < f
    BY <1>7
  <2>2. pos[1] < pos[f]
    BY <1>3, <1>7, <2>1
  <2>3. pos[1] \in 1..Len(b)
    BY <1>3, <1>7
  <2> QED
    BY <1>4, <1>6, <2>2, <2>3
<1>9. w # <<>>
  BY <1>1, <1>7
<1>10. /\ v \in Seq(Known) /\ Len(v) = Len(w) - 1
       /\ \A i \in 1..Len(v) : v[i] = w[i + 1] /\ Head(w) = w[1]
  BY <1>1, <1>9, TailIs
<1>11. Head(w) = b[1].req
  BY <1>1, <1>3, <1>6, <1>8, <1>9
<1> HIDE DEF c, v
<1>12. \A i \in 1..Len(v) : i + 1 \in 1..Len(w)
  BY <1>7, <1>10
<1>13. ASSUME NEW i \in 1..Len(v)
       PROVE  pos[i + 1] \in 2..Len(b)
  <2>1. 1 < i + 1 /\ i + 1 \in 1..Len(w)
    BY <1>7, <1>10, <1>12
  <2>2. pos[1] < pos[i + 1]
    BY <1>3, <1>7, <2>1
  <2>3. pos[1] = 1
    BY <1>6, <1>8
  <2>4. pos[i + 1] \in 1..Len(b)
    BY <1>3, <2>1
  <2> QED
    BY <1>4, <2>2, <2>3, <2>4
<1> DEFINE p == [i \in 1..Len(v) |-> pos[i + 1] - 1]
<1>14. \A i \in 1..Len(v) : p[i] = pos[i + 1] - 1
  OBVIOUS
<1>15. p = [i \in 1..Len(v) |-> p[i]]
  OBVIOUS
<1> HIDE DEF p
<1>16. ASSUME NEW i \in 1..Len(v)
       PROVE  p[i] \in 1..Len(c) /\ p[i] + 1 = pos[i + 1]
  <2>1. pos[i + 1] \in 2..Len(b) /\ p[i] = pos[i + 1] - 1
    BY <1>13, <1>14
  <2> QED
    BY <1>4, <2>1, SMTT(60)
<1>17. p \in [1..Len(v) -> 1..Len(c)]
  BY <1>15, <1>16
<1>18. ASSUME NEW i \in 1..Len(v), NEW j \in 1..Len(v), i < j
       PROVE  p[i] < p[j]
  <2>1. i + 1 < j + 1 /\ i + 1 \in 1..Len(w) /\ j + 1 \in 1..Len(w)
    BY <1>7, <1>10, <1>12, <1>18
  <2>2. pos[i + 1] < pos[j + 1]
    BY <1>3, <2>1
  <2>3. /\ pos[i + 1] \in 2..Len(b) /\ pos[j + 1] \in 2..Len(b)
        /\ p[i] = pos[i + 1] - 1 /\ p[j] = pos[j + 1] - 1
    BY <1>13, <1>14
  <2> QED
    BY <1>4, <2>2, <2>3, SMTT(60)
<1>19. ASSUME NEW i \in 1..Len(v)
       PROVE  c[p[i]].kind = "head" /\ c[p[i]].req = v[i]
  <2>1. c[p[i]] = b[pos[i + 1]]
    BY <1>4, <1>16
  <2>2. v[i] = w[i + 1] /\ i + 1 \in 1..Len(w)
    BY <1>10, <1>12
  <2> QED
    BY <1>3, <2>1, <2>2
<1>20. ASSUME NEW k \in 1..Len(c), c[k].kind = "head"
       PROVE  \E i \in 1..Len(v) : p[i] = k
  <2>1. k + 1 \in 1..Len(b) /\ b[k + 1].kind = "head"
    BY <1>4, <1>20
  <2>2. PICK i \in 1..Len(w) : pos[i] = k + 1
    BY <1>3, <2>1
  <2>3. i # 1
    BY <1>4, <1>6, <1>8, <2>2
  <2>4. i - 1 \in 1..Len(v) /\ (i - 1) + 1 = i
    BY <1>7, <1>10, <2>3
  <2>5. p[i - 1] = (k + 1) - 1
    BY <1>14, <2>2, <2>4
  <2> QED
    BY <1>4, <2>4, <2>5
<1>21. MatchAt(c, v, p)
  BY <1>17, <1>18, <1>19, <1>20 DEF MatchAt
<1>22. Match(c, v)
  BY <1>4, <1>10, <1>21 DEF Match
<1> QED
  BY <1>9, <1>11, <1>22 DEF c, v

\* Reading something else leaves the requests alone.
LEMMA MatchTailOther ==
  ASSUME NEW b, NEW w, Match(b, w), b # <<>>, b[1].kind # "head"
  PROVE  Match(Tail(b), w)
<1>1. b \in Seq(Units) /\ w \in Seq(Known)
  BY DEF Match
<1>2. PICK pos : MatchAt(b, w, pos)
  BY DEF Match
<1>3. /\ pos \in [1..Len(w) -> 1..Len(b)]
      /\ \A i, j \in 1..Len(w) : i < j => pos[i] < pos[j]
      /\ \A i \in 1..Len(w) : b[pos[i]].kind = "head" /\ b[pos[i]].req = w[i]
      /\ \A k \in 1..Len(b) : b[k].kind = "head" => \E i \in 1..Len(w) : pos[i] = k
  BY <1>2 DEF MatchAt
<1> DEFINE c == Tail(b)
<1>4. /\ c \in Seq(Units) /\ Len(c) = Len(b) - 1 /\ Len(b) \in Nat
      /\ Len(b) >= 1 /\ \A i \in 1..Len(c) : c[i] = b[i + 1]
  BY <1>1, TailIs
<1> HIDE DEF c
<1>5. ASSUME NEW i \in 1..Len(w) PROVE pos[i] \in 2..Len(b)
  <2>1. pos[i] \in 1..Len(b) /\ pos[i] # 1
    BY <1>3
  <2> QED
    BY <1>4, <2>1
<1> DEFINE p == [i \in 1..Len(w) |-> pos[i] - 1]
<1>6. \A i \in 1..Len(w) : p[i] = pos[i] - 1
  OBVIOUS
<1>7. p = [i \in 1..Len(w) |-> p[i]]
  OBVIOUS
<1> HIDE DEF p
<1>8. ASSUME NEW i \in 1..Len(w)
      PROVE  p[i] \in 1..Len(c) /\ p[i] + 1 = pos[i]
  <2>1. pos[i] \in 2..Len(b) /\ p[i] = pos[i] - 1
    BY <1>5, <1>6
  <2> QED
    BY <1>4, <2>1
<1>9. p \in [1..Len(w) -> 1..Len(c)]
  BY <1>7, <1>8
<1>10. ASSUME NEW i \in 1..Len(w), NEW j \in 1..Len(w), i < j
       PROVE  p[i] < p[j]
  <2>1. /\ pos[i] \in 2..Len(b) /\ pos[j] \in 2..Len(b)
        /\ p[i] = pos[i] - 1 /\ p[j] = pos[j] - 1 /\ pos[i] < pos[j]
    BY <1>3, <1>5, <1>6, <1>10
  <2> QED
    BY <1>4, <2>1
<1>11. ASSUME NEW i \in 1..Len(w)
       PROVE  c[p[i]].kind = "head" /\ c[p[i]].req = w[i]
  <2>1. c[p[i]] = b[pos[i]]
    BY <1>4, <1>8
  <2> QED
    BY <1>3, <2>1
<1>12. ASSUME NEW k \in 1..Len(c), c[k].kind = "head"
       PROVE  \E i \in 1..Len(w) : p[i] = k
  <2>1. k + 1 \in 1..Len(b) /\ b[k + 1].kind = "head"
    BY <1>4, <1>12
  <2>2. PICK i \in 1..Len(w) : pos[i] = k + 1
    BY <1>3, <2>1
  <2>3. p[i] = (k + 1) - 1
    BY <1>6, <2>2
  <2> QED
    BY <1>4, <2>3
<1>13. MatchAt(c, w, p)
  BY <1>9, <1>10, <1>11, <1>12 DEF MatchAt
<1>14. Match(c, w)
  BY <1>1, <1>4, <1>13 DEF Match
<1> QED
  BY <1>14 DEF c

\* The parts of Shape: what a unit may be, what follows it, and what is owed.
UnitOk(u, eof) == /\ u.kind = "head" => u.req \in Known
                  /\ u.kind = Eof => eof
Announces(u) == u.kind = "head" /\ u.req.body_follows
Follows(u, v) == /\ v.kind = Body => Announces(u)
                 /\ Announces(u) => v.kind \in {Body, Eof}

\* Shape in these words.
LEMMA ShapeIs ==
  ASSUME NEW b, NEW owes, NEW eof
  PROVE  Shape(b, owes, eof) <=>
            /\ \A i \in 1..Len(b) : UnitOk(b[i], eof)
            /\ \A i \in 1..(Len(b) - 1) : Follows(b[i], b[i + 1])
            /\ b # <<>> /\ ~eof => (owes <=> Announces(b[Len(b)]))
BY DEF Shape, UnitOk, Follows, Announces

\* One more unit of a client that has not closed.
LEMMA ShapeAppend ==
  ASSUME NEW b \in Seq(Units), NEW owes \in BOOLEAN, Shape(b, owes, FALSE),
         NEW u \in Units, NEW owed \in BOOLEAN, NEW eof \in BOOLEAN,
         UnitOk(u, eof), owes => u.kind \in {Body, Eof},
         b # <<>> /\ u.kind = Body => owes, ~eof => (owed <=> Announces(u))
  PROVE  Shape(Append(b, u), owed, eof)
<1> DEFINE c == Append(b, u)
<1>1. /\ Len(c) = Len(b) + 1 /\ Len(b) \in Nat
      /\ \A i \in 1..Len(b) : c[i] = b[i]
      /\ c[Len(b) + 1] = u
  BY AppendIs
<1> HIDE DEF c
<1>2. /\ \A i \in 1..Len(b) : UnitOk(b[i], FALSE)
      /\ \A i \in 1..(Len(b) - 1) : Follows(b[i], b[i + 1])
      /\ b # <<>> => (owes <=> Announces(b[Len(b)]))
  BY ShapeIs
<1>3. ASSUME NEW i \in 1..Len(c) PROVE UnitOk(c[i], eof)
  <2>1. CASE i \in 1..Len(b)
    BY <1>1, <1>2, <2>1 DEF UnitOk
  <2>2. CASE i = Len(b) + 1
    BY <1>1, <2>2
  <2> QED
    BY <1>1, <2>1, <2>2
<1>4. ASSUME NEW i \in 1..(Len(c) - 1) PROVE Follows(c[i], c[i + 1])
  <2>1. CASE i \in 1..(Len(b) - 1)
    <3>1. i \in 1..Len(b) /\ i + 1 \in 1..Len(b)
      BY <1>1, <2>1
    <3>2. c[i] = b[i] /\ c[i + 1] = b[i + 1]
      BY <1>1, <3>1
    <3> QED
      BY <1>2, <2>1, <3>2
  <2>2. CASE i = Len(b)
    <3>1. i \in 1..Len(b) /\ b # <<>>
      BY <1>1, <2>2
    <3>2. c[i] = b[Len(b)] /\ c[i + 1] = u
      BY <1>1, <2>2, <3>1
    <3>3. owes <=> Announces(b[Len(b)])
      BY <1>2, <3>1
    <3> QED
      BY <3>1, <3>2, <3>3 DEF Follows
  <2> QED
    BY <1>1, <2>1, <2>2
<1>5. ~eof => (owed <=> Announces(c[Len(c)]))
  BY <1>1
<1>6. Shape(c, owed, eof)
  BY <1>3, <1>4, <1>5, ShapeIs
<1> QED
  BY <1>6 DEF c

\* One unit less.
LEMMA ShapeTail ==
  ASSUME NEW b \in Seq(Units), b # <<>>, NEW owes \in BOOLEAN, NEW eof \in BOOLEAN,
         Shape(b, owes, eof)
  PROVE  /\ Shape(Tail(b), owes, eof)
         /\ Announces(b[1]) => AtBody(Tail(b), owes, eof)
         /\ ~Announces(b[1]) => AtHead(Tail(b), owes, eof)
         /\ UnitOk(b[1], eof)
<1> DEFINE c == Tail(b)
<1>1. /\ Len(c) = Len(b) - 1 /\ Len(b) \in Nat /\ Len(b) >= 1
      /\ \A i \in 1..Len(c) : c[i] = b[i + 1]
      /\ c = <<>> <=> Len(b) = 1
  BY TailIs
<1> HIDE DEF c
<1>2. /\ \A i \in 1..Len(b) : UnitOk(b[i], eof)
      /\ \A i \in 1..(Len(b) - 1) : Follows(b[i], b[i + 1])
      /\ ~eof => (owes <=> Announces(b[Len(b)]))
  BY ShapeIs
<1>3. ASSUME NEW i \in 1..Len(c) PROVE UnitOk(c[i], eof)
  <2>1. i + 1 \in 1..Len(b)
    BY <1>1
  <2> QED
    BY <1>1, <1>2, <2>1
<1>4. ASSUME NEW i \in 1..(Len(c) - 1) PROVE Follows(c[i], c[i + 1])
  <2>1. i \in 1..Len(c) /\ i + 1 \in 1..Len(c) /\ i + 1 \in 1..(Len(b) - 1)
    BY <1>1
  <2>2. c[i] = b[i + 1] /\ c[i + 1] = b[(i + 1) + 1]
    BY <1>1, <2>1
  <2> QED
    BY <1>2, <2>1, <2>2
<1>5. ASSUME c # <<>>, ~eof PROVE owes <=> Announces(c[Len(c)])
  <2>1. Len(c) \in 1..Len(c) /\ Len(c) + 1 = Len(b)
    BY <1>1, <1>5
  <2>2. c[Len(c)] = b[Len(b)]
    BY <1>1, <2>1
  <2> QED
    BY <1>2, <1>5, <2>2
<1>6. Shape(c, owes, eof)
  BY <1>3, <1>4, <1>5, ShapeIs
<1>7. c # <<>> => Follows(b[1], c[1])
  <2> SUFFICES ASSUME c # <<>> PROVE Follows(b[1], c[1])
    OBVIOUS
  <2>1. 1 \in 1..Len(c) /\ 1 \in 1..(Len(b) - 1)
    BY <1>1
  <2>2. c[1] = b[1 + 1]
    BY <1>1, <2>1
  <2> QED
    BY <1>2, <2>1, <2>2
<1>8. c = <<>> /\ ~eof => (owes <=> Announces(b[1]))
  BY <1>1, <1>2
<1>9. Announces(b[1]) => AtBody(c, owes, eof)
  BY <1>7, <1>8 DEF AtBody, Follows
<1>10. ~Announces(b[1]) => AtHead(c, owes, eof)
  BY <1>7, <1>8 DEF AtHead, Follows
<1>11. UnitOk(b[1], eof)
  BY <1>1, <1>2
<1> QED
  BY <1>6, <1>9, <1>10, <1>11 DEF c

\* The front of the stream when a unit is added to its end.
LEMMA FrontAppend ==
  ASSUME NEW b \in Seq(Units), NEW u \in Units, NEW owes \in BOOLEAN,
         NEW owed \in BOOLEAN, NEW eof \in BOOLEAN
  PROVE  /\ AtHead(b, owes, FALSE) /\ (u.kind = Body => owes)
               => AtHead(Append(b, u), owed, eof)
         /\ AtBody(b, owes, FALSE) /\ (owes => u.kind \in {Body, Eof})
               => AtBody(Append(b, u), owed, eof)
<1> DEFINE c == Append(b, u)
<1>1. c # <<>> /\ (b # <<>> => c[1] = b[1]) /\ (b = <<>> => c[1] = u)
  <2>1. /\ c # <<>> /\ Len(b) \in Nat
        /\ \A i \in 1..Len(b) : c[i] = b[i]
        /\ c[Len(b) + 1] = u
    BY AppendIs
  <2>2. b # <<>> => 1 \in 1..Len(b)
    BY <2>1
  <2>3. b = <<>> => Len(b) + 1 = 1
    OBVIOUS
  <2> HIDE DEF c
  <2> QED
    BY <2>1, <2>2, <2>3
<1> HIDE DEF c
<1>2. AtHead(b, owes, FALSE) /\ (u.kind = Body => owes) => AtHead(c, owed, eof)
  BY <1>1 DEF AtHead
<1>3. AtBody(b, owes, FALSE) /\ (owes => u.kind \in {Body, Eof})
        => AtBody(c, owed, eof)
  BY <1>1 DEF AtBody
<1> QED
  BY <1>2, <1>3 DEF c

-----------------------------------------------------------------------------
(* A connection.                                                           *)

Connection == [pc : {"absent", "header", "body", "routing", "write", "bad",
                     "drain", "closed", "upgraded"},
               inbox : Seq(Units), owes : BOOLEAN, eof : BOOLEAN,
               req : Known \cup {Bad}, status : Nat, awaiting : Seq(Known),
               unread : BOOLEAN, adrift : BOOLEAN]

\* do_session has taken the head of a request and not answered it.
Taken == {"body", "routing", "write"}

\* The request that was taken is the oldest without an answer, the others are
\* in the inbox.
Aligned(h) ==
    /\ h.pc = "header" => Match(h.inbox, h.awaiting)
    /\ h.pc \in Taken => /\ h.awaiting # <<>> /\ Head(h.awaiting) = h.req
                         /\ h.req \in Known
                         /\ Match(h.inbox, Tail(h.awaiting))

\* The stream is at a body exactly when do_session reads one, unless a body
\* was left in it.
Framed(h) ==
    /\ h.pc \in Taken \cup {"header"} => Shape(h.inbox, h.owes, h.eof)
    /\ h.pc = "body" => AtBody(h.inbox, h.owes, h.eof)
    /\ h.pc \in {"header", "routing", "write"} /\ ~h.unread
          => AtHead(h.inbox, h.owes, h.eof)

\* What AnswersMatch says beyond that.
Excused(h) ==
    h.pc = "bad" => \/ h.eof
                    \/ h.awaiting # <<>> /\ Head(h.awaiting).framing # "ok"
Answer(h) ==
    (/\ h.pc = "write" /\ h.status = 200 /\ h.req.method = "POST"
     /\ h.req.path \in Sessions) => Playable(h.req.body.flow)

\* The framing is lost only behind a body that was left in the stream.
HttpOk(h) == /\ h \in Connection
             /\ h.pc = "absent" => h = Ended("absent")
             /\ h.pc \in Taken => h.req \in Known
             /\ h.adrift => h.unread /\ h.inbox = <<>>
             /\ ~h.adrift => Aligned(h) /\ Framed(h) /\ Excused(h)
             /\ Answer(h)

\* A connection that is not served.
LEMMA EndedOk ==
  ASSUME NEW pc \in {"absent", "closed", "upgraded"}
  PROVE  HttpOk(Ended(pc)) /\ Ended(pc).pc = pc
<1> DEFINE r == Ended(pc)
<1>1. /\ r.pc = pc /\ r \in Connection /\ ~r.adrift
  BY DEF Ended, Connection
<1>2. r.pc = "absent" => r = Ended("absent")
  BY <1>1
<1> HIDE DEF r
<1>3. Aligned(r) /\ Framed(r) /\ Excused(r) /\ Answer(r)
  BY <1>1 DEF Aligned, Framed, Excused, Answer, Taken
<1>4. HttpOk(r)
  BY <1>1, <1>2, <1>3 DEF HttpOk, Taken
<1> QED
  BY <1>1, <1>4 DEF r

\* The connection is accepted.
LEMMA AcceptedOk ==
  ASSUME NEW h, HttpOk(h), h.pc = "absent"
  PROVE  HttpOk([h EXCEPT !.pc = "header"])
<1> DEFINE r == [h EXCEPT !.pc = "header"]
<1>1. h = Ended("absent")
  BY DEF HttpOk
<1>2. /\ r.pc = "header" /\ r.inbox = <<>> /\ r.awaiting = <<>>
      /\ r.owes = FALSE /\ r.eof = FALSE /\ ~r.adrift
  BY <1>1 DEF Ended
<1>3. r \in Connection
  BY DEF HttpOk, Connection
<1> HIDE DEF r
<1>4. Match(<<>>, <<>>)
  <2>1. MatchAt(<<>>, <<>>, <<>>)
    <3>1. 1..Len(<<>>) = {}
      OBVIOUS
    <3>2. <<>> \in [1..Len(<<>>) -> 1..Len(<<>>)]
      BY <3>1
    <3> QED
      BY <3>1, <3>2 DEF MatchAt
  <2> QED
    BY <2>1 DEF Match
<1>5. Shape(<<>>, FALSE, FALSE) /\ AtHead(<<>>, FALSE, FALSE)
  BY DEF Shape, AtHead
<1>6. Aligned(r) /\ Framed(r) /\ Excused(r) /\ Answer(r)
  BY <1>2, <1>4, <1>5 DEF Aligned, Framed, Excused, Answer, Taken
<1>7. HttpOk(r)
  BY <1>2, <1>3, <1>6 DEF HttpOk, Taken
<1> QED
  BY <1>7 DEF r

\* The client sends one more unit u.
LEMMA SentOk ==
  ASSUME NEW h, HttpOk(h), ~h.adrift, ~h.eof, h.pc # "absent",
         NEW u \in Units, NEW r \in Connection, r.adrift = h.adrift,
         r.pc = h.pc, r.req = h.req, r.status = h.status,
         r.unread = h.unread, r.inbox = Append(h.inbox, u),
         u.kind = "head" => r.awaiting = Append(h.awaiting, u.req),
         u.kind # "head" => r.awaiting = h.awaiting,
         UnitOk(u, r.eof), h.owes => u.kind \in {Body, Eof},
         u.kind = Body => h.owes, ~r.eof => (r.owes <=> Announces(u))
  PROVE  HttpOk(r)
<1>1. /\ h.inbox \in Seq(Units) /\ h.awaiting \in Seq(Known)
      /\ r.inbox \in Seq(Units) /\ h.owes \in BOOLEAN
      /\ r.owes \in BOOLEAN /\ r.eof \in BOOLEAN
  BY DEF HttpOk, Connection
<1>2. h.eof = FALSE
  BY DEF HttpOk, Connection
<1>3. u.kind = "head" => u.req \in Known
  BY DEF UnitOk
<1>4. h.awaiting # <<>> =>
         /\ r.awaiting # <<>> /\ Head(r.awaiting) = Head(h.awaiting)
         /\ u.kind = "head" => Tail(r.awaiting) = Append(Tail(h.awaiting), u.req)
  <2>1. CASE u.kind = "head"
    <3>1. u.req \in Known /\ r.awaiting = Append(h.awaiting, u.req)
      BY <1>3, <2>1
    <3>2. r.awaiting # <<>>
      BY <1>1, <3>1, AppendIs, SMTT(60)
    <3> QED
      BY <1>1, <3>1, <3>2, TailAppend
  <2>2. CASE u.kind # "head"
    BY <2>2
  <2> QED
    BY <2>1, <2>2
<1>5. Aligned(r)
  <2>1. ASSUME NEW w, Match(h.inbox, w), NEW v,
               u.kind = "head" => v = Append(w, u.req),
               u.kind # "head" => v = w
        PROVE  Match(r.inbox, v)
    BY <1>3, <2>1, MatchHead, MatchOther
  <2>2. ASSUME r.pc = "header" PROVE Match(r.inbox, r.awaiting)
    <3>1. Match(h.inbox, h.awaiting)
      BY <2>2 DEF HttpOk, Aligned
    <3> QED
      BY <2>1, <3>1
  <2>3. ASSUME r.pc \in Taken
        PROVE  /\ r.awaiting # <<>> /\ Head(r.awaiting) = r.req
               /\ r.req \in Known
               /\ Match(r.inbox, Tail(r.awaiting))
    <3>1. /\ h.awaiting # <<>> /\ Head(h.awaiting) = h.req
          /\ h.req \in Known
          /\ Match(h.inbox, Tail(h.awaiting))
      BY <2>3 DEF HttpOk, Aligned
    <3>2. u.kind # "head" => Tail(r.awaiting) = Tail(h.awaiting)
      OBVIOUS
    <3>3. Match(r.inbox, Tail(r.awaiting))
      BY <1>4, <2>1, <3>1, <3>2
    <3> QED
      BY <1>4, <3>1, <3>3
  <2> QED
    BY <2>2, <2>3 DEF Aligned
<1>6. Framed(r)
  <2>1. ASSUME r.pc \in Taken \cup {"header"}
        PROVE  Shape(r.inbox, r.owes, r.eof)
    <3>1. Shape(h.inbox, h.owes, FALSE)
      BY <1>2, <2>1 DEF HttpOk, Framed
    <3> QED
      BY <1>1, <3>1, ShapeAppend
  <2>2. ASSUME r.pc = "body"
        PROVE  AtBody(r.inbox, r.owes, r.eof)
    <3>1. AtBody(h.inbox, h.owes, FALSE)
      BY <1>2, <2>2 DEF HttpOk, Framed
    <3> QED
      BY <1>1, <3>1, FrontAppend
  <2>3. ASSUME r.pc \in {"header", "routing", "write"}, ~r.unread
        PROVE  AtHead(r.inbox, r.owes, r.eof)
    <3>1. AtHead(h.inbox, h.owes, FALSE)
      BY <1>2, <2>3 DEF HttpOk, Framed
    <3> QED
      BY <1>1, <3>1, FrontAppend
  <2> QED
    BY <2>1, <2>2, <2>3 DEF Framed
<1>7. Excused(r)
  BY <1>2, <1>4 DEF HttpOk, Excused
<1>8. Answer(r)
  BY DEF HttpOk, Answer
<1> QED
  BY <1>5, <1>6, <1>7, <1>8 DEF HttpOk, Taken

\* The three things a client does.
LEMMA SendHeadOk ==
  ASSUME NEW h, HttpOk(h), ~h.adrift, ~h.eof, ~h.owes, h.pc # "absent", NEW req \in Known
  PROVE  HttpOk([h EXCEPT !.inbox = Append(@, Unit("head", req)),
                          !.awaiting = Append(@, req),
                          !.owes = req.body_follows])
<1> DEFINE u == Unit("head", req)
           r == [h EXCEPT !.inbox = Append(@, u), !.awaiting = Append(@, req),
                          !.owes = req.body_follows]
<1>1. u \in Units /\ u.kind = "head" /\ u.req = req
  BY DEF Unit, Units
<1>2. req.body_follows \in BOOLEAN
  BY RequestsAssumption DEF Known
<1> HIDE DEF u
<1>3. h \in Connection /\ h.inbox \in Seq(Units) /\ h.awaiting \in Seq(Known)
  BY DEF HttpOk, Connection
<1>4. Append(h.inbox, u) \in Seq(Units) /\ Append(h.awaiting, req) \in Seq(Known)
  BY <1>1, <1>3, AppendIs
<1>5. r \in Connection
  BY <1>2, <1>3, <1>4 DEF Connection
<1>6. /\ r.pc = h.pc /\ r.req = h.req /\ r.status = h.status
      /\ r.unread = h.unread /\ r.inbox = Append(h.inbox, u)
      /\ r.awaiting = Append(h.awaiting, req) /\ r.owes = req.body_follows
      /\ r.eof = h.eof /\ r.adrift = h.adrift
  BY <1>3 DEF Connection
<1> HIDE DEF r
<1>7. UnitOk(u, r.eof) /\ (Announces(u) <=> req.body_follows)
  BY <1>1 DEF UnitOk, Announces, Eof
<1>8. u.kind # Body
  BY <1>1 DEF Body
<1>9. HttpOk(r)
  BY <1>1, <1>5, <1>6, <1>7, <1>8, SentOk
<1> QED
  BY <1>9 DEF r, u

LEMMA SendBodyOk ==
  ASSUME NEW h, HttpOk(h), ~h.adrift, ~h.eof, h.owes, h.pc # "absent"
  PROVE  HttpOk([h EXCEPT !.inbox = Append(@, Unit(Body, Bad)), !.owes = FALSE])
<1> DEFINE u == Unit(Body, Bad)
           r == [h EXCEPT !.inbox = Append(@, u), !.owes = FALSE]
<1>1. u \in Units /\ u.kind = Body /\ u.kind # "head" /\ u.kind # Eof
  BY DEF Unit, Units, Body, Eof
<1> HIDE DEF u
<1>2. h \in Connection /\ h.inbox \in Seq(Units)
  BY DEF HttpOk, Connection
<1>3. Append(h.inbox, u) \in Seq(Units)
  BY <1>1, <1>2, AppendIs
<1>4. r \in Connection
  BY <1>2, <1>3 DEF Connection
<1>5. /\ r.pc = h.pc /\ r.req = h.req /\ r.status = h.status
      /\ r.unread = h.unread /\ r.inbox = Append(h.inbox, u)
      /\ r.awaiting = h.awaiting /\ r.owes = FALSE /\ r.eof = h.eof
      /\ r.adrift = h.adrift
  BY <1>2 DEF Connection
<1> HIDE DEF r
<1>6. UnitOk(u, r.eof) /\ ~Announces(u)
  BY <1>1 DEF UnitOk, Announces
<1>7. HttpOk(r)
  BY <1>1, <1>4, <1>5, <1>6, SentOk
<1> QED
  BY <1>7 DEF r, u

LEMMA ClientClosesOk ==
  ASSUME NEW h, HttpOk(h), ~h.adrift, ~h.eof, h.pc # "absent"
  PROVE  HttpOk([h EXCEPT !.inbox = Append(@, Unit(Eof, Bad)), !.eof = TRUE])
<1> DEFINE u == Unit(Eof, Bad)
           r == [h EXCEPT !.inbox = Append(@, u), !.eof = TRUE]
<1>1. u \in Units /\ u.kind = Eof /\ u.kind # "head" /\ u.kind # Body
  BY DEF Unit, Units, Body, Eof
<1> HIDE DEF u
<1>2. h \in Connection /\ h.inbox \in Seq(Units)
  BY DEF HttpOk, Connection
<1>3. Append(h.inbox, u) \in Seq(Units)
  BY <1>1, <1>2, AppendIs
<1>4. r \in Connection
  BY <1>2, <1>3 DEF Connection
<1>5. /\ r.pc = h.pc /\ r.req = h.req /\ r.status = h.status
      /\ r.unread = h.unread /\ r.inbox = Append(h.inbox, u)
      /\ r.awaiting = h.awaiting /\ r.owes = h.owes /\ r.eof = TRUE
      /\ r.adrift = h.adrift
  BY <1>2 DEF Connection
<1> HIDE DEF r
<1>6. UnitOk(u, r.eof)
  BY <1>1, <1>5 DEF UnitOk
<1>7. HttpOk(r)
  BY <1>1, <1>4, <1>5, <1>6, SentOk
<1> QED
  BY <1>7 DEF r, u

\* async_read_header of a head.
LEMMA HeaderOk ==
  ASSUME NEW h, HttpOk(h), h.pc = "header", h.inbox # <<>>,
         Head(h.inbox).kind # Body
  PROVE  LET unit == Head(h.inbox)
             g == [h EXCEPT !.inbox = Tail(@)]
         IN  HttpOk(IF unit.kind = "head" /\ unit.req.framing = "ok"
                    THEN HeadRead(g, unit.req) ELSE [g EXCEPT !.pc = "bad"])
<1> DEFINE u == Head(h.inbox)
           g == [h EXCEPT !.inbox = Tail(@)]
<1>1. /\ h \in Connection /\ h.inbox \in Seq(Units) /\ h.awaiting \in Seq(Known)
      /\ h.owes \in BOOLEAN /\ h.eof \in BOOLEAN /\ h.unread \in BOOLEAN
      /\ ~h.adrift
  BY DEF HttpOk, Connection
<1>2. u = h.inbox[1] /\ u \in Units /\ Tail(h.inbox) \in Seq(Units)
  BY <1>1, TailIs
<1>3. /\ g.pc = h.pc /\ g.req = h.req /\ g.status = h.status
      /\ g.unread = h.unread /\ g.inbox = Tail(h.inbox) /\ ~g.adrift
      /\ g.awaiting = h.awaiting /\ g.owes = h.owes /\ g.eof = h.eof
  BY <1>1 DEF Connection
<1>4. g \in Connection
  BY <1>1, <1>2 DEF Connection
<1>5. Match(h.inbox, h.awaiting) /\ Shape(h.inbox, h.owes, h.eof)
  BY <1>1 DEF HttpOk, Aligned, Framed
<1> HIDE DEF u, g
<1>6. /\ Shape(g.inbox, g.owes, g.eof)
      /\ Announces(u) => AtBody(g.inbox, g.owes, g.eof)
      /\ ~Announces(u) => AtHead(g.inbox, g.owes, g.eof)
      /\ UnitOk(u, g.eof)
  BY <1>1, <1>2, <1>3, <1>5, ShapeTail
<1>7. u.kind = "head" =>
         /\ g.awaiting # <<>> /\ Head(g.awaiting) = u.req /\ u.req \in Known
         /\ Match(g.inbox, Tail(g.awaiting))
  BY <1>2, <1>3, <1>5, <1>6, MatchTailHead DEF UnitOk
<1>8. ASSUME u.kind = "head", u.req.framing = "ok"
      PROVE  HttpOk(HeadRead(g, u.req))
  <2> DEFINE r == HeadRead(g, u.req)
  <2>1. u.req \in Known /\ u.req.body_follows \in BOOLEAN
    BY <1>7, <1>8, RequestsAssumption DEF Known
  <2>2. CASE u.req.method = "OPTIONS"
    <3> DEFINE left == g.unread \/ u.req.body_follows
    <3>1. r = [g EXCEPT !.req = u.req, !.status = 200, !.pc = "write",
                        !.unread = left]
      BY <2>2 DEF HeadRead
    <3>2. left \in BOOLEAN /\ (left <=> g.unread \/ u.req.body_follows)
      OBVIOUS
    <3> HIDE DEF left
    <3>3. r \in Connection
      <4>1. [g EXCEPT !.req = u.req, !.status = 200, !.pc = "write",
                      !.unread = left] \in Connection
        BY <1>4, <2>1, <3>2, ZenonT(60) DEF Connection
      <4> QED
        BY <3>1, <4>1
    <3>4. /\ r.pc = "write" /\ r.req = u.req /\ r.inbox = g.inbox
          /\ r.awaiting = g.awaiting /\ r.owes = g.owes /\ r.eof = g.eof
          /\ ~r.adrift
      BY <1>3, <1>4, <3>1 DEF Connection
    <3>5. r.unread <=> g.unread \/ u.req.body_follows
      BY <1>4, <3>1, <3>2 DEF Connection
    <3> HIDE DEF r
    <3>6. Aligned(r)
      BY <1>7, <1>8, <3>4 DEF Aligned, Taken
    <3>7. ~r.unread => AtHead(r.inbox, r.owes, r.eof)
      BY <1>6, <3>4, <3>5 DEF Announces
    <3>8. Framed(r)
      BY <1>6, <3>4, <3>7 DEF Framed, Taken
    <3>9. Excused(r) /\ Answer(r)
      BY <2>2, <3>4 DEF Excused, Answer
    <3>10. HttpOk(r)
      BY <2>1, <3>3, <3>4, <3>6, <3>8, <3>9 DEF HttpOk
    <3> QED
      BY <3>10 DEF r
  <2>3. CASE u.req.method # "OPTIONS"
    <3> DEFINE pc == IF u.req.body_follows THEN "body" ELSE "routing"
    <3>1. r = [g EXCEPT !.req = u.req, !.pc = pc]
      BY <2>3 DEF HeadRead
    <3>2. /\ pc \in {"body", "routing"}
          /\ pc = "body" <=> u.req.body_follows
      BY <2>1
    <3> HIDE DEF pc
    <3>3. r \in Connection
      BY <1>4, <2>1, <3>1, <3>2 DEF Connection
    <3>4. /\ r.pc = pc /\ r.req = u.req /\ r.inbox = g.inbox
          /\ r.awaiting = g.awaiting /\ r.owes = g.owes /\ r.eof = g.eof
          /\ ~r.adrift
      BY <1>3, <1>4, <3>1 DEF Connection
    <3> HIDE DEF r
    <3>5. Aligned(r)
      BY <1>7, <1>8, <3>2, <3>4 DEF Aligned, Taken
    <3>6. Framed(r)
      BY <1>6, <1>8, <3>2, <3>4 DEF Framed, Taken, Announces
    <3>7. Excused(r) /\ Answer(r)
      BY <3>2, <3>4 DEF Excused, Answer
    <3>8. HttpOk(r)
      BY <2>1, <3>2, <3>3, <3>4, <3>5, <3>6, <3>7 DEF HttpOk
    <3> QED
      BY <3>8 DEF r
  <2> QED
    BY <2>2, <2>3
<1>9. ASSUME ~(u.kind = "head" /\ u.req.framing = "ok")
      PROVE  HttpOk([g EXCEPT !.pc = "bad"])
  <2> DEFINE r == [g EXCEPT !.pc = "bad"]
  <2>1. r \in Connection
    BY <1>4 DEF Connection
  <2>2. /\ r.pc = "bad" /\ r.eof = g.eof /\ r.awaiting = g.awaiting
        /\ ~r.adrift
    BY <1>3, <1>4 DEF Connection
  <2> HIDE DEF r
  <2>3. u.kind \in {"head", Body, Eof}
    BY <1>2 DEF Units
  <2>4. u.kind # Body
    BY DEF u
  <2>5. u.kind = Eof => g.eof
    BY <1>6 DEF UnitOk
  <2>6. u.kind = "head" =>
           g.awaiting # <<>> /\ Head(g.awaiting).framing # "ok"
    BY <1>7, <1>9
  <2>7. Excused(r)
    BY <2>2, <2>3, <2>4, <2>5, <2>6 DEF Excused
  <2>8. Aligned(r) /\ Framed(r) /\ Answer(r)
    BY <2>2 DEF Aligned, Framed, Answer, Taken
  <2>9. HttpOk(r)
    BY <2>1, <2>2, <2>7, <2>8 DEF HttpOk, Taken
  <2> QED
    BY <2>9 DEF r
<1> QED
  BY <1>8, <1>9 DEF u, g

\* A stream that is adrift, on which anything is read.
Strayed(unread) == [Ended("header") EXCEPT !.unread = unread, !.adrift = TRUE]

LEMMA AdriftOk ==
  ASSUME NEW r \in Connection, r.adrift, r.unread, r.inbox = <<>>,
         r.pc # "absent", r.pc \in Taken => r.req \in Known, Answer(r)
  PROVE  HttpOk(r)
BY DEF HttpOk

\* async_read_header of a body that nobody read, or of what follows it.
LEMMA StrayOk ==
  ASSUME NEW h, HttpOk(h), h.pc = "header",
         ~h.adrift => h.inbox # <<>> /\ Head(h.inbox).kind = Body
  PROVE  /\ HttpOk([Strayed(h.unread) EXCEPT !.pc = "bad"])
         /\ \A req \in Requests : HttpOk(HeadRead(Strayed(h.unread), req))
<1>1. h \in Connection /\ h.inbox \in Seq(Units)
  BY DEF HttpOk, Connection
<1>2. h.unread = TRUE
  <2>1. CASE h.adrift
    BY <1>1, <2>1 DEF HttpOk, Connection
  <2>2. CASE ~h.adrift
    <3>1. ~h.unread => AtHead(h.inbox, h.owes, h.eof)
      BY <2>2 DEF HttpOk, Framed
    <3>2. h.inbox # <<>> /\ h.inbox[1].kind = Body
      BY <1>1, <2>2, TailIs
    <3> QED
      BY <1>1, <3>1, <3>2 DEF AtHead, Connection
  <2> QED
    BY <2>1, <2>2
<1> DEFINE g == Strayed(h.unread)
<1>3. g \in Connection /\ g.adrift = TRUE /\ g.unread = TRUE /\ g.inbox = <<>>
  <2> DEFINE e == Ended("header")
  <2>1. <<>> \in Seq(Units) /\ <<>> \in Seq(Known) /\ Bad \in Known \cup {Bad}
    OBVIOUS
  <2>2. e \in Connection /\ e.inbox = <<>>
    BY <2>1 DEF Ended, Connection
  <2>3. g = [e EXCEPT !.unread = TRUE, !.adrift = TRUE]
    BY <1>2 DEF Strayed
  <2> HIDE DEF e, g
  <2> QED
    BY <2>2, <2>3 DEF Connection
<1> HIDE DEF g
<1>4. HttpOk([g EXCEPT !.pc = "bad"])
  <2> DEFINE r == [g EXCEPT !.pc = "bad"]
  <2>1. /\ r \in Connection /\ r.adrift /\ r.unread /\ r.inbox = <<>>
        /\ r.pc = "bad"
    BY <1>3 DEF Connection
  <2> HIDE DEF r
  <2>2. HttpOk(r)
    BY <2>1, AdriftOk DEF Taken, Answer
  <2> QED
    BY <2>2 DEF r
<1>5. ASSUME NEW req \in Requests PROVE HttpOk(HeadRead(g, req))
  <2> DEFINE r == HeadRead(g, req)
  <2>1. req \in Known /\ req.body_follows \in BOOLEAN
    BY RequestsAssumption DEF Known
  <2>2. CASE req.method = "OPTIONS"
    <3>1. r = [g EXCEPT !.req = req, !.status = 200, !.pc = "write",
                        !.unread = TRUE]
      BY <1>3, <2>2 DEF HeadRead, Connection
    <3>2. /\ r.adrift /\ r.unread /\ r.inbox = <<>>
          /\ r.pc = "write" /\ r.req = req
      BY <1>3, <3>1 DEF Connection
    <3>3. r \in Connection
      <4>1. [g EXCEPT !.req = req, !.status = 200, !.pc = "write",
                      !.unread = TRUE] \in Connection
        BY <1>3, <2>1, ZenonT(60) DEF Connection
      <4> QED
        BY <3>1, <4>1
    <3> HIDE DEF r
    <3>4. HttpOk(r)
      BY <2>1, <2>2, <3>2, <3>3, AdriftOk DEF Answer
    <3> QED
      BY <3>4 DEF r
  <2>3. CASE req.method # "OPTIONS"
    <3> DEFINE pc == IF req.body_follows THEN "body" ELSE "routing"
    <3>1. r = [g EXCEPT !.req = req, !.pc = pc]
      BY <2>3 DEF HeadRead
    <3>2. pc \in {"body", "routing"}
      OBVIOUS
    <3> HIDE DEF pc
    <3>3. /\ r \in Connection /\ r.adrift /\ r.unread /\ r.inbox = <<>>
          /\ r.pc = pc /\ r.req = req
      BY <1>3, <2>1, <3>1, <3>2 DEF Connection
    <3> HIDE DEF r
    <3>4. HttpOk(r)
      BY <2>1, <3>2, <3>3, AdriftOk DEF Answer
    <3> QED
      BY <3>4 DEF r
  <2> QED
    BY <2>2, <2>3
<1> QED
  BY <1>4, <1>5 DEF g

\* async_read of what a stream that is adrift has for a body.
LEMMA StrayBodyOk ==
  ASSUME NEW h, HttpOk(h), h.pc = "body", h.adrift, NEW pc \in {"routing", "bad"}
  PROVE  HttpOk([h EXCEPT !.pc = pc])
<1> DEFINE r == [h EXCEPT !.pc = pc]
<1>1. h \in Connection /\ h.unread /\ h.inbox = <<>> /\ h.req \in Known
  BY DEF HttpOk, Taken
<1>2. /\ r \in Connection /\ r.adrift /\ r.unread /\ r.inbox = <<>>
      /\ r.pc = pc /\ r.req = h.req
  BY <1>1 DEF Connection
<1> HIDE DEF r
<1>3. HttpOk(r)
  BY <1>1, <1>2, AdriftOk DEF Answer
<1> QED
  BY <1>3 DEF r

\* async_read of a body.
LEMMA BodyOk ==
  ASSUME NEW h, HttpOk(h), h.pc = "body", h.inbox # <<>>
  PROVE  HttpOk([h EXCEPT !.inbox = Tail(@),
                          !.pc = IF Head(h.inbox).kind = Body
                                 THEN "routing" ELSE "bad"])
<1> DEFINE u == Head(h.inbox)
           pc == IF u.kind = Body THEN "routing" ELSE "bad"
           r == [h EXCEPT !.inbox = Tail(@), !.pc = pc]
<1>1. /\ h \in Connection /\ h.inbox \in Seq(Units)
      /\ h.owes \in BOOLEAN /\ h.eof \in BOOLEAN /\ ~h.adrift
  BY DEF HttpOk, Connection
<1>2. u = h.inbox[1] /\ Tail(h.inbox) \in Seq(Units)
  BY <1>1, TailIs
<1>3. /\ pc \in {"routing", "bad"}
      /\ pc = "routing" => u.kind = Body
      /\ pc = "bad" => u.kind # Body
  OBVIOUS
<1> HIDE DEF u, pc
<1>4. r \in Connection
  BY <1>1, <1>2, <1>3 DEF Connection
<1>5. /\ r.pc = pc /\ r.req = h.req /\ r.inbox = Tail(h.inbox)
      /\ r.awaiting = h.awaiting /\ r.owes = h.owes /\ r.eof = h.eof
      /\ ~r.adrift
  BY <1>1 DEF Connection
<1> HIDE DEF r
<1>6. /\ Shape(h.inbox, h.owes, h.eof) /\ AtBody(h.inbox, h.owes, h.eof)
      /\ h.awaiting # <<>> /\ Head(h.awaiting) = h.req /\ h.req \in Known
      /\ Match(h.inbox, Tail(h.awaiting))
  BY <1>1 DEF HttpOk, Aligned, Framed, Taken
<1>7. u.kind \in {Body, Eof} /\ u.kind # "head"
  BY <1>2, <1>6 DEF AtBody, Body, Eof
<1>8. /\ Shape(r.inbox, r.owes, r.eof) /\ AtHead(r.inbox, r.owes, r.eof)
      /\ UnitOk(u, r.eof)
  BY <1>1, <1>2, <1>5, <1>6, <1>7, ShapeTail DEF Announces
<1>9. Match(r.inbox, Tail(r.awaiting))
  BY <1>2, <1>5, <1>6, <1>7, MatchTailOther
<1>10. Aligned(r) /\ Framed(r)
  BY <1>3, <1>5, <1>6, <1>8, <1>9 DEF Aligned, Framed, Taken
<1>11. Excused(r) /\ Answer(r)
  BY <1>3, <1>5, <1>7, <1>8 DEF Excused, Answer, UnitOk
<1>12. HttpOk(r)
  BY <1>3, <1>4, <1>5, <1>6, <1>10, <1>11 DEF HttpOk
<1> QED
  BY <1>12 DEF r, pc, u

\* route_query returns.
LEMMA RoutedOk ==
  ASSUME NEW h, HttpOk(h), h.pc = "routing", NEW live, NEW running,
         NEW outcome \in route_query(h.req, live, running)
  PROVE  HttpOk(Routed(h, outcome))
<1>1. h \in Connection /\ h.req \in Known
  BY DEF HttpOk, Taken
<1>2. CASE h.req.upgrade
  <2> DEFINE pc == IF outcome.effect = "connect" THEN "upgraded" ELSE "closed"
  <2>1. Routed(h, outcome) = Ended(pc)
    BY <1>2 DEF Routed
  <2>2. pc \in {"absent", "closed", "upgraded"}
    OBVIOUS
  <2> HIDE DEF pc
  <2> QED
    BY <2>1, <2>2, EndedOk
<1>3. CASE ~h.req.upgrade
  <2> DEFINE r == [h EXCEPT !.pc = "write", !.status = outcome.status]
  <2>1. Routed(h, outcome) = r
    BY <1>3 DEF Routed
  <2>2. /\ outcome.status \in Nat
        /\ outcome.status = 200 /\ h.req.method = "POST"
           /\ h.req.path \in Sessions => Playable(h.req.body.flow)
    BY <1>1, Outcomes DEF Known
  <2>3. r \in Connection
    BY <1>1, <2>2 DEF Connection
  <2>4. /\ r.pc = "write" /\ r.status = outcome.status /\ r.req = h.req
        /\ r.inbox = h.inbox /\ r.awaiting = h.awaiting /\ r.owes = h.owes
        /\ r.eof = h.eof /\ r.unread = h.unread /\ r.adrift = h.adrift
    BY <1>1 DEF Connection
  <2> HIDE DEF r
  <2>5. ~r.adrift => Aligned(r) /\ Framed(r)
    BY <2>4 DEF HttpOk, Aligned, Framed, Taken
  <2>6. Excused(r) /\ Answer(r)
    BY <2>2, <2>4 DEF Excused, Answer
  <2>7. HttpOk(r)
    BY <1>1, <2>3, <2>4, <2>5, <2>6 DEF HttpOk
  <2> QED
    BY <2>1, <2>7
<1> QED
  BY <1>2, <1>3

\* An answer is written, or the write fails.
LEMMA AnsweredOk ==
  ASSUME NEW h, HttpOk(h), h.pc = "write", NEW g \in do_write_response(h)
  PROVE  HttpOk(IF g.pc = "closed" THEN g
                ELSE [g EXCEPT !.pc = IF g.req.keep_alive THEN "header"
                                      ELSE "drain",
                               !.req = Bad, !.status = 0])
<1> DEFINE rest == IF h.awaiting = <<>> THEN h.awaiting ELSE Tail(h.awaiting)
<1>1. /\ h \in Connection /\ h.awaiting \in Seq(Known) /\ rest \in Seq(Known)
      /\ ~h.adrift => rest = Tail(h.awaiting)
  <2>1. h \in Connection /\ h.awaiting \in Seq(Known)
    BY DEF HttpOk, Connection
  <2>2. h.awaiting # <<>> => Tail(h.awaiting) \in Seq(Known)
    BY <2>1, TailIs
  <2>3. ~h.adrift => h.awaiting # <<>>
    BY DEF HttpOk, Aligned, Taken
  <2> QED
    BY <2>1, <2>2, <2>3
<1>2. CASE g = Ended("closed")
  BY <1>2, EndedOk
<1>3. CASE g # Ended("closed")
  <2>1. g = [h EXCEPT !.awaiting = rest]
    BY <1>3 DEF do_write_response
  <2> HIDE DEF rest
  <2>3. g \in Connection
    BY <1>1, <2>1 DEF Connection
  <2>4. /\ g.pc = "write" /\ g.inbox = h.inbox /\ g.owes = h.owes
        /\ g.eof = h.eof /\ g.unread = h.unread /\ g.adrift = h.adrift
        /\ g.awaiting = rest /\ g.req = h.req
    BY <1>1, <2>1 DEF Connection
  <2> DEFINE pc == IF g.req.keep_alive THEN "header" ELSE "drain"
             r == [g EXCEPT !.pc = pc, !.req = Bad, !.status = 0]
  <2>5. pc \in {"header", "drain"}
    OBVIOUS
  <2> HIDE DEF pc
  <2>6. r \in Connection
    BY <2>3, <2>5 DEF Connection
  <2>7. /\ r.pc = pc /\ r.inbox = g.inbox /\ r.owes = g.owes
        /\ r.eof = g.eof /\ r.unread = g.unread /\ r.awaiting = g.awaiting
        /\ r.adrift = g.adrift
    BY <2>3 DEF Connection
  <2> HIDE DEF r
  <2>8. ~r.adrift => Aligned(r) /\ Framed(r)
    BY <1>1, <2>4, <2>5, <2>7 DEF HttpOk, Aligned, Framed, Taken
  <2>9. Excused(r) /\ Answer(r)
    BY <2>5, <2>7 DEF Excused, Answer
  <2>10. HttpOk(r)
    BY <2>4, <2>5, <2>6, <2>7, <2>8, <2>9 DEF HttpOk, Taken
  <2> QED
    BY <2>4, <2>10 DEF r, pc
<1> QED
  BY <1>2, <1>3

\* The connections.
HttpInv == /\ http \in [Conns -> Connection]
           /\ \A c \in Conns : HttpOk(http[c])

\* A step that changes one connection.
LEMMA OneConnection ==
  ASSUME HttpInv, NEW c \in Conns, NEW r, HttpOk(r),
         http' = [http EXCEPT ![c] = r]
  PROVE  HttpInv'
<1>1. r \in Connection
  BY DEF HttpOk
<1>2. http' \in [Conns -> Connection]
  BY <1>1 DEF HttpInv
<1>3. ASSUME NEW d \in Conns PROVE HttpOk(http'[d])
  <2>1. CASE d = c
    BY <2>1 DEF HttpInv
  <2>2. CASE d # c
    BY <2>2 DEF HttpInv
  <2> QED
    BY <2>1, <2>2
<1> QED
  BY <1>2, <1>3 DEF HttpInv

\* What clients do.
LEMMA ClientKeepsHttp ==
  ASSUME HttpInv, NEW c \in Conns, Client(c)
  PROVE  HttpInv' /\ http[c].pc # "upgraded"
                  /\ \A d \in Conns \ {c} : http'[d] = http[d]
<1> DEFINE h == http[c]
<1>1. HttpOk(h)
  BY DEF HttpInv
<1>2. ASSUME NEW req \in Known, SendHead(c, req)
      PROVE  HttpInv' /\ h.pc # "upgraded"
                      /\ \A d \in Conns \ {c} : http'[d] = http[d]
  <2> DEFINE r == [h EXCEPT !.inbox = Append(@, Unit("head", req)),
                            !.awaiting = Append(@, req),
                            !.owes = req.body_follows]
  <2>1. /\ http' = [http EXCEPT ![c] = r] /\ ~h.adrift /\ ~h.eof /\ ~h.owes
        /\ h.pc \notin {"absent", "upgraded"}
    BY <1>2 DEF SendHead, Serving
  <2>2. HttpOk(r)
    BY <1>1, <2>1, SendHeadOk
  <2> HIDE DEF r
  <2>3. HttpInv'
    BY <2>1, <2>2, OneConnection
  <2> QED
    BY <2>1, <2>3 DEF HttpInv
<1>3. ASSUME SendBody(c)
      PROVE  HttpInv' /\ h.pc # "upgraded"
                      /\ \A d \in Conns \ {c} : http'[d] = http[d]
  <2> DEFINE r == [h EXCEPT !.inbox = Append(@, Unit(Body, Bad)), !.owes = FALSE]
  <2>1. /\ http' = [http EXCEPT ![c] = r] /\ ~h.adrift /\ ~h.eof /\ h.owes
        /\ h.pc \notin {"absent", "upgraded"}
    BY <1>3 DEF SendBody, Serving
  <2>2. HttpOk(r)
    BY <1>1, <2>1, SendBodyOk
  <2> HIDE DEF r
  <2>3. HttpInv'
    BY <2>1, <2>2, OneConnection
  <2> QED
    BY <2>1, <2>3 DEF HttpInv
<1>4. ASSUME ClientCloses(c)
      PROVE  HttpInv' /\ h.pc # "upgraded"
                      /\ \A d \in Conns \ {c} : http'[d] = http[d]
  <2> DEFINE r == [h EXCEPT !.inbox = Append(@, Unit(Eof, Bad)), !.eof = TRUE]
  <2>1. /\ http' = [http EXCEPT ![c] = r] /\ ~h.adrift /\ ~h.eof
        /\ h.pc \notin {"absent", "upgraded"}
    BY <1>4 DEF ClientCloses, Serving
  <2>2. HttpOk(r)
    BY <1>1, <2>1, ClientClosesOk
  <2> HIDE DEF r
  <2>3. HttpInv'
    BY <2>1, <2>2, OneConnection
  <2> QED
    BY <2>1, <2>3 DEF HttpInv
<1>5. \/ \E req \in Known : SendHead(c, req)
      \/ SendBody(c)
      \/ ClientCloses(c)
  BY DEF Client, Known
<1> QED
  BY <1>2, <1>3, <1>4, <1>5

\* What do_session does outside route_query.
LEMMA ServeKeepsHttp ==
  ASSUME HttpInv, NEW c \in Conns, HttpStep(c)
  PROVE  HttpInv' /\ http[c].pc # "upgraded"
                  /\ \A d \in Conns \ {c} : http'[d] = http[d]
<1> DEFINE h == http[c]
<1>1. HttpOk(h)
  BY DEF HttpInv
<1>2. HttpOk(Ended("closed"))
  BY EndedOk
<1>3. ASSUME NEW r, HttpOk(r), http' = [http EXCEPT ![c] = r],
             h.pc # "upgraded"
      PROVE  HttpInv' /\ h.pc # "upgraded"
                      /\ \A d \in Conns \ {c} : http'[d] = http[d]
  <2>1. HttpInv'
    BY <1>3, OneConnection
  <2> QED
    BY <1>3, <2>1 DEF HttpInv
<1>4. CASE read_header(c)
  <2>1. h.pc = "header"
    BY <1>4 DEF read_header
  <2>2. CASE ReadHead(c)
    <3> DEFINE unit == Head(h.inbox)
               g == [h EXCEPT !.inbox = Tail(@)]
               r == IF unit.kind = "head" /\ unit.req.framing = "ok"
                    THEN HeadRead(g, unit.req) ELSE [g EXCEPT !.pc = "bad"]
    <3>1. /\ h.inbox # <<>> /\ Head(h.inbox).kind # Body
          /\ http' = [http EXCEPT ![c] = r]
      BY <2>2 DEF ReadHead
    <3>2. HttpOk(r)
      BY <1>1, <2>1, <3>1, HeaderOk
    <3> HIDE DEF r
    <3> QED
      BY <1>3, <2>1, <3>1, <3>2
  <2>3. CASE ReadStray(c)
    <3>1. ~h.adrift => h.inbox # <<>> /\ Head(h.inbox).kind = Body
      BY <2>3 DEF ReadStray
    <3>2. \/ http' = [http EXCEPT ![c] = [Strayed(h.unread) EXCEPT !.pc = "bad"]]
          \/ \E req \in Requests :
                http' = [http EXCEPT ![c] = HeadRead(Strayed(h.unread), req)]
      BY <2>3 DEF ReadStray, Strayed
    <3>3. PICK r : HttpOk(r) /\ http' = [http EXCEPT ![c] = r]
      BY <1>1, <2>1, <3>1, <3>2, StrayOk
    <3> QED
      BY <1>3, <2>1, <3>3
  <2> QED
    BY <1>4, <2>2, <2>3 DEF read_header
<1>5. CASE read_body(c)
  <2>1. h.pc = "body"
    BY <1>5 DEF read_body
  <2>2. CASE h.inbox # <<>> /\
             http' = [http EXCEPT ![c] =
                        [h EXCEPT !.inbox = Tail(@),
                                  !.pc = IF Head(h.inbox).kind = Body
                                         THEN "routing" ELSE "bad"]]
    <3> DEFINE r == [h EXCEPT !.inbox = Tail(@),
                              !.pc = IF Head(h.inbox).kind = Body
                                     THEN "routing" ELSE "bad"]
    <3>1. HttpOk(r)
      BY <1>1, <2>1, <2>2, BodyOk
    <3>2. http' = [http EXCEPT ![c] = r]
      BY <2>2
    <3> HIDE DEF r
    <3> QED
      BY <1>3, <2>1, <3>1, <3>2
  <2>3. ASSUME h.adrift, NEW pc \in {"routing", "bad"},
               http' = [http EXCEPT ![c] = [h EXCEPT !.pc = pc]]
        PROVE  HttpInv' /\ h.pc # "upgraded"
                        /\ \A d \in Conns \ {c} : http'[d] = http[d]
    <3> DEFINE r == [h EXCEPT !.pc = pc]
    <3>1. HttpOk(r)
      BY <1>1, <2>1, <2>3, StrayBodyOk
    <3>2. http' = [http EXCEPT ![c] = r]
      BY <2>3
    <3> HIDE DEF r
    <3> QED
      BY <1>3, <2>1, <3>1, <3>2
  <2> QED
    BY <1>5, <2>2, <2>3 DEF read_body
<1>6. CASE Timeout(c)
  BY <1>2, <1>3, <1>6 DEF Timeout, Waiting
<1>7. CASE handle_bad_request(c)
  BY <1>2, <1>3, <1>7 DEF handle_bad_request
<1>8. CASE process_single_request(c)
  <2>1. h.pc = "write"
    BY <1>8 DEF process_single_request
  <2>2. PICK g \in do_write_response(h) :
           http' = [http EXCEPT ![c] =
             IF g.pc = "closed" THEN g
             ELSE [g EXCEPT !.pc = IF g.req.keep_alive THEN "header" ELSE "drain",
                            !.req = Bad, !.status = 0]]
    BY <1>8 DEF process_single_request
  <2> DEFINE r == IF g.pc = "closed" THEN g
                  ELSE [g EXCEPT !.pc = IF g.req.keep_alive THEN "header"
                                        ELSE "drain",
                                 !.req = Bad, !.status = 0]
  <2>3. HttpOk(r)
    BY <1>1, <2>1, AnsweredOk
  <2>4. http' = [http EXCEPT ![c] = r]
    BY <2>2
  <2> HIDE DEF r
  <2> QED
    BY <1>3, <2>1, <2>3, <2>4
<1>9. CASE do_graceful_close(c)
  BY <1>2, <1>3, <1>9 DEF do_graceful_close
<1> QED
  BY <1>4, <1>5, <1>6, <1>7, <1>8, <1>9 DEF HttpStep

LEMMA AcceptKeepsHttp ==
  ASSUME HttpInv, NEW c \in Conns, Accept(c)
  PROVE  HttpInv' /\ http[c].pc # "upgraded"
                  /\ \A d \in Conns \ {c} : http'[d] = http[d]
<1> DEFINE h == http[c]
           r == [h EXCEPT !.pc = "header"]
<1>1. h.pc = "absent" /\ http' = [http EXCEPT ![c] = r]
  BY DEF Accept
<1>2. HttpOk(r)
  BY <1>1, AcceptedOk DEF HttpInv
<1> HIDE DEF r
<1>3. HttpInv'
  BY <1>1, <1>2, OneConnection
<1> QED
  BY <1>1, <1>3 DEF HttpInv

LEMMA RouteKeepsHttp ==
  ASSUME HttpInv, NEW c \in Conns, LeaveRoute(c)
  PROVE  HttpInv' /\ \A d \in Conns \ {c} : http'[d] = http[d]
<1> DEFINE h == http[c]
<1>1. h.pc = "routing"
  BY DEF LeaveRoute
<1>2. PICK outcome \in route_query(h.req, reg.live, reg.running) :
         http' = [http EXCEPT ![c] = Routed(h, outcome)]
  BY DEF LeaveRoute, HttpInv
<1>3. HttpOk(Routed(h, outcome))
  BY <1>1, RoutedOk DEF HttpInv
<1>4. HttpInv'
  BY <1>2, <1>3, OneConnection
<1> QED
  BY <1>2, <1>4 DEF HttpInv

LEMMA HttpStart == Init => HttpInv
<1>1. HttpOk(Ended("absent"))
  BY EndedOk
<1>2. Ended("absent") \in Connection
  BY <1>1 DEF HttpOk
<1> QED
  BY <1>1, <1>2 DEF Init, HttpInit, HttpInv

\* The steps that leave the connections alone.
LEMMA HttpNext == HttpInv /\ [Next]_vars => HttpInv'
<1> SUFFICES ASSUME HttpInv, [Next]_vars PROVE HttpInv'
  OBVIOUS
<1>1. ASSUME UNCHANGED http PROVE HttpInv'
  BY <1>1 DEF HttpInv
<1>2. ASSUME NEW c \in Conns, Accept(c) \/ Client(c) \/ Serve(c) \/ LeaveRoute(c)
      PROVE  HttpInv'
  BY <1>2, AcceptKeepsHttp, ClientKeepsHttp, ServeKeepsHttp, RouteKeepsHttp
     DEF Serve
<1>3. ASSUME NEW c \in Conns,
             Leave(c) \/ WriteMessages(c) \/ SessionStep(c) \/ Tell(c)
      PROVE  UNCHANGED http
  BY <1>3 DEF Leave, WriteMessages, SessionStep, Tell, StartSession,
              FinishSession, RemoveAtEnd
<1>4. ASSUME ShutDown PROVE UNCHANGED http
  BY <1>4 DEF ShutDown, Stop, DestroyServer, DestroyMainContext
<1>5. CASE UNCHANGED vars
  BY <1>1, <1>5 DEF vars
<1> QED
  BY <1>1, <1>2, <1>3, <1>4, <1>5 DEF Next

\* However requests are pipelined, the request that is served is the oldest
\* the client waits for and the others are unread, each once; only a client
\* that closed or a head that is none gets a 400 for something else than a
\* request; and the framing is lost only behind the body of an OPTIONS request.
\* A 200 to a new session is for a graph that can be played even then.
THEOREM AnswersInOrder == Spec => []AnswersMatch
<1>1. HttpInv => AnswersMatch
  <2> SUFFICES ASSUME HttpInv, NEW c \in Conns
               PROVE  LET h == http[c]
                      IN  /\ h.adrift => h.unread
                          /\ ~h.adrift =>
                               /\ h.pc = "header" => HeadsAre(h.inbox, h.awaiting)
                               /\ h.pc \in {"body", "routing", "write"} =>
                                    /\ h.awaiting # <<>>
                                    /\ Head(h.awaiting) = h.req
                                    /\ HeadsAre(h.inbox, Tail(h.awaiting))
                               /\ h.pc = "bad" =>
                                    \/ h.eof
                                    \/ h.awaiting # <<>>
                                         /\ Head(h.awaiting).framing # "ok"
                          /\ (/\ h.pc = "write" /\ h.status = 200
                              /\ h.req.method = "POST"
                              /\ h.req.path \in Sessions)
                               => Playable(h.req.body.flow)
    BY DEF AnswersMatch
  <2>1. \A b, w : Match(b, w) => HeadsAre(b, w)
    BY Zenon DEF Match, MatchAt, HeadsAre
  <2> DEFINE h == http[c]
  <2>2. HttpOk(h)
    BY DEF HttpInv
  <2> HIDE DEF h
  <2>3. h.adrift => h.unread
    BY <2>2 DEF HttpOk
  <2>4. ~h.adrift => Aligned(h) /\ Excused(h)
    BY <2>2 DEF HttpOk
  <2>5. Answer(h)
    BY <2>2 DEF HttpOk
  <2> QED
    BY <2>1, <2>3, <2>4, <2>5 DEF Aligned, Excused, Answer, Taken, h
<1> QED
  BY <1>1, HttpStart, HttpNext, PTL DEF Spec

-----------------------------------------------------------------------------
(* The WebSockets of all connections.                                      *)

SocketsInv == /\ ws \in [Conns -> Socket]
              /\ due \in [Conns -> Nat]
              /\ \A c \in Conns : SocketOk(ws[c], due[c])

\* The connections that became WebSockets.
Accepted == {c \in Conns : ws[c].status # "none"}

Registry == [created : Nat, live : SUBSET Ids, running : SUBSET Ids,
             sockets : [Ids -> Conns \cup {NoConn}],
             observer : [Ids -> Conns \cup {NoConn}]]
Coroutine == [at : {"none", "spawned", "running", "ended", "over"}, id : Nat]

\* do_session is done with a WebSocket's connection; the registry and the
\* sessions know no other WebSockets, and a session that was started has one.
LinkInv ==
    /\ \A c \in Accepted : http[c].pc = "upgraded"
    /\ reg \in Registry
    /\ \A id \in Ids : /\ reg.sockets[id] \in Accepted \cup {NoConn}
                       /\ reg.observer[id] \in Accepted \cup {NoConn}
    /\ coro \in [Conns -> Coroutine]
    /\ \A c \in Conns : coro[c].at # "none" =>
          coro[c].id \in Ids /\ reg.observer[coro[c].id] \in Accepted

\* A step of one WebSocket.
LEMMA OneSocket ==
  ASSUME SocketsInv, NEW c \in Conns, NEW r, NEW m, SocketOk(r, m),
         ws' = [ws EXCEPT ![c] = r], due' = [due EXCEPT ![c] = m]
  PROVE  /\ SocketsInv'
         /\ r.status # "none" => Accepted' = Accepted \cup {c}
<1>1. r \in Socket /\ m \in Nat
  BY DEF SocketOk
<1>2. ws' \in [Conns -> Socket] /\ due' \in [Conns -> Nat]
  BY <1>1 DEF SocketsInv
<1>3. \A d \in Conns : /\ ws'[d] = IF d = c THEN r ELSE ws[d]
                       /\ due'[d] = IF d = c THEN m ELSE due[d]
  BY DEF SocketsInv
<1>4. \A d \in Conns : SocketOk(ws'[d], due'[d])
  BY <1>3 DEF SocketsInv
<1>5. SocketsInv'
  BY <1>2, <1>4 DEF SocketsInv
<1>6. ASSUME r.status # "none" PROVE Accepted' = Accepted \cup {c}
  BY <1>3, <1>6 DEF Accepted
<1> QED
  BY <1>5, <1>6

\* The same when the client is owed nothing new.
LEMMA SocketStep ==
  ASSUME SocketsInv, NEW c \in Accepted, NEW r, SocketOk(r, due[c]),
         r.status # "none", ws' = [ws EXCEPT ![c] = r], UNCHANGED due
  PROVE  SocketsInv' /\ Accepted' = Accepted
<1>1. c \in Conns
  BY DEF Accepted
<1>2. due' = [due EXCEPT ![c] = due[c]]
  BY <1>1 DEF SocketsInv
<1> DEFINE m == due[c]
<1>3. SocketOk(r, m) /\ due' = [due EXCEPT ![c] = m]
  BY <1>2
<1> HIDE DEF m
<1>4. SocketsInv' /\ Accepted' = Accepted \cup {c}
  BY <1>1, <1>3, OneSocket
<1> QED
  BY <1>4

\* What the executor of a WebSocket runs.
LEMMA WsStepKeeps ==
  ASSUME SocketsInv, NEW c \in Conns, WsStep(c), UNCHANGED due
  PROVE  SocketsInv' /\ Accepted' = Accepted
<1> DEFINE s == ws[c]
           m == due[c]
<1>1. SocketOk(s, m) /\ s \in Socket
  BY DEF SocketsInv, SocketOk
<1>2. s.status # "none" => c \in Accepted
  BY DEF Accepted
<1>3. CASE on_accept(c)
  <2>1. s.status = "handshake"
    BY <1>3 DEF on_accept
  <2>2. \/ ws' = [ws EXCEPT ![c] = [s EXCEPT !.status = "open"]]
        \/ ws' = [ws EXCEPT ![c] = [s EXCEPT !.status = "failed", !.gone = TRUE]]
    BY <1>3 DEF on_accept, SocketsInv
  <2>3. /\ SocketOk([s EXCEPT !.status = "open"], m)
        /\ SocketOk([s EXCEPT !.status = "failed", !.gone = TRUE], m)
    BY <1>1, <2>1, HandshakeOk
  <2>4. /\ [s EXCEPT !.status = "open"].status # "none"
        /\ [s EXCEPT !.status = "failed", !.gone = TRUE].status # "none"
    BY <1>1 DEF Socket
  <2>5. c \in Accepted
    BY <1>2, <2>1
  <2> HIDE DEF s
  <2>6. CASE ws' = [ws EXCEPT ![c] = [s EXCEPT !.status = "open"]]
    BY <2>3, <2>4, <2>5, <2>6, SocketStep
  <2>7. CASE ws' = [ws EXCEPT ![c] = [s EXCEPT !.status = "failed", !.gone = TRUE]]
    BY <2>3, <2>4, <2>5, <2>7, SocketStep
  <2> QED
    BY <2>2, <2>6, <2>7
<1>4. CASE Enqueue(c)
  <2> DEFINE R == LET queued == [s EXCEPT !.posted = Tail(@),
                                          !.send_queue_ = Append(@, Head(s.posted))]
                  IN  IF s.send_queue_ = <<>> THEN do_write(queued) ELSE {queued}
  <2>1. s.posted # <<>> /\ Head(s.posted) # 0
    BY <1>4 DEF Enqueue, Close
  <2>2. PICK r \in R : ws' = [ws EXCEPT ![c] = r]
    BY <1>4 DEF Enqueue
  <2>3. SocketOk(r, m) /\ r.status = s.status
    BY <1>1, <2>1, <2>2, EnqueueOk
  <2>4. s.status # "none"
    BY <1>1, <2>1 DEF SocketOk, WriteOk
  <2> QED
    BY <1>2, <2>2, <2>3, <2>4, SocketStep
<1>5. CASE StartClose(c)
  <2> DEFINE next == [s EXCEPT !.posted = Tail(@)]
  <2>1. /\ s.posted # <<>> /\ Head(s.posted) = 0
        /\ \/ /\ s.status \in {"handshake", "open"}
              /\ ws' = [ws EXCEPT ![c] = async_close(next)]
           \/ s.status # "open" /\ ws' = [ws EXCEPT ![c] = next]
    BY <1>1, <1>5 DEF StartClose, Close, Socket
  <2>2. /\ s.status \in {"handshake", "open"} => SocketOk(async_close(next), m)
        /\ s.status # "open" => SocketOk(next, m)
        /\ s.status # "none"
    BY <1>1, <2>1, StartCloseOk
  <2>3. next.status = s.status
    BY <1>1 DEF Socket
  <2>4. s.status \in {"handshake", "open"} => async_close(next).status # "none"
    BY <1>1, <2>2 DEF async_close, Socket
  <2> HIDE DEF next
  <2> QED
    BY <1>2, <2>1, <2>2, <2>3, <2>4, SocketStep
<1>6. CASE Written(c)
  <2>1. s.write = "flight"
    BY <1>6 DEF Written
  <2>2. PICK r \in AfterWritten(s) : ws' = [ws EXCEPT ![c] = r]
    BY <1>6 DEF Written, AfterWritten, Delivered
  <2>3. SocketOk(r, m) /\ r.status # "none"
    BY <1>1, <2>1, <2>2, WrittenOk
  <2>4. s.status # "none"
    BY <1>1, <2>1 DEF SocketOk, WriteOk
  <2> QED
    BY <1>2, <2>2, <2>3, <2>4, SocketStep
<1>7. CASE WriteFails(c)
  <2> DEFINE r == [s EXCEPT !.write = "none"]
  <2>1. /\ s.write = "aborted" \/ (s.write = "flight" /\ s.gone)
        /\ ws' = [ws EXCEPT ![c] = r]
    BY <1>7 DEF WriteFails
  <2>2. SocketOk(r, m) /\ r.status = s.status
    BY <1>1, <2>1, WriteFailsOk DEF Socket
  <2>3. s.status # "none"
    BY <1>1, <2>1 DEF SocketOk, WriteOk
  <2> HIDE DEF r
  <2> QED
    BY <1>2, <2>1, <2>2, <2>3, SocketStep
<1>8. CASE Closed(c)
  <2> DEFINE r == [s EXCEPT !.status = "closed"]
  <2>1. s.status = "closing" /\ ws' = [ws EXCEPT ![c] = r]
    BY <1>8 DEF Closed
  <2>2. SocketOk(r, m)
    BY <1>1, <2>1, ClosedOk
  <2>3. r.status = "closed"
    BY <1>1 DEF Socket
  <2> HIDE DEF r
  <2> QED
    BY <1>2, <2>1, <2>2, <2>3, SocketStep
<1> QED
  BY <1>3, <1>4, <1>5, <1>6, <1>7, <1>8 DEF WsStep

LEMMA LeaveKeeps ==
  ASSUME SocketsInv, NEW c \in Conns, ClientLeaves(c), UNCHANGED due
  PROVE  SocketsInv' /\ Accepted' = Accepted
<1> DEFINE s == ws[c]
           r == [s EXCEPT !.status = "failed", !.gone = TRUE]
<1>1. SocketOk(s, due[c]) /\ s \in Socket
  BY DEF SocketsInv, SocketOk
<1>2. s.status = "open" /\ ws' = [ws EXCEPT ![c] = r]
  BY DEF ClientLeaves, SocketsInv
<1>3. SocketOk(r, due[c])
  BY <1>1, <1>2, GoneOk
<1>4. r.status = "failed"
  BY <1>1 DEF Socket
<1>5. c \in Accepted
  BY <1>2 DEF Accepted
<1> HIDE DEF r
<1> QED
  BY <1>2, <1>3, <1>4, <1>5, SocketStep

\* The registry closes the WebSocket of a session, if it has one.
LEMMA CloseKeeps ==
  ASSUME SocketsInv, LinkInv, NEW id \in Ids, CloseSocket(id), UNCHANGED due
  PROVE  SocketsInv' /\ Accepted' = Accepted
<1>1. CASE reg.sockets[id] = NoConn
  <2>1. UNCHANGED ws
    BY <1>1 DEF CloseSocket
  <2> QED
    BY <2>1 DEF SocketsInv, Accepted
<1>2. CASE reg.sockets[id] # NoConn
  <2> DEFINE c == reg.sockets[id]
  <2>1. c \in Accepted
    BY <1>2 DEF LinkInv
  <2>2. ws' = [ws EXCEPT ![c] = close(ws[c])]
    BY <1>2 DEF CloseSocket
  <2>3. SocketOk(ws[c], due[c]) /\ ws[c].status # "none"
    BY <2>1 DEF SocketsInv, Accepted
  <2>4. SocketOk(close(ws[c]), due[c]) /\ close(ws[c]).status # "none"
    BY <2>3, CloseOk
  <2> HIDE DEF c
  <2> QED
    BY <2>1, <2>2, <2>4, SocketStep
<1> QED
  BY <1>1, <1>2

\* A session tells its observer something.
LEMMA TellKeeps ==
  ASSUME SocketsInv, NEW c \in Accepted, ws' = [ws EXCEPT ![c] = send(@)],
         UNCHANGED due
  PROVE  SocketsInv' /\ Accepted' = Accepted
<1>1. SocketOk(ws[c], due[c]) /\ ws[c].status # "none"
  BY DEF SocketsInv, Accepted
<1>2. SocketOk(send(ws[c]), due[c]) /\ send(ws[c]).status # "none"
  BY <1>1, SendOk
<1> QED
  BY <1>2, SocketStep

\* The last thing it tells is owed to a client that had all before it.
LEMMA LastKeeps ==
  ASSUME SocketsInv, NEW c \in Accepted,
         ws' = [ws EXCEPT ![c] = send(@)],
         due' = [due EXCEPT ![c] =
                   IF /\ ws[c].status = "open" /\ ~ws[c].closing
                      /\ ws[c].posted = <<>> /\ ws[c].send_queue_ = <<>>
                   THEN ws[c].sent + 1 ELSE @]
  PROVE  SocketsInv' /\ Accepted' = Accepted
<1> DEFINE m == IF /\ ws[c].status = "open" /\ ~ws[c].closing
                   /\ ws[c].posted = <<>> /\ ws[c].send_queue_ = <<>>
                THEN ws[c].sent + 1 ELSE due[c]
<1>1. SocketOk(ws[c], due[c]) /\ ws[c].status # "none" /\ c \in Conns
  BY DEF SocketsInv, Accepted
<1>2. SocketOk(send(ws[c]), m) /\ send(ws[c]).status # "none"
  BY <1>1, SendOk
<1>3. due' = [due EXCEPT ![c] = m]
  OBVIOUS
<1> HIDE DEF m
<1>4. SocketsInv' /\ Accepted' = Accepted \cup {c}
  BY <1>1, <1>2, <1>3, OneSocket
<1> QED
  BY <1>4

-----------------------------------------------------------------------------
(* The registry and the sessions.                                          *)

\* A step that accepts no WebSocket and starts no session keeps LinkInv when
\* it leaves the observers alone.
LEMMA LinkStep ==
  ASSUME LinkInv, Accepted' = Accepted,
         \A c \in Accepted : http'[c].pc = "upgraded",
         reg' \in Registry, reg'.observer = reg.observer,
         \A id \in Ids : reg'.sockets[id] \in {reg.sockets[id], NoConn},
         coro' \in [Conns -> Coroutine],
         \A c \in Conns : /\ coro'[c].at # "none" => coro[c].at # "none"
                          /\ coro'[c].id = coro[c].id
  PROVE  LinkInv'
<1>1. \A c \in Accepted' : http'[c].pc = "upgraded"
  OBVIOUS
<1>2. \A id \in Ids : /\ reg'.sockets[id] \in Accepted' \cup {NoConn}
                      /\ reg'.observer[id] \in Accepted' \cup {NoConn}
  BY DEF LinkInv
<1>3. \A c \in Conns : coro'[c].at # "none" =>
         coro'[c].id \in Ids /\ reg'.observer[coro'[c].id] \in Accepted'
  BY DEF LinkInv
<1> QED
  BY <1>1, <1>2, <1>3 DEF LinkInv

\* A step of one coroutine that is there.
LEMMA CoroutineStep ==
  ASSUME LinkInv, NEW c \in Conns, coro[c].at # "none",
         NEW at \in {"running", "ended", "over"},
         coro' = [coro EXCEPT ![c].at = at]
  PROVE  /\ coro' \in [Conns -> Coroutine]
         /\ \A d \in Conns : /\ coro'[d].at # "none" => coro[d].at # "none"
                             /\ coro'[d].id = coro[d].id
<1>1. coro \in [Conns -> Coroutine] /\ coro[c] \in Coroutine
  BY DEF LinkInv
<1> DEFINE k == [coro[c] EXCEPT !.at = at]
<1>2. k \in Coroutine /\ k.id = coro[c].id
  BY <1>1 DEF Coroutine
<1>3. coro' = [coro EXCEPT ![c] = k]
  OBVIOUS
<1> HIDE DEF k
<1> QED
  BY <1>1, <1>2, <1>3

\* remove_session.
LEMMA RemovedIs ==
  ASSUME LinkInv, NEW id \in Ids, reg' = Removed(id)
  PROVE  /\ reg' \in Registry /\ reg'.observer = reg.observer
         /\ \A i \in Ids : reg'.sockets[i] \in {reg.sockets[i], NoConn}
<1>1. reg \in Registry
  BY DEF LinkInv
<1> DEFINE sockets == [reg.sockets EXCEPT ![id] = NoConn]
<1>2. /\ sockets \in [Ids -> Conns \cup {NoConn}]
      /\ \A i \in Ids : sockets[i] \in {reg.sockets[i], NoConn}
  BY <1>1 DEF Registry
<1>3. reg' = [reg EXCEPT !.live = @ \ {id}, !.running = @ \ {id},
                         !.sockets = sockets]
  BY DEF Removed
<1> HIDE DEF sockets
<1>4. reg.live \ {id} \in SUBSET Ids /\ reg.running \ {id} \in SUBSET Ids
  BY <1>1 DEF Registry
<1>5. reg' \in Registry /\ reg'.observer = reg.observer /\ reg'.sockets = sockets
  BY <1>1, <1>2, <1>3, <1>4 DEF Registry
<1> QED
  BY <1>2, <1>5

\* The registry and the coroutines stay as they are.
LEMMA LinkKept ==
  ASSUME LinkInv, Accepted' = Accepted, UNCHANGED <<reg, coro>>,
         \A c \in Accepted : http'[c].pc = "upgraded"
  PROVE  LinkInv'
BY DEF LinkInv

WsInv == HttpInv /\ SocketsInv /\ LinkInv

\* The outcome of route_query.
LEMMA RouteKeeps ==
  ASSUME WsInv, NEW c \in Conns, LeaveRoute(c)
  PROVE  SocketsInv' /\ LinkInv'
<1> DEFINE req == http[c].req
           id == req.id
<1>1. http[c].pc = "routing" /\ UNCHANGED due /\ SocketsInv /\ LinkInv
  BY DEF LeaveRoute, WsInv
<1>2. PICK outcome \in route_query(req, reg.live, reg.running) :
         /\ outcome.effect = "create" => reg.created < MaxSessions
         /\ Effect(c, outcome)
         /\ http' = [http EXCEPT ![c] = Routed(@, outcome)]
  BY DEF LeaveRoute
<1>3. req \in Known
  BY <1>1 DEF WsInv, HttpInv, HttpOk, Aligned, Taken
<1>4. /\ outcome.effect = "connect" => req.upgrade /\ id \in reg.live
      /\ outcome.effect = "stop" => id \in reg.live
  BY <1>3, Outcomes DEF Known
<1>5. /\ reg \in Registry /\ reg.live \in SUBSET Ids
      /\ coro \in [Conns -> Coroutine] /\ reg.created \in Nat
  BY <1>1 DEF LinkInv, Registry
<1>6. c \notin Accepted
  BY <1>1 DEF LinkInv
<1>7. \A d \in Conns \ {c} : http'[d] = http[d]
  BY <1>2 DEF WsInv, HttpInv
<1>8. \A d \in Accepted : http'[d].pc = "upgraded"
  BY <1>1, <1>6, <1>7 DEF LinkInv, Accepted
<1>9. \A d \in Conns : /\ coro[d].at # "none" => coro[d].at # "none"
                       /\ coro[d].id = coro[d].id
  OBVIOUS
<1> HIDE DEF req, id
<1>10. ASSUME UNCHANGED ws PROVE SocketsInv' /\ Accepted' = Accepted
  BY <1>1, <1>10 DEF SocketsInv, Accepted
<1>11. CASE outcome.effect = "create"
  <2>1. /\ UNCHANGED <<ws, coro>>
        /\ reg' = [reg EXCEPT !.created = @ + 1,
                              !.live = @ \cup {reg.created + 1}]
    BY <1>2, <1>11 DEF Effect
  <2>2. reg.created < MaxSessions
    BY <1>2, <1>11
  <2>3. reg.created + 1 \in Ids /\ reg.created + 1 \in Nat
    BY <1>5, <2>2, BoundAssumption DEF Ids
  <2> DEFINE live == reg.live \cup {reg.created + 1}
  <2>4. live \in SUBSET Ids
    BY <1>5, <2>3
  <2> HIDE DEF live
  <2>5. reg' = [reg EXCEPT !.created = @ + 1, !.live = live]
    BY <2>1 DEF live
  <2>6. reg' \in Registry /\ reg'.observer = reg.observer
        /\ reg'.sockets = reg.sockets
    BY <1>5, <2>3, <2>4, <2>5 DEF Registry
  <2>7. SocketsInv' /\ Accepted' = Accepted
    BY <1>10, <2>1
  <2>8. coro' \in [Conns -> Coroutine] /\ coro' = coro
    BY <1>5, <2>1
  <2>9. LinkInv'
    BY <1>1, <1>8, <2>6, <2>7, <2>8, LinkStep
  <2> QED
    BY <2>7, <2>9
<1>12. CASE outcome.effect = "connect"
  <2>1. /\ ws' = [ws EXCEPT ![c] = do_accept(@)]
        /\ reg' = [reg EXCEPT !.sockets = [@ EXCEPT ![id] = c],
                              !.observer = [@ EXCEPT ![id] = c]]
        /\ coro' = [coro EXCEPT ![c] = [at |-> "spawned", id |-> id]]
    BY <1>2, <1>12 DEF Effect, id, req
  <2>2. id \in Ids /\ req.upgrade
    BY <1>4, <1>5, <1>12
  <2>3. SocketOk(ws[c], due[c]) /\ ws[c].status = "none"
    BY <1>1, <1>6 DEF SocketsInv, Accepted
  <2> DEFINE r == do_accept(ws[c])
             m == due[c]
  <2>4. SocketOk(r, m) /\ r.status = "handshake"
    BY <2>3, AcceptOk
  <2>5. ws' = [ws EXCEPT ![c] = r] /\ due' = [due EXCEPT ![c] = m]
    BY <1>1, <2>1 DEF SocketsInv
  <2> HIDE DEF r, m
  <2>6. SocketsInv' /\ Accepted' = Accepted \cup {c}
    BY <1>1, <2>4, <2>5, OneSocket
  <2>7. Routed(http[c], outcome) = Ended("upgraded")
    BY <1>12, <2>2 DEF Routed, req
  <2>8. http'[c].pc = "upgraded"
    <3>1. http'[c] = Ended("upgraded")
      BY <1>2, <2>7 DEF WsInv, HttpInv
    <3> QED
      BY <3>1, EndedOk
  <2>9. \A d \in Accepted' : http'[d].pc = "upgraded"
    BY <1>8, <2>6, <2>8
  <2> DEFINE sockets == [reg.sockets EXCEPT ![id] = c]
             observer == [reg.observer EXCEPT ![id] = c]
  <2>10. /\ sockets \in [Ids -> Conns \cup {NoConn}]
         /\ observer \in [Ids -> Conns \cup {NoConn}]
         /\ \A i \in Ids : /\ sockets[i] \in {reg.sockets[i], c}
                           /\ observer[i] \in {reg.observer[i], c}
         /\ observer[id] = c
    BY <1>5, <2>2 DEF Registry
  <2>11. reg' = [reg EXCEPT !.sockets = sockets, !.observer = observer]
    BY <2>1
  <2> HIDE DEF sockets, observer
  <2>12. /\ reg' \in Registry /\ reg'.sockets = sockets
         /\ reg'.observer = observer
    BY <1>5, <2>10, <2>11 DEF Registry
  <2>13. \A i \in Ids : /\ reg'.sockets[i] \in Accepted' \cup {NoConn}
                        /\ reg'.observer[i] \in Accepted' \cup {NoConn}
    BY <1>1, <2>6, <2>10, <2>12 DEF LinkInv
  <2> DEFINE k == [at |-> "spawned", id |-> id]
  <2>14. k \in Coroutine /\ k.id = id
    <3>1. id \in Nat
      BY <2>2, BoundAssumption DEF Ids
    <3> QED
      BY <3>1 DEF Coroutine
  <2> HIDE DEF k
  <2>15. coro' = [coro EXCEPT ![c] = k]
    BY <2>1 DEF k
  <2>16. coro' \in [Conns -> Coroutine]
    BY <1>5, <2>14, <2>15
  <2>17. ASSUME NEW d \in Conns, coro'[d].at # "none"
         PROVE  coro'[d].id \in Ids /\ reg'.observer[coro'[d].id] \in Accepted'
    <3>1. CASE d = c
      BY <1>5, <2>2, <2>6, <2>10, <2>12, <2>14, <2>15, <3>1
    <3>2. CASE d # c
      <4>1. coro'[d] = coro[d]
        BY <1>5, <2>15, <3>2
      <4>2. coro[d].id \in Ids /\ reg.observer[coro[d].id] \in Accepted
        BY <1>1, <2>17, <4>1 DEF LinkInv
      <4> QED
        BY <2>6, <2>10, <2>12, <4>1, <4>2
    <3> QED
      BY <3>1, <3>2
  <2> QED
    BY <2>6, <2>9, <2>12, <2>13, <2>16, <2>17 DEF LinkInv
<1>13. CASE outcome.effect = "stop"
  <2>1. reg' = Removed(id) /\ CloseSocket(id) /\ UNCHANGED coro
    BY <1>2, <1>13 DEF Effect, id, req
  <2>2. id \in Ids
    BY <1>4, <1>5, <1>13
  <2>3. SocketsInv' /\ Accepted' = Accepted
    BY <1>1, <2>1, <2>2, CloseKeeps
  <2>4. /\ reg' \in Registry /\ reg'.observer = reg.observer
        /\ \A i \in Ids : reg'.sockets[i] \in {reg.sockets[i], NoConn}
    BY <1>1, <2>1, <2>2, RemovedIs
  <2>5. coro' \in [Conns -> Coroutine] /\ coro' = coro
    BY <1>5, <2>1
  <2>6. LinkInv'
    BY <1>1, <1>8, <2>3, <2>4, <2>5, LinkStep
  <2> QED
    BY <2>3, <2>6
<1>14. CASE outcome.effect \notin {"create", "connect", "stop"}
  <2>1. UNCHANGED <<reg, ws, coro>>
    BY <1>2, <1>14 DEF Effect
  <2>2. SocketsInv' /\ Accepted' = Accepted
    BY <1>10, <2>1
  <2>3. LinkInv'
    BY <1>1, <1>8, <2>1, <2>2, LinkKept
  <2> QED
    BY <2>2, <2>3
<1> QED
  BY <1>11, <1>12, <1>13, <1>14

\* The coroutine of a session.
LEMMA SessionKeeps ==
  ASSUME SocketsInv, LinkInv, NEW c \in Conns, SessionStep(c)
  PROVE  SocketsInv' /\ LinkInv'
<1>1. UNCHANGED http
  BY DEF SessionStep, StartSession, FinishSession, RemoveAtEnd
<1>2. \A d \in Accepted : http'[d].pc = "upgraded"
  BY <1>1 DEF LinkInv
<1>3. reg \in Registry /\ coro \in [Conns -> Coroutine]
  BY DEF LinkInv
<1>4. coro[c].at # "none"
  BY DEF SessionStep, StartSession, FinishSession, RemoveAtEnd
<1>5. coro[c].id \in Ids /\ reg.observer[coro[c].id] \in Accepted
  BY <1>4 DEF LinkInv
<1>6. ASSUME NEW running \in SUBSET Ids, reg' = [reg EXCEPT !.running = running]
      PROVE  /\ reg' \in Registry /\ reg'.observer = reg.observer
             /\ \A i \in Ids : reg'.sockets[i] \in {reg.sockets[i], NoConn}
  BY <1>3, <1>6 DEF Registry
<1>7. reg.running \in SUBSET Ids
  BY <1>3 DEF Registry
<1>8. CASE StartSession(c)
  <2>1. /\ coro' = [coro EXCEPT ![c].at = "running"] /\ UNCHANGED <<ws, due>>
        /\ reg' = [reg EXCEPT !.running = @ \cup {coro[c].id}]
    BY <1>8 DEF StartSession
  <2>2. SocketsInv' /\ Accepted' = Accepted
    BY <2>1 DEF SocketsInv, Accepted
  <2>3. reg.running \cup {coro[c].id} \in SUBSET Ids
    BY <1>5, <1>7
  <2>4. /\ reg' \in Registry /\ reg'.observer = reg.observer
        /\ \A i \in Ids : reg'.sockets[i] \in {reg.sockets[i], NoConn}
    BY <1>6, <2>1, <2>3
  <2>5. LinkInv'
    BY <1>2, <1>4, <2>1, <2>2, <2>4, CoroutineStep, LinkStep
  <2> QED
    BY <2>2, <2>5
<1>9. CASE FinishSession(c)
  <2> DEFINE w == reg.observer[coro[c].id]
  <2>1. /\ coro' = [coro EXCEPT ![c].at = "ended"]
        /\ reg' = [reg EXCEPT !.running = @ \ {coro[c].id}]
        /\ ws' = [ws EXCEPT ![w] = send(@)]
        /\ due' = [due EXCEPT ![w] =
                     IF /\ ws[w].status = "open" /\ ~ws[w].closing
                        /\ ws[w].posted = <<>> /\ ws[w].send_queue_ = <<>>
                     THEN ws[w].sent + 1 ELSE @]
    BY <1>9 DEF FinishSession
  <2>2. w \in Accepted
    BY <1>5
  <2> HIDE DEF w
  <2>3. SocketsInv' /\ Accepted' = Accepted
    BY <2>1, <2>2, LastKeeps
  <2>4. reg.running \ {coro[c].id} \in SUBSET Ids
    BY <1>7
  <2>5. /\ reg' \in Registry /\ reg'.observer = reg.observer
        /\ \A i \in Ids : reg'.sockets[i] \in {reg.sockets[i], NoConn}
    BY <1>6, <2>1, <2>4
  <2>6. LinkInv'
    BY <1>2, <1>4, <2>1, <2>3, <2>5, CoroutineStep, LinkStep
  <2> QED
    BY <2>3, <2>6
<1>10. CASE RemoveAtEnd(c)
  <2> DEFINE id == coro[c].id
  <2>1. /\ coro' = [coro EXCEPT ![c].at = "over"] /\ UNCHANGED due
        /\ \/ reg' = Removed(id) /\ CloseSocket(id)
           \/ UNCHANGED <<reg, ws>>
    BY <1>10 DEF RemoveAtEnd
  <2>2. id \in Ids
    BY <1>5
  <2> HIDE DEF id
  <2>3. SocketsInv' /\ Accepted' = Accepted
    <3>1. CASE CloseSocket(id)
      BY <2>1, <2>2, <3>1, CloseKeeps
    <3>2. CASE UNCHANGED ws
      BY <2>1, <3>2 DEF SocketsInv, Accepted
    <3> QED
      BY <2>1, <3>1, <3>2
  <2>4. /\ reg' \in Registry /\ reg'.observer = reg.observer
        /\ \A i \in Ids : reg'.sockets[i] \in {reg.sockets[i], NoConn}
    BY <1>3, <2>1, <2>2, RemovedIs
  <2>5. LinkInv'
    BY <1>2, <1>4, <2>1, <2>3, <2>4, CoroutineStep, LinkStep
  <2> QED
    BY <2>3, <2>5
<1> QED
  BY <1>8, <1>9, <1>10 DEF SessionStep

LEMMA WsStart == Init => WsInv
<1> SUFFICES ASSUME Init PROVE SocketsInv /\ LinkInv
  BY HttpStart DEF WsInv
<1> DEFINE s == [status |-> "none", write |-> "none", closing |-> FALSE,
                 posted |-> <<>>, send_queue_ |-> <<>>, wire |-> <<>>,
                 sent |-> 0, early |-> FALSE, gone |-> FALSE]
<1>1. ws = [c \in Conns |-> s] /\ due = [c \in Conns |-> 0]
  BY DEF Init, WsInit
<1>2. /\ s.status = "none" /\ s.write = "none" /\ s.closing = FALSE
      /\ s.posted = <<>> /\ s.send_queue_ = <<>> /\ s.wire = <<>>
      /\ s.sent = 0 /\ s.early = FALSE /\ s.gone = FALSE
  OBVIOUS
<1>3. s \in Socket
  BY DEF Socket
<1> HIDE DEF s
<1>4. Told(<<>>, <<>>, <<>>, 0)
  <2>1. Len(<<>>) = 0 /\ <<>> \in Seq(Nat)
    OBVIOUS
  <2>2. Queued(<<>>, <<>>)
    BY <2>1 DEF Queued
  <2>3. Posted(<<>>, 0, 0)
    BY <2>1 DEF Posted
  <2>4. Len(<<>>) + Len(<<>>) = 0
    BY <2>1
  <2> QED
    BY <2>2, <2>3, <2>4 DEF Told
<1>5. WriteOk(s) /\ LastOk(s, 0)
  BY <1>2 DEF WriteOk, LastOk
<1>6. SocketOk(s, 0)
  BY <1>2, <1>3, <1>4, <1>5 DEF SocketOk
<1>7. SocketsInv
  BY <1>1, <1>3, <1>6 DEF SocketsInv
<1>8. Accepted = {}
  BY <1>1, <1>2 DEF Accepted
<1>9. /\ reg \in Registry
      /\ \A id \in Ids : reg.sockets[id] = NoConn /\ reg.observer[id] = NoConn
  BY DEF Init, Registry
<1>10. coro \in [Conns -> Coroutine] /\ \A c \in Conns : coro[c].at = "none"
  BY DEF Init, Coroutine
<1>11. LinkInv
  BY <1>8, <1>9, <1>10 DEF LinkInv
<1> QED
  BY <1>7, <1>11

\* A step of a connection that is no WebSocket.
LEMMA ConnectionKeeps ==
  ASSUME SocketsInv, LinkInv, NEW c \in Conns, http[c].pc # "upgraded",
         \A d \in Conns \ {c} : http'[d] = http[d],
         UNCHANGED <<ws, registry>>
  PROVE  SocketsInv' /\ LinkInv'
<1>1. UNCHANGED <<ws, reg, coro, due>>
  BY DEF registry
<1>2. SocketsInv' /\ Accepted' = Accepted
  BY <1>1 DEF SocketsInv, Accepted
<1>3. c \notin Accepted
  BY DEF LinkInv
<1>4. \A d \in Accepted : http'[d].pc = "upgraded"
  BY <1>3 DEF LinkInv, Accepted
<1> QED
  BY <1>1, <1>2, <1>4, LinkKept

LEMMA WsNext == WsInv /\ [Next]_vars => WsInv'
<1> SUFFICES ASSUME WsInv, [Next]_vars PROVE SocketsInv' /\ LinkInv'
  BY HttpNext DEF WsInv
<1>1. HttpInv /\ SocketsInv /\ LinkInv
  BY DEF WsInv
<1>2. ASSUME NEW c \in Conns, Accept(c) \/ Client(c) \/ Serve(c)
      PROVE  SocketsInv' /\ LinkInv'
  <2>1. UNCHANGED <<ws, registry>>
    BY <1>2 DEF Accept, Client, Serve
  <2>2. /\ http[c].pc # "upgraded"
        /\ \A d \in Conns \ {c} : http'[d] = http[d]
    BY <1>1, <1>2, AcceptKeepsHttp, ClientKeepsHttp, ServeKeepsHttp DEF Serve
  <2> QED
    BY <1>1, <2>1, <2>2, ConnectionKeeps
<1>3. ASSUME UNCHANGED <<http, reg, coro>>, SocketsInv', Accepted' = Accepted
      PROVE  SocketsInv' /\ LinkInv'
  BY <1>1, <1>3 DEF LinkInv
<1>4. ASSUME NEW c \in Conns, Leave(c) \/ WriteMessages(c)
      PROVE  SocketsInv' /\ LinkInv'
  <2>1. UNCHANGED <<http, reg, coro, due>>
    BY <1>4 DEF Leave, WriteMessages, registry
  <2>2. ClientLeaves(c) \/ WsStep(c)
    BY <1>4 DEF Leave, WriteMessages
  <2> QED
    BY <1>1, <1>3, <2>1, <2>2, LeaveKeeps, WsStepKeeps
<1>5. ASSUME NEW c \in Conns, Tell(c)
      PROVE  SocketsInv' /\ LinkInv'
  <2> DEFINE w == reg.observer[coro[c].id]
  <2>1. /\ UNCHANGED <<http, reg, coro, due>> /\ coro[c].at # "none"
        /\ ws' = [ws EXCEPT ![w] = send(@)]
    BY <1>5 DEF Tell, registry
  <2>2. w \in Accepted
    BY <1>1, <2>1 DEF LinkInv
  <2> HIDE DEF w
  <2>3. SocketsInv' /\ Accepted' = Accepted
    BY <1>1, <2>1, <2>2, TellKeeps
  <2> QED
    BY <1>3, <2>1, <2>3
<1>6. ASSUME UNCHANGED <<http, ws, registry>>
      PROVE  SocketsInv' /\ LinkInv'
  BY <1>1, <1>6 DEF registry, SocketsInv, LinkInv, Accepted
<1>7. ASSUME ShutDown \/ UNCHANGED vars
      PROVE  SocketsInv' /\ LinkInv'
  BY <1>6, <1>7 DEF ShutDown, Stop, DestroyServer, DestroyMainContext, vars
<1>8. ASSUME NEW c \in Conns, LeaveRoute(c) \/ SessionStep(c)
      PROVE  SocketsInv' /\ LinkInv'
  BY <1>1, <1>8, RouteKeeps, SessionKeeps DEF WsInv
<1> QED
  BY <1>2, <1>4, <1>5, <1>7, <1>8 DEF Next

\* Whatever the threads of the sessions, of the registry and of the WebSockets
\* do and however the two ends close, what a client gets is what was sent, in
\* order, and no message is lost or doubled on the way.
THEOREM ToldAsSent == Spec => []ToldInOrder
<1>1. WsInv => ToldInOrder
  <2> SUFFICES ASSUME WsInv, NEW c \in Conns
               PROVE  LET s == ws[c]
                          queued == s.wire \o s.send_queue_
                      IN  /\ queued = [i \in 1..Len(queued) |-> i]
                          /\ {s.posted[i] : i \in DOMAIN s.posted} \ {Close}
                                = (Len(queued) + 1)..s.sent
                          /\ \A i, j \in DOMAIN s.posted :
                                i < j /\ s.posted[j] # Close
                                  => s.posted[i] < s.posted[j]
                          /\ s.status = "open" /\ ~s.early /\ s.send_queue_ # <<>>
                                => s.write # "none"
    BY DEF ToldInOrder
  <2> DEFINE s == ws[c]
             w == s.wire
             q == s.send_queue_
             p == s.posted
             queued == w \o q
  <2>1. SocketOk(s, due[c])
    BY DEF WsInv, SocketsInv
  <2>2. Queued(w, q) /\ Posted(p, Len(w) + Len(q), s.sent) /\ WriteOk(s)
    BY <2>1 DEF SocketOk, Told
  <2> HIDE DEF s, w, q, p
  <2>3. /\ w \in Seq(Nat) /\ q \in Seq(Nat)
        /\ \A i \in 1..Len(w) : w[i] = i
        /\ \A i \in 1..Len(q) : q[i] = Len(w) + i
    BY <2>2 DEF Queued
  <2>4. /\ queued \in Seq(Nat) /\ Len(queued) = Len(w) + Len(q)
        /\ DOMAIN queued = 1..Len(queued)
        /\ Len(w) \in Nat /\ Len(q) \in Nat
    BY <2>3
  <2>5. ASSUME NEW i \in 1..Len(queued) PROVE queued[i] = i
    <3>1. CASE i <= Len(w)
      BY <2>3, <2>4, <3>1
    <3>2. CASE i > Len(w)
      <4>1. i - Len(w) \in 1..Len(q) /\ Len(w) + (i - Len(w)) = i
        BY <2>4, <3>2
      <4>2. queued[i] = q[i - Len(w)]
        BY <2>3, <2>4, <3>2
      <4> QED
        BY <2>3, <4>1, <4>2
    <3> QED
      BY <2>4, <3>1, <3>2
  <2> HIDE DEF queued
  <2>6. queued = [i \in 1..Len(queued) |-> queued[i]]
    BY <2>4
  <2>7. queued = [i \in 1..Len(queued) |-> i]
    BY <2>5, <2>6
  <2> DEFINE a == Len(queued)
             n == s.sent
  <2>8. /\ p \in Seq(Nat) /\ a \in Nat /\ n \in Nat
        /\ \A i \in 1..Len(p) : p[i] = 0 \/ p[i] \in (a + 1)..n
        /\ \A m \in (a + 1)..n : \E i \in 1..Len(p) : p[i] = m
        /\ \A i, j \in 1..Len(p) : i < j /\ p[j] # 0 => p[i] < p[j]
    BY <2>2, <2>4 DEF Posted
  <2> HIDE DEF a, n
  <2>9. DOMAIN p = 1..Len(p)
    BY <2>8
  <2>10. {p[i] : i \in DOMAIN p} \ {Close} = (a + 1)..n
    <3>1. ASSUME NEW m \in {p[i] : i \in DOMAIN p} \ {Close}
          PROVE  m \in (a + 1)..n
      <4>1. PICK i \in 1..Len(p) : p[i] = m
        BY <2>9
      <4> QED
        BY <2>8, <4>1 DEF Close
    <3>2. ASSUME NEW m \in (a + 1)..n
          PROVE  m \in {p[i] : i \in DOMAIN p} \ {Close}
      <4>1. PICK i \in 1..Len(p) : p[i] = m
        BY <2>8
      <4>2. m # 0
        BY <2>8
      <4> QED
        BY <2>9, <4>1, <4>2 DEF Close
    <3> QED
      BY <3>1, <3>2
  <2>11. \A i, j \in DOMAIN p : i < j /\ p[j] # Close => p[i] < p[j]
    BY <2>8, <2>9 DEF Close
  <2>12. s.status = "open" /\ ~s.early /\ q # <<>> => s.write # "none"
    BY <2>2 DEF WriteOk, q
  <2> QED
    BY <2>7, <2>10, <2>11, <2>12 DEF s, w, q, p, queued, a, n
<1> QED
  BY <1>1, WsStart, WsNext, PTL DEF Spec

\* The outcome of a session is not lost between send() and the wire to a
\* client that is there, has had all before it and whose WebSocket nobody
\* closed before, although the registry closes it right after.
THEOREM LastWordWritten == Spec => []LastWordKept
<1>1. WsInv => LastWordKept
  <2> SUFFICES ASSUME WsInv, NEW c \in Conns, due[c] > 0, ~ws[c].gone
               PROVE  \/ due[c] <= Len(ws[c].wire)
                      \/ /\ ws[c].posted # <<>> /\ Head(ws[c].posted) = due[c]
                         /\ ws[c].status = "open"
                      \/ /\ ws[c].send_queue_ # <<>>
                         /\ Head(ws[c].send_queue_) = due[c]
                         /\ ws[c].write = "flight"
    BY DEF LastWordKept
  <2>1. LastOk(ws[c], due[c])
    BY DEF WsInv, SocketsInv, SocketOk
  <2> QED
    BY <2>1 DEF LastOk
<1> QED
  BY <1>1, WsStart, WsNext, PTL DEF Spec

-----------------------------------------------------------------------------
(* A WebSocket that falls silent.                                          *)

\* Messages are queued and no write that can succeed is under way.
Mute(s) == s.send_queue_ # <<>> /\ s.write # "flight"

\* r may follow s: a WebSocket that is mute gets no message through and stays
\* mute.
Hushed(s, r) == Mute(s) => Mute(r) /\ r.wire = s.wire

\* A step that neither writes nor queues.
LEMMA Unheard ==
  ASSUME NEW s, NEW r, r.send_queue_ = s.send_queue_, r.wire = s.wire,
         r.write = "flight" => s.write = "flight"
  PROVE  Hushed(s, r)
BY DEF Hushed, Mute

\* send(), close() and do_accept(), the end of a handshake, of a write that
\* failed and of a close, and a client that leaves.
LEMMA QuietSteps ==
  ASSUME NEW s \in Socket
  PROVE  /\ Hushed(s, send(s))
         /\ Hushed(s, close(s))
         /\ Hushed(s, do_accept(s))
         /\ Hushed(s, [s EXCEPT !.status = "open"])
         /\ Hushed(s, [s EXCEPT !.status = "failed", !.gone = TRUE])
         /\ Hushed(s, [s EXCEPT !.write = "none"])
         /\ Hushed(s, [s EXCEPT !.status = "closed"])
<1>1. Hushed(s, send(s))
  <2> DEFINE r == send(s)
  <2>1. /\ r.send_queue_ = s.send_queue_ /\ r.wire = s.wire
        /\ r.write = s.write
    BY DEF send, Socket
  <2> HIDE DEF r
  <2>2. Hushed(s, r)
    BY <2>1, Unheard
  <2> QED
    BY <2>2 DEF r
<1>2. Hushed(s, close(s))
  <2> DEFINE r == close(s)
  <2>1. /\ r.send_queue_ = s.send_queue_ /\ r.wire = s.wire
        /\ r.write = s.write
    BY DEF close, Socket
  <2> HIDE DEF r
  <2>2. Hushed(s, r)
    BY <2>1, Unheard
  <2> QED
    BY <2>2 DEF r
<1>3. Hushed(s, do_accept(s))
  <2> DEFINE r == do_accept(s)
  <2>1. /\ r.send_queue_ = s.send_queue_ /\ r.wire = s.wire
        /\ r.write = s.write
    BY DEF do_accept, Socket
  <2> HIDE DEF r
  <2>2. Hushed(s, r)
    BY <2>1, Unheard
  <2> QED
    BY <2>2 DEF r
<1>4. Hushed(s, [s EXCEPT !.status = "open"])
  <2> DEFINE r == [s EXCEPT !.status = "open"]
  <2>1. /\ r.send_queue_ = s.send_queue_ /\ r.wire = s.wire
        /\ r.write = s.write
    BY DEF Socket
  <2> HIDE DEF r
  <2>2. Hushed(s, r)
    BY <2>1, Unheard
  <2> QED
    BY <2>2 DEF r
<1>5. Hushed(s, [s EXCEPT !.status = "failed", !.gone = TRUE])
  <2> DEFINE r == [s EXCEPT !.status = "failed", !.gone = TRUE]
  <2>1. /\ r.send_queue_ = s.send_queue_ /\ r.wire = s.wire
        /\ r.write = s.write
    BY DEF Socket
  <2> HIDE DEF r
  <2>2. Hushed(s, r)
    BY <2>1, Unheard
  <2> QED
    BY <2>2 DEF r
<1>6. Hushed(s, [s EXCEPT !.write = "none"])
  <2> DEFINE r == [s EXCEPT !.write = "none"]
  <2>1. /\ r.send_queue_ = s.send_queue_ /\ r.wire = s.wire
        /\ r.write = "none"
    BY DEF Socket
  <2> HIDE DEF r
  <2>2. Hushed(s, r)
    BY <2>1, Unheard
  <2> QED
    BY <2>2 DEF r
<1>7. Hushed(s, [s EXCEPT !.status = "closed"])
  <2> DEFINE r == [s EXCEPT !.status = "closed"]
  <2>1. /\ r.send_queue_ = s.send_queue_ /\ r.wire = s.wire
        /\ r.write = s.write
    BY DEF Socket
  <2> HIDE DEF r
  <2>2. Hushed(s, r)
    BY <2>1, Unheard
  <2> QED
    BY <2>2 DEF r
<1> QED
  BY <1>1, <1>2, <1>3, <1>4, <1>5, <1>6, <1>7

\* The handler that send() posted starts a write only on an empty queue.
LEMMA EnqueueHushed ==
  ASSUME NEW s \in Socket, s.posted # <<>>,
         NEW r, r \in LET queued == [s EXCEPT !.posted = Tail(@),
                                              !.send_queue_ = Append(@, Head(s.posted))]
                      IN  IF s.send_queue_ = <<>> THEN do_write(queued) ELSE {queued}
  PROVE  Hushed(s, r)
<1> DEFINE queued == [s EXCEPT !.posted = Tail(@),
                               !.send_queue_ = Append(@, Head(s.posted))]
<1> SUFFICES ASSUME Mute(s) PROVE Mute(r) /\ r.wire = s.wire
  BY DEF Hushed
<1>1. r = queued
  BY DEF Mute
<1>2. s.send_queue_ \in Seq(Nat) /\ Head(s.posted) \in Nat
  BY DEF Socket
<1>3. /\ r.write = s.write /\ r.wire = s.wire
      /\ r.send_queue_ = Append(s.send_queue_, Head(s.posted))
  BY <1>1 DEF Socket
<1> QED
  BY <1>2, <1>3, Appended DEF Mute

\* Whatever happens to a WebSocket.
LEMMA SocketHushed ==
  ASSUME WsInv, [Next]_vars, NEW c \in Conns
  PROVE  Hushed(ws[c], ws'[c])
<1> DEFINE s == ws[c]
<1>1. ws \in [Conns -> Socket] /\ s \in Socket
  BY DEF WsInv, SocketsInv
<1>2. ASSUME UNCHANGED ws PROVE Hushed(s, ws'[c])
  BY <1>2 DEF Hushed
<1>3. ASSUME NEW d, NEW r, ws' = [ws EXCEPT ![d] = r], d = c => Hushed(s, r)
      PROVE  Hushed(s, ws'[c])
  <2>1. CASE d = c
    BY <1>1, <1>3, <2>1
  <2>2. CASE d # c
    <3>1. ws'[c] = s
      BY <1>1, <1>3, <2>2
    <3> QED
      BY <3>1 DEF Hushed
  <2> QED
    BY <2>1, <2>2
<1> HIDE DEF s
<1>4. Hushed(s, send(s)) /\ Hushed(s, close(s))
  BY <1>1, QuietSteps
<1>5. Hushed(s, do_accept(s))
  BY <1>1, QuietSteps
<1>6. ASSUME NEW d \in Conns, ClientLeaves(d) PROVE Hushed(s, ws'[c])
  <2> DEFINE r == [ws[d] EXCEPT !.status = "failed", !.gone = TRUE]
  <2>1. ws' = [ws EXCEPT ![d] = r]
    BY <1>1, <1>6 DEF ClientLeaves
  <2>2. d = c => Hushed(s, r)
    BY <1>1, QuietSteps DEF s
  <2> HIDE DEF r
  <2> QED
    BY <1>3, <2>1, <2>2
<1>7. ASSUME NEW d \in Conns, WsStep(d) PROVE Hushed(s, ws'[c])
  <2>1. CASE on_accept(d)
    <3>1. PICK r \in {[ws[d] EXCEPT !.status = "open"],
                      [ws[d] EXCEPT !.status = "failed", !.gone = TRUE]} :
             ws' = [ws EXCEPT ![d] = r]
      BY <1>1, <2>1 DEF on_accept
    <3>2. d = c => Hushed(s, r)
      BY <1>1, <3>1, QuietSteps DEF s
    <3> QED
      BY <1>3, <3>1, <3>2
  <2>2. CASE Enqueue(d)
    <3> DEFINE R == LET queued == [ws[d] EXCEPT !.posted = Tail(@),
                                      !.send_queue_ = Append(@, Head(ws[d].posted))]
                    IN  IF ws[d].send_queue_ = <<>> THEN do_write(queued) ELSE {queued}
    <3>1. ws[d].posted # <<>>
      BY <2>2 DEF Enqueue
    <3>2. PICK r \in R : ws' = [ws EXCEPT ![d] = r]
      BY <2>2 DEF Enqueue
    <3>3. d = c => Hushed(s, r)
      BY <1>1, <3>1, <3>2, EnqueueHushed DEF s
    <3> QED
      BY <1>3, <3>2, <3>3
  <2>3. CASE StartClose(d)
    <3> DEFINE next == [ws[d] EXCEPT !.posted = Tail(@)]
    <3>1. PICK r \in {next, async_close(next)} : ws' = [ws EXCEPT ![d] = r]
      BY <2>3 DEF StartClose
    <3>2. ASSUME d = c PROVE Hushed(s, r)
      <4>1. /\ r.send_queue_ = s.send_queue_ /\ r.wire = s.wire
            /\ r.write = s.write
        BY <1>1, <3>1, <3>2 DEF async_close, Socket, s
      <4> QED
        BY <4>1, Unheard
    <3> QED
      BY <1>3, <3>1, <3>2
  <2>4. CASE Written(d)
    <3>1. ws[d].write = "flight"
      BY <2>4 DEF Written
    <3>2. PICK r : ws' = [ws EXCEPT ![d] = r]
      BY <2>4 DEF Written
    <3>3. d = c => Hushed(s, r)
      BY <3>1 DEF Hushed, Mute, s
    <3> QED
      BY <1>3, <3>2, <3>3
  <2>5. CASE WriteFails(d) \/ Closed(d)
    <3>1. PICK r \in {[ws[d] EXCEPT !.write = "none"],
                      [ws[d] EXCEPT !.status = "closed"]} :
             ws' = [ws EXCEPT ![d] = r]
      BY <1>1, <2>5 DEF WriteFails, Closed
    <3>2. d = c => Hushed(s, r)
      BY <1>1, <3>1, QuietSteps DEF s
    <3> QED
      BY <1>3, <3>1, <3>2
  <2> QED
    BY <1>7, <2>1, <2>2, <2>3, <2>4, <2>5 DEF WsStep
<1>8. ASSUME NEW w, ws' = [ws EXCEPT ![w] = send(@)] \/ ws' = [ws EXCEPT ![w] = close(@)]
      PROVE  Hushed(s, ws'[c])
  <2>1. \/ ws' = [ws EXCEPT ![w] = send(ws[w])]
        \/ ws' = [ws EXCEPT ![w] = close(ws[w])]
    BY <1>8
  <2>2. w = c => Hushed(s, send(ws[w])) /\ Hushed(s, close(ws[w]))
    BY <1>4 DEF s
  <2> QED
    BY <1>3, <2>1, <2>2
<1>9. ASSUME NEW id, CloseSocket(id) PROVE Hushed(s, ws'[c])
  BY <1>2, <1>8, <1>9 DEF CloseSocket
<1>10. ASSUME NEW d \in Conns, LeaveRoute(d) PROVE Hushed(s, ws'[c])
  <2>1. \/ UNCHANGED ws \/ \E id : CloseSocket(id)
        \/ ws' = [ws EXCEPT ![d] = do_accept(@)]
    BY <1>10 DEF LeaveRoute, Effect
  <2>2. CASE ws' = [ws EXCEPT ![d] = do_accept(@)]
    <3>1. ws' = [ws EXCEPT ![d] = do_accept(ws[d])]
      BY <2>2
    <3>2. d = c => Hushed(s, do_accept(ws[d]))
      BY <1>5 DEF s
    <3> QED
      BY <1>3, <3>1, <3>2
  <2> QED
    BY <1>2, <1>9, <2>1, <2>2
<1>11. ASSUME NEW d \in Conns, Tell(d) \/ SessionStep(d) PROVE Hushed(s, ws'[c])
  <2>1. \/ UNCHANGED ws \/ \E id : CloseSocket(id)
        \/ \E w : ws' = [ws EXCEPT ![w] = send(@)]
    BY <1>11 DEF Tell, SessionStep, StartSession, FinishSession, RemoveAtEnd
  <2> QED
    BY <1>2, <1>8, <1>9, <2>1
<1>12. ASSUME NEW d \in Conns, Accept(d) \/ Client(d) \/ Serve(d)
       PROVE  Hushed(s, ws'[c])
  BY <1>2, <1>12 DEF Accept, Client, Serve
<1>13. ASSUME ShutDown \/ UNCHANGED vars PROVE Hushed(s, ws'[c])
  BY <1>2, <1>13 DEF ShutDown, Stop, DestroyServer, DestroyMainContext, vars
<1> QED
  BY <1>6, <1>7, <1>10, <1>11, <1>12, <1>13 DEF Next, Leave, WriteMessages, s

\* on_write leaves a message that was not written at the head of the queue,
\* and only an empty queue starts a write: after the first write that fails
\* the client gets no message of any session any more, whatever is sent.
THEOREM MuteForEver ==
  ASSUME NEW c \in Conns, NEW w
  PROVE  Spec => [](Mute(ws[c]) /\ ws[c].wire = w
                       => [](Mute(ws[c]) /\ ws[c].wire = w))
<1>1. WsInv /\ [Next]_vars /\ Mute(ws[c]) /\ ws[c].wire = w
         => (Mute(ws[c]) /\ ws[c].wire = w)'
  BY SocketHushed DEF Hushed, Mute
<1> QED
  BY <1>1, WsStart, WsNext, PTL DEF Spec
=============================================================================
