-------------------------- MODULE WebSocketSession ---------------------------
(***************************************************************************)
(* WebSocketSession: the queue of messages to a client.  send() and        *)
(* close() are called from the threads of the sessions and post a handler  *)
(* to the executor of the socket, which runs the handlers in order, one at *)
(* a time.  The stream is Beast's: while it is open it writes, lets a      *)
(* close wait for the write in flight and aborts the writes that come      *)
(* after it; once it is closed or failed it aborts them all.  What it does *)
(* with a write or a close that comes during the handshake is left open.   *)
(*                                                                         *)
(* A message is its number in the order of the calls of send(); the        *)
(* handler of close() is Close.                                            *)
(***************************************************************************)
EXTENDS Integers, Sequences

CONSTANT Conns

VARIABLE ws

Close == 0

\* status: of the stream.  write: of the async_write under way.
WsInit ==
    ws = [c \in Conns |->
            [status |-> "none", write |-> "none", closing |-> FALSE,
             posted |-> <<>>, send_queue_ |-> <<>>, wire |-> <<>>,
             sent |-> 0, early |-> FALSE, gone |-> FALSE]]

\* Called by others.
do_accept(s) == [s EXCEPT !.status = "handshake"]
send(s) == [s EXCEPT !.sent = @ + 1, !.posted = Append(@, s.sent + 1)]
close(s) == [s EXCEPT !.posted = Append(@, Close)]

\* early: history, a write was asked for before the handshake was over.
do_write(s) ==
    {[s EXCEPT !.write = write, !.early = @ \/ s.status = "handshake"] :
        write \in IF s.status = "open" /\ ~s.closing THEN {"flight"}
                  ELSE IF s.status = "handshake" THEN {"flight", "aborted"}
                  ELSE {"aborted"}}

-----------------------------------------------------------------------------
\* The client may be gone by the time of the handshake.
on_accept(c) ==
    /\ ws[c].status = "handshake"
    /\ \/ ws' = [ws EXCEPT ![c].status = "open"]
       \/ ws' = [ws EXCEPT ![c].status = "failed", ![c].gone = TRUE]

\* The handler that send() posted.
Enqueue(c) ==
    LET s == ws[c]
        queued == [s EXCEPT !.posted = Tail(@),
                            !.send_queue_ = Append(@, Head(s.posted))]
    IN  /\ s.posted # <<>> /\ Head(s.posted) # Close
        /\ \E r \in IF s.send_queue_ = <<>> THEN do_write(queued) ELSE {queued} :
              ws' = [ws EXCEPT ![c] = r]

\* Mutant: the close does not wait for the write in flight.
CloseAtOnce(c) ==
    LET s == ws[c]
    IN  /\ s.posted # <<>> /\ Head(s.posted) = Close
        /\ ws' = [ws EXCEPT ![c] =
                    [s EXCEPT !.posted = Tail(@),
                              !.status = IF @ = "open" THEN "closing" ELSE @,
                              !.write = IF @ = "flight" THEN "aborted" ELSE @]]

\* async_close waits for the write in flight.
async_close(s) == IF s.write = "flight" THEN [s EXCEPT !.closing = TRUE]
                  ELSE [s EXCEPT !.status = "closing"]

\* The handler that close() posted; on a stream that is not open it may do
\* nothing, and does if the stream is closed or failed.
StartClose(c) ==
    LET s == [ws[c] EXCEPT !.posted = Tail(@)]
    IN  /\ ws[c].posted # <<>> /\ Head(ws[c].posted) = Close
        /\ \/ s.status \in {"handshake", "open"}
              /\ ws' = [ws EXCEPT ![c] = async_close(s)]
           \/ s.status # "open" /\ ws' = [ws EXCEPT ![c] = s]

\* Mutant: on_write does not start the next write.
WrittenOnly(c) ==
    /\ ws[c].write = "flight"
    /\ ws' = [ws EXCEPT ![c].write = "none",
                        ![c].wire = Append(@, Head(ws[c].send_queue_)),
                        ![c].send_queue_ = Tail(@),
                        ![c].status = IF ws[c].closing THEN "closing" ELSE @]

\* on_write of a message that was written; a close that waited comes first.
Written(c) ==
    LET s == ws[c]
        done == [s EXCEPT !.write = "none",
                          !.wire = Append(@, Head(s.send_queue_)),
                          !.send_queue_ = Tail(@),
                          !.status = IF s.closing THEN "closing" ELSE @]
    IN  /\ s.write = "flight"
        /\ \E r \in IF done.send_queue_ = <<>> THEN {done} ELSE do_write(done) :
              ws' = [ws EXCEPT ![c] = r]

\* on_write of one that was not: its message stays at the head of the queue,
\* so that no later send() starts a write.
WriteFails(c) ==
    LET s == ws[c]
    IN  /\ s.write = "aborted" \/ (s.write = "flight" /\ s.gone)
        /\ ws' = [ws EXCEPT ![c].write = "none"]

\* The close handshake ends.
Closed(c) ==
    /\ ws[c].status = "closing"
    /\ ws' = [ws EXCEPT ![c].status = "closed"]

\* on_read: the client closes, or the connection breaks.
ClientLeaves(c) ==
    /\ ws[c].status = "open"
    /\ ws' = [ws EXCEPT ![c].status = "failed", ![c].gone = TRUE]

\* What the executor of the socket runs.
WsStep(c) ==
    \/ on_accept(c)
    \/ Enqueue(c)
    \/ StartClose(c)
    \/ Written(c)
    \/ WriteFails(c)
    \/ Closed(c)
=============================================================================
