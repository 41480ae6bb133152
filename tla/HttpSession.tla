----------------------------- MODULE HttpSession -----------------------------
(***************************************************************************)
(* HttpSession: a connection and the coroutine do_session that serves it.  *)
(* A client sends a request as a head and, when it has one, a body, and    *)
(* need not wait for an answer before the next.  inbox is what the server  *)
(* has not read yet; awaiting is the client's side, the requests it still  *)
(* expects an answer to.  The actions speak of http alone: Server composes *)
(* them with the rest.                                                     *)
(***************************************************************************)
EXTENDS Router

CONSTANTS
    Conns,
    Requests,       \* what clients send, in any combination
    MaxPending      \* bound on the requests without an answer, of all clients

VARIABLE http

\* A body or the end of the stream in the inbox.
Body == "body"
Eof == "eof"
Unit(kind, req) == [kind |-> kind, req |-> req]

\* The coroutine and its HttpSession end; what was under way is dropped.
Ended(pc) ==
    [pc |-> pc, inbox |-> <<>>, owes |-> FALSE, eof |-> FALSE, req |-> Bad,
     status |-> 0, awaiting |-> <<>>, unread |-> FALSE, adrift |-> FALSE]

\* unread: history, the body of an OPTIONS request was left in the stream.
\* adrift: history, octets of a body were taken for the head of a request.
HttpInit == http = [c \in Conns |-> Ended("absent")]

Serving(c) == http[c].pc \notin {"absent", "closed", "upgraded"}
Pending == MapThenSumSet(LAMBDA c : Len(http[c].awaiting), Conns)
Waiting(c) == http[c].pc \in {"header", "body"}

-----------------------------------------------------------------------------
(* The client.  What it sends on a stream that is adrift is left out: what *)
(* is read from such a stream may be any request anyhow.                   *)

SendHead(c, req) ==
    LET h == http[c]
    IN  /\ Serving(c) /\ ~h.adrift /\ ~h.eof /\ ~h.owes
        /\ Pending < MaxPending
        /\ http' = [http EXCEPT ![c] =
                      [h EXCEPT !.inbox = Append(@, Unit("head", req)),
                                !.awaiting = Append(@, req),
                                !.owes = req.body_follows]]

SendBody(c) ==
    LET h == http[c]
    IN  /\ Serving(c) /\ ~h.adrift /\ ~h.eof /\ h.owes
        /\ http' = [http EXCEPT ![c] =
                      [h EXCEPT !.inbox = Append(@, Unit(Body, Bad)),
                                !.owes = FALSE]]

ClientCloses(c) ==
    LET h == http[c]
    IN  /\ Serving(c) /\ ~h.adrift /\ ~h.eof
        /\ http' = [http EXCEPT ![c] =
                      [h EXCEPT !.inbox = Append(@, Unit(Eof, Bad)),
                                !.eof = TRUE]]

-----------------------------------------------------------------------------
(* do_session.                                                             *)

\* Mutant: no body is read.
HeadReadOnly(h, req) ==
    [h EXCEPT !.req = req, !.status = 200,
              !.pc = IF req.method = "OPTIONS" THEN "write" ELSE "routing"]

\* A head that can be read takes do_session to its body or into route_query.
\* The body of an OPTIONS request is not read.
HeadRead(h, req) ==
    IF req.method = "OPTIONS"
    THEN [h EXCEPT !.req = req, !.status = 200, !.pc = "write",
                   !.unread = @ \/ req.body_follows]
    ELSE [h EXCEPT !.req = req,
                   !.pc = IF req.body_follows THEN "body" ELSE "routing"]

\* async_read_header finds the head of a request; a malformed one, or one that
\* announces a body larger than the limit, is an error, and so is the end of
\* the stream.
ReadHead(c) ==
    LET unit == Head(http[c].inbox)
        h == [http[c] EXCEPT !.inbox = Tail(@)]
    IN  /\ http[c].inbox # <<>> /\ unit.kind # Body
        /\ http' = [http EXCEPT ![c] =
                      IF unit.kind = "head" /\ unit.req.framing = "ok"
                      THEN HeadRead(h, unit.req)
                      ELSE [h EXCEPT !.pc = "bad"]]

\* It finds a body that nobody read, in buffer_ or in the stream: an error,
\* unless the octets spell a request.  Where that one ends depends on them,
\* and so does all that is read from then on: it may be any request.
ReadStray(c) ==
    LET h == [Ended("header") EXCEPT !.unread = http[c].unread, !.adrift = TRUE]
    IN  /\ ~http[c].adrift => /\ http[c].inbox # <<>>
                             /\ Head(http[c].inbox).kind = Body
        /\ \/ http' = [http EXCEPT ![c] = [h EXCEPT !.pc = "bad"]]
           \/ \E req \in Requests :
                 /\ req.framing = "ok"
                 /\ http' = [http EXCEPT ![c] = HeadRead(h, req)]

read_header(c) ==
    /\ http[c].pc = "header"
    /\ ReadHead(c) \/ ReadStray(c)

\* async_read, when a body follows.
read_body(c) ==
    LET h == http[c]
    IN  /\ h.pc = "body"
        /\ \/ /\ h.inbox # <<>>
              /\ http' = [http EXCEPT ![c] =
                            [h EXCEPT !.inbox = Tail(@),
                                      !.pc = IF Head(h.inbox).kind = Body
                                             THEN "routing" ELSE "bad"]]
           \/ /\ h.adrift
              /\ \E pc \in {"routing", "bad"} :
                    http' = [http EXCEPT ![c] = [h EXCEPT !.pc = pc]]

\* Every octet that came was read and they are not enough.
Starved(h) ==
    h.inbox # <<>> => h.pc = "header" /\ Head(h.inbox).kind = Body

\* expires_after: the stream closes itself, so that the answer to the error
\* cannot be written.
Timeout(c) ==
    /\ Waiting(c) /\ Starved(http[c])
    /\ http' = [http EXCEPT ![c] = Ended("closed")]

\* The answer is 400; whether it can be written or not, do_session ends.
handle_bad_request(c) ==
    /\ http[c].pc = "bad"
    /\ http' = [http EXCEPT ![c] = Ended("closed")]

\* route_query returns.  The response to an upgrade is dropped: the socket
\* has a new owner or is closed.
Routed(h, outcome) ==
    IF h.req.upgrade
    THEN Ended(IF outcome.effect = "connect" THEN "upgraded" ELSE "closed")
    ELSE [h EXCEPT !.pc = "write", !.status = outcome.status]

\* What the write leaves: the client takes an answer for that to the oldest
\* request it waits for; a write that fails ends do_session.
do_write_response(h) ==
    {[h EXCEPT !.awaiting = IF @ = <<>> THEN @ ELSE Tail(@)], Ended("closed")}

\* The answer is written, and the connection kept or drained.
process_single_request(c) ==
    /\ http[c].pc = "write"
    /\ \E h \in do_write_response(http[c]) :
          http' = [http EXCEPT ![c] =
            IF h.pc = "closed" THEN h
            ELSE [h EXCEPT !.pc = IF h.req.keep_alive THEN "header" ELSE "drain",
                           !.req = Bad, !.status = 0]]

\* One read of at most a second, then close.
do_graceful_close(c) ==
    /\ http[c].pc = "drain"
    /\ http' = [http EXCEPT ![c] = Ended("closed")]

\* What the executor of the connection runs, outside route_query.
HttpStep(c) ==
    \/ read_header(c)
    \/ read_body(c)
    \/ Timeout(c)
    \/ handle_bad_request(c)
    \/ process_single_request(c)
    \/ do_graceful_close(c)
=============================================================================
