------------------------------- MODULE Server --------------------------------
(***************************************************************************)
(* The server as a whole: main and the Listener on one thread, and a pool  *)
(* of io_contexts with a thread each, on which the connections are served, *)
(* the sessions run and the WebSockets write.  ActiveSessions and Session  *)
(* have modules of their own; here an operation of the registry is a step, *)
(* and a session sends messages until it ends.                             *)
(*                                                                         *)
(* A step of a thread is a handler, except route_query, which is split so  *)
(* that other threads can act during it: main shuts the server down        *)
(* without joining them.  Which thread a handler has is not told apart:    *)
(* those of two connections interleave as on different ones.               *)
(***************************************************************************)
EXTENDS HttpSession, FiniteSets

CONSTANTS
    Probes,             \* sent one at a time while there is no session
    NoConn,
    MaxSessions,        \* bound on the sessions that are created
    MaxMessages         \* bound on the messages to a client before the last

ASSUME BoundAssumption == MaxSessions \in Nat /\ MaxMessages \in Nat
ASSUME ConnAssumption == NoConn \notin Conns

\* A JSON array that is there is indexed from 1.
Listed(array) == array # Bad => DOMAIN array \subseteq Nat \ {0}

ASSUME RequestsAssumption ==
    \A req \in Requests \cup Probes :
        /\ {req.upgrade, req.keep_alive, req.body_follows} \subseteq BOOLEAN
        /\ req.body # Bad /\ req.body.flow # Bad =>
              Listed(req.body.flow.nodes) /\ Listed(req.body.flow.edges)

Ids == 1..MaxSessions

VARIABLES
    ws,                 \* the WebSocket of each connection
    main,               \* where main() is
    reg,                \* ActiveSessions
    coro,               \* the session coroutine of each WebSocket
    due,                \* history: the last message each WebSocket must get
    destroyed           \* objects whose destructor has run

INSTANCE WebSocketSession

server == <<main, destroyed>>
registry == <<reg, coro, due>>
vars == <<http, ws, server, registry>>

\* Server::create and Server::start.
Init ==
    /\ HttpInit
    /\ WsInit
    /\ main = "running"
    /\ reg = [created |-> 0, live |-> {}, running |-> {},
              sockets |-> [id \in Ids |-> NoConn],
              observer |-> [id \in Ids |-> NoConn]]
    /\ coro = [c \in Conns |-> [at |-> "none", id |-> 0]]
    /\ due = [c \in Conns |-> 0]
    /\ destroyed = {}

-----------------------------------------------------------------------------
(* Listener::do_accept.                                                    *)

Accept(c) ==
    /\ main = "running"
    /\ http[c].pc = "absent"
    /\ http' = [http EXCEPT ![c].pc = "header"]
    /\ UNCHANGED <<ws, server, registry>>

-----------------------------------------------------------------------------
(* The threads of the pool.                                                *)

\* IoContextPool::stop: a stopped io_context runs no further handler.
Runs == main = "running"

Serve(c) ==
    /\ Runs
    /\ HttpStep(c)
    /\ UNCHANGED <<ws, server, registry>>

WriteMessages(c) ==
    /\ Runs
    /\ WsStep(c)
    /\ UNCHANGED <<http, server, registry>>

\* remove_session, and the WebSocket it closes.
Removed(id) ==
    [reg EXCEPT !.live = @ \ {id}, !.running = @ \ {id},
                !.sockets = [@ EXCEPT ![id] = NoConn]]
CloseSocket(id) ==
    IF reg.sockets[id] = NoConn THEN UNCHANGED ws
    ELSE ws' = [ws EXCEPT ![reg.sockets[id]] = close(@)]

\* What an outcome of route_query does to the registry.
Effect(c, outcome) ==
    LET id == http[c].req.id
    IN  CASE outcome.effect = "create" ->
                /\ reg' = [reg EXCEPT !.created = @ + 1,
                                      !.live = @ \cup {reg.created + 1}]
                /\ UNCHANGED <<ws, coro>>
          [] outcome.effect = "connect" ->
                /\ ws' = [ws EXCEPT ![c] = do_accept(@)]
                /\ reg' = [reg EXCEPT !.sockets = [@ EXCEPT ![id] = c],
                                      !.observer = [@ EXCEPT ![id] = c]]
                /\ coro' = [coro EXCEPT ![c] = [at |-> "spawned", id |-> id]]
          [] outcome.effect = "stop" ->
                /\ reg' = Removed(id)
                /\ CloseSocket(id)
                /\ UNCHANGED coro
          [] OTHER -> UNCHANGED <<reg, ws, coro>>

\* The rest of route_query, also on a thread whose io_context was stopped
\* meanwhile.  If the registry was destroyed meanwhile, it reads freed memory,
\* and what follows is left out.
LeaveRoute(c) ==
    /\ http[c].pc = "routing" /\ main # "exited"
    /\ "ActiveSessions" \notin destroyed
    /\ \E outcome \in route_query(http[c].req, reg.live, reg.running) :
          /\ outcome.effect = "create" => reg.created < MaxSessions
          /\ Effect(c, outcome)
          /\ http' = [http EXCEPT ![c] = Routed(@, outcome)]
    /\ UNCHANGED <<server, due>>

\* Session::start()
StartSession(c) ==
    /\ Runs
    /\ coro[c].at = "spawned"
    /\ coro' = [coro EXCEPT ![c].at = "running"]
    /\ reg' = [reg EXCEPT !.running = @ \cup {coro[c].id}]
    /\ UNCHANGED <<http, ws, server, due>>

\* on_webrtc_request and on_stats_update of the session's observer.
Tell(c) ==
    /\ Runs
    /\ coro[c].at = "running"
    /\ ws[reg.observer[coro[c].id]].sent < MaxMessages
    /\ ws' = [ws EXCEPT ![reg.observer[coro[c].id]] = send(@)]
    /\ UNCHANGED <<http, server, registry>>

\* The session ends and tells the outcome.  The client is owed it when its
\* stream is open, no earlier message is on its way and nobody closed.
FinishSession(c) ==
    LET w == reg.observer[coro[c].id]
        s == ws[w]
    IN  /\ Runs
        /\ coro[c].at = "running"
        /\ coro' = [coro EXCEPT ![c].at = "ended"]
        /\ reg' = [reg EXCEPT !.running = @ \ {coro[c].id}]
        /\ ws' = [ws EXCEPT ![w] = send(@)]
        /\ due' = [due EXCEPT ![w] =
                     IF /\ s.status = "open" /\ ~s.closing
                        /\ s.posted = <<>> /\ s.send_queue_ = <<>>
                     THEN s.sent + 1 ELSE @]
        /\ UNCHANGED <<http, server>>

\* The coroutine's remove_session(id).
RemoveAtEnd(c) ==
    /\ Runs
    /\ coro[c].at = "ended"
    /\ coro' = [coro EXCEPT ![c].at = "over"]
    /\ IF coro[c].id \in reg.live
       THEN reg' = Removed(coro[c].id) /\ CloseSocket(coro[c].id)
       ELSE UNCHANGED <<reg, ws>>
    /\ UNCHANGED <<http, server, due>>

SessionStep(c) == StartSession(c) \/ FinishSession(c) \/ RemoveAtEnd(c)

-----------------------------------------------------------------------------
(* main() after a signal.  Objects die with their last owner: the registry *)
(* is also owned by the session coroutines, the Router by the coroutine of *)
(* the Listener and by the connections, the pool by the Router.            *)

Served == {c \in Conns : Serving(c)}

\* Server::stop(), and main_io_.run() returns.
Stop ==
    /\ main = "running"
    /\ main' = "stopping"
    /\ UNCHANGED <<http, ws, registry, destroyed>>

\* ~Server drops its four references.  The registry may die here, before the
\* Router, although Router says that it dies first.
DestroyServer ==
    /\ main = "stopping"
    /\ main' = "unwinding"
    /\ destroyed' = IF \E c \in Conns :
                          coro[c].at \in {"spawned", "running", "ended"}
                    THEN destroyed ELSE destroyed \cup {"ActiveSessions"}
    /\ UNCHANGED <<http, ws, registry>>

\* ~io_context of main_ioc ends the Listener's coroutine and so the Listener.
\* The last reference to the Router is that to the pool, whose destructor
\* joins the threads and ends the coroutines that are left.
DestroyMainContext ==
    /\ main = "unwinding"
    /\ main' = "exited"
    /\ destroyed' = destroyed \cup {"Listener"} \cup
                    (IF Served = {} THEN {"Router", "IoContextPool",
                                          "ActiveSessions"} ELSE {})
    /\ UNCHANGED <<http, ws, registry>>

ShutDown == Stop \/ DestroyServer \/ DestroyMainContext

-----------------------------------------------------------------------------
Probed ==
    \E c \in Conns :
        http[c].awaiting # <<>> /\ Head(http[c].awaiting) \notin Requests

\* What clients do once nobody reads is left out.
Client(c) ==
    /\ main = "running"
    /\ \/ ~Probed /\ \E req \in Requests : SendHead(c, req)
       \/ /\ Pending = 0 /\ reg.created = 0
          /\ \E req \in Probes : SendHead(c, req)
       \/ SendBody(c)
       \/ ClientCloses(c)
    /\ UNCHANGED <<ws, server, registry>>

Leave(c) ==
    /\ main = "running"
    /\ ClientLeaves(c)
    /\ UNCHANGED <<http, server, registry>>

Next ==
    \/ \E c \in Conns :
          \/ Accept(c)
          \/ Client(c)
          \/ Leave(c)
          \/ Serve(c)
          \/ LeaveRoute(c)
          \/ WriteMessages(c)
          \/ SessionStep(c)
          \/ Tell(c)
    \/ ShutDown

Spec == Init /\ [][Next]_vars

-----------------------------------------------------------------------------
(* Properties.                                                             *)

\* What GraphExec assumes of a graph: one clients node at most, a start node,
\* and edges between its nodes, none out of the clients node or into options.
Playable(flow) ==
    LET Type(id) == node_map(flow.nodes)[id].type
        ids == {flow.nodes[i].id : i \in DOMAIN flow.nodes}
    IN  /\ \A i, j \in DOMAIN flow.nodes :
              flow.nodes[i].type = "clients" /\ flow.nodes[j].type = "clients"
                => i = j
        /\ flow.start \in ids
        /\ \A i \in DOMAIN flow.edges :
              LET e == flow.edges[i]
              IN  /\ {e.source, e.target} \subseteq ids
                  /\ Type(e.source) # "clients"
                  /\ Type(e.target) # "fileOptions"

\* The heads in b are those of the requests w, in this order.
HeadsAre(b, w) ==
    \E pos \in [1..Len(w) -> 1..Len(b)] :
        /\ \A i, j \in 1..Len(w) : i < j => pos[i] < pos[j]
        /\ \A i \in 1..Len(w) : /\ b[pos[i]].kind = "head"
                                /\ b[pos[i]].req = w[i]
        /\ \A k \in 1..Len(b) :
              b[k].kind = "head" => \E i \in 1..Len(w) : pos[i] = k

\* do_session answers the requests of a connection in their order, each once,
\* however they were pipelined: the request it has taken is the oldest that
\* the client waits for, and the others are those whose heads are unread, so
\* that none was passed over or answered twice.  (An upgrade that is refused
\* gets no answer, and ends the connection.)  Only a client that closed, or
\* whose head is malformed, gets a 400 for something else than a request.  All
\* this holds until octets of a body are taken for a head, and this happens
\* only behind an OPTIONS request whose body nobody read.  Whatever was read,
\* 200 to a new session is for a graph that can be played.
AnswersMatch ==
    \A c \in Conns :
        LET h == http[c]
        IN  /\ h.adrift => h.unread
            /\ ~h.adrift =>
                 /\ h.pc = "header" => HeadsAre(h.inbox, h.awaiting)
                 /\ h.pc \in {"body", "routing", "write"} =>
                      /\ h.awaiting # <<>> /\ Head(h.awaiting) = h.req
                      /\ HeadsAre(h.inbox, Tail(h.awaiting))
                 /\ h.pc = "bad" =>
                      \/ h.eof
                      \/ h.awaiting # <<>> /\ Head(h.awaiting).framing # "ok"
            /\ (/\ h.pc = "write" /\ h.status = 200
                /\ h.req.method = "POST" /\ h.req.path \in Sessions)
                 => Playable(h.req.body.flow)

\* "Queue ensuring that multiple send() calls are serialized properly": what a
\* client gets is what was sent, in order and without gaps, and nothing is
\* lost or doubled between send() and the wire; while the stream is open and
\* was so at the first write, a queue with messages has a write under way.
ToldInOrder ==
    \A c \in Conns :
        LET s == ws[c]
            queued == s.wire \o s.send_queue_
        IN  /\ queued = [i \in 1..Len(queued) |-> i]
            /\ {s.posted[i] : i \in DOMAIN s.posted} \ {Close}
                  = (Len(queued) + 1)..s.sent
            /\ \A i, j \in DOMAIN s.posted :
                  i < j /\ s.posted[j] # Close => s.posted[i] < s.posted[j]
            /\ s.status = "open" /\ ~s.early /\ s.send_queue_ # <<>>
                  => s.write # "none"

\* remove_session closes the WebSocket right after the session told its
\* outcome: a client that is still there and has had all earlier messages
\* loses it nowhere between send() and the wire, and never waits in vain.
LastWordKept ==
    \A c \in Conns :
        LET s == ws[c]
            m == due[c]
        IN  m > 0 /\ ~s.gone =>
              \/ m <= Len(s.wire)
              \/ s.posted # <<>> /\ Head(s.posted) = m /\ s.status = "open"
              \/ s.send_queue_ # <<>> /\ Head(s.send_queue_) = m
                   /\ s.write = "flight"
=============================================================================
