---------------------------- MODULE ActiveSessions ---------------------------
(***************************************************************************)
(* hermes::service::ActiveSessions: the maps of sessions and WebSockets    *)
(* and the pool of WebRTC ports, shared by the request handlers and by the *)
(* session coroutines of all io_context threads.  mutex_ makes each of the *)
(* locked blocks one step; whatever a handler does between two of them can *)
(* interleave with every other handler.  What a coroutine does inside      *)
(* start() is Session's subject and is two steps here (Start, Finish).     *)
(***************************************************************************)
EXTENDS Integers, Sequences, FiniteSets

CONSTANTS
    Ids,            \* one uuid per create_session request
    Conns,          \* one per /connect/ request, with its WebSocket
    NoConn, NoId, NoPort,
    PortStart, PortEnd      \* cfg_.janus.port_start, port_end

Ports == PortStart..PortEnd

\* The constructor's uint16_t loop ends only below the largest port.
ASSUME PortAssumption == /\ PortStart \in Nat /\ PortEnd \in Nat
                         /\ PortStart <= PortEnd
                         /\ PortEnd < 65535
ASSUME NoneAssumption == /\ NoConn \notin Conns
                         /\ NoId \notin Ids
                         /\ NoPort \notin Ports

VARIABLES
    available_webrtc_ports_,    \* std::queue<uint16_t>
    sessions_,                  \* ids in the map
    websocket_sessions_,        \* id -> WebSocket, NoConn when absent
    closed,                     \* WebSockets on which close() was called
    create,                     \* where each create_session call is
    port,                       \* its allocated_port, then janus_port_
    running,                    \* Session::is_running_ of each session
    conn,                       \* where each connection is
    target                      \* the session a connection asked for

registry == <<available_webrtc_ports_, sessions_, websocket_sessions_, closed>>
creation == <<create, port>>
connection == <<conn, target>>
vars == <<registry, creation, running, connection>>

Creates == {"none", "parsed", "parsed_webrtc", "allocated", "guarding",
            "unwinding", "returned", "failed"}
Phases == {"idle", "looked", "admitted", "spawned", "running", "ended",
           "over"}

\* The constructor fills the queue in order.
Init ==
    /\ available_webrtc_ports_ =
          [i \in 1..(PortEnd - PortStart + 1) |-> PortStart + i - 1]
    /\ sessions_ = {}
    /\ websocket_sessions_ = [id \in Ids |-> NoConn]
    /\ closed = {}
    /\ create = [id \in Ids |-> "none"]
    /\ port = [id \in Ids |-> NoPort]
    /\ running = [id \in Ids |-> FALSE]
    /\ conn = [w \in Conns |-> "idle"]
    /\ target = [w \in Conns |-> NoId]

push(p) == available_webrtc_ports_' = Append(available_webrtc_ports_, p)

-----------------------------------------------------------------------------
(* create_session.  Its branch for a failed Session::create is left out:   *)
(* that needs a graph without start node, which parse_graph rejects.       *)

\* parse_graph; which io_context the session gets is not told apart.
CreateBegin(id) ==
    /\ create[id] = "none"
    /\ \E result \in {"parsed", "parsed_webrtc", "failed"} :
          create' = [create EXCEPT ![id] = result]
    /\ UNCHANGED <<registry, port, running, connection>>

\* Mutant: front() is read after pop().
AllocateAfterPop(id) ==
    /\ create[id] = "parsed_webrtc"
    /\ available_webrtc_ports_ # <<>>
    /\ available_webrtc_ports_' = Tail(available_webrtc_ports_)
    /\ available_webrtc_ports_' # <<>>
    /\ port' = [port EXCEPT ![id] = Head(available_webrtc_ports_')]
    /\ create' = [create EXCEPT ![id] = "allocated"]
    /\ UNCHANGED <<sessions_, websocket_sessions_, closed, running,
                   connection>>

allocate_webrtc_port(id) ==
    /\ create[id] = "parsed_webrtc"
    /\ available_webrtc_ports_ # <<>>
    /\ available_webrtc_ports_' = Tail(available_webrtc_ports_)
    /\ port' = [port EXCEPT ![id] = Head(available_webrtc_ports_)]
    /\ create' = [create EXCEPT ![id] = "allocated"]
    /\ UNCHANGED <<sessions_, websocket_sessions_, closed, running,
                   connection>>

\* "No available WebRTC ports"
NoPortLeft(id) ==
    /\ create[id] = "parsed_webrtc"
    /\ available_webrtc_ports_ = <<>>
    /\ create' = [create EXCEPT ![id] = "failed"]
    /\ UNCHANGED <<registry, port, running, connection>>

\* Session::create succeeds and the session goes into the map.
Insert(id) ==
    /\ create[id] \in {"parsed", "allocated"}
    /\ sessions_' = sessions_ \cup {id}
    /\ create' = [create EXCEPT ![id] =
                    IF @ = "allocated" THEN "guarding" ELSE "returned"]
    /\ UNCHANGED <<available_webrtc_ports_, websocket_sessions_, closed, port,
                   running, connection>>

\* Session::create throws (no UDP socket, no key); route_query answers 500.
CreateThrows(id) ==
    /\ create[id] \in {"parsed", "allocated"}
    /\ create' = [create EXCEPT ![id] =
                    IF @ = "allocated" THEN "unwinding" ELSE "failed"]
    /\ UNCHANGED <<registry, port, running, connection>>

\* ~PortGuard: `released` is never set, so the port is pushed on every exit.
PortGuard(id) ==
    /\ create[id] \in {"guarding", "unwinding"}
    /\ push(port[id])
    /\ create' = [create EXCEPT ![id] =
                    IF @ = "guarding" THEN "returned" ELSE "failed"]
    /\ UNCHANGED <<sessions_, websocket_sessions_, closed, port, running,
                   connection>>

-----------------------------------------------------------------------------
(* remove_session, by POST /stop/ or by a coroutine that has ended.        *)

\* Mutant: the port is pushed without the has_value() test.
remove_session_unchecked(id) ==
    /\ id \in sessions_
    /\ sessions_' = sessions_ \ {id}
    /\ push(port[id])
    /\ running' = [running EXCEPT ![id] = FALSE]
    /\ closed' = closed \cup ({websocket_sessions_[id]} \ {NoConn})
    /\ websocket_sessions_' = [websocket_sessions_ EXCEPT ![id] = NoConn]

remove_session(id) ==
    /\ id \in sessions_
    /\ sessions_' = sessions_ \ {id}
    /\ IF port[id] # NoPort THEN push(port[id])
                            ELSE UNCHANGED available_webrtc_ports_
    /\ running' = [running EXCEPT ![id] = FALSE]
    /\ closed' = closed \cup ({websocket_sessions_[id]} \ {NoConn})
    /\ websocket_sessions_' = [websocket_sessions_ EXCEPT ![id] = NoConn]

Stop(id) ==
    /\ remove_session(id)
    /\ UNCHANGED <<creation, connection>>

-----------------------------------------------------------------------------
(* create_and_run_websocket_session and the coroutine it spawns.           *)

\* get()
Look(w, id) ==
    /\ conn[w] = "idle"
    /\ id \in sessions_
    /\ conn' = [conn EXCEPT ![w] = "looked"]
    /\ target' = [target EXCEPT ![w] = id]
    /\ UNCHANGED <<registry, creation, running>>

\* "WebSocket already connected" leaves the connection where it was.
Check(w) ==
    /\ conn[w] = "looked"
    /\ IF running[target[w]]
       THEN /\ conn' = [conn EXCEPT ![w] = "idle"]
            /\ target' = [target EXCEPT ![w] = NoId]
       ELSE /\ conn' = [conn EXCEPT ![w] = "admitted"]
            /\ UNCHANGED target
    /\ UNCHANGED <<registry, creation, running>>

\* Mutant: the WebSocket is served but not entered into the map.
AttachUnlisted(w) ==
    /\ conn[w] = "admitted"
    /\ conn' = [conn EXCEPT ![w] = "spawned"]
    /\ UNCHANGED <<registry, creation, running, target>>

\* do_accept, attach_observer, the map entry and spawn_session_coroutine.
Attach(w) ==
    /\ conn[w] = "admitted"
    /\ websocket_sessions_' = [websocket_sessions_ EXCEPT ![target[w]] = w]
    /\ conn' = [conn EXCEPT ![w] = "spawned"]
    /\ UNCHANGED <<available_webrtc_ports_, sessions_, closed, creation,
                   running, target>>

\* Session::start() begins and ends; Session models what is in between.
Start(w) ==
    /\ conn[w] = "spawned"
    /\ conn' = [conn EXCEPT ![w] = "running"]
    /\ running' = [running EXCEPT ![target[w]] = TRUE]
    /\ UNCHANGED <<registry, creation, target>>

Finish(w) ==
    /\ conn[w] = "running"
    /\ conn' = [conn EXCEPT ![w] = "ended"]
    /\ running' = [running EXCEPT ![target[w]] = FALSE]
    /\ UNCHANGED <<registry, creation, target>>

\* Mutant: the coroutine ends without remove_session.
EndWithoutRemoval(w) ==
    /\ conn[w] = "ended"
    /\ conn' = [conn EXCEPT ![w] = "over"]
    /\ UNCHANGED <<registry, creation, running, target>>

\* The coroutine's remove_session(id); SessionNotFound changes nothing.
RemoveAtEnd(w) ==
    /\ conn[w] = "ended"
    /\ conn' = [conn EXCEPT ![w] = "over"]
    /\ \/ remove_session(target[w])
       \/ target[w] \notin sessions_ /\ UNCHANGED <<registry, running>>
    /\ UNCHANGED <<creation, target>>

CoroutineStep(w) == Start(w) \/ Finish(w) \/ RemoveAtEnd(w)

Next ==
    \/ \E id \in Ids :
          \/ CreateBegin(id)
          \/ allocate_webrtc_port(id)
          \/ NoPortLeft(id)
          \/ Insert(id)
          \/ CreateThrows(id)
          \/ PortGuard(id)
          \/ Stop(id)
    \/ \E w \in Conns :
          \/ \E id \in Ids : Look(w, id)
          \/ Check(w)
          \/ Attach(w)
          \/ CoroutineStep(w)

Spec == Init /\ [][Next]_vars
-----------------------------------------------------------------------------
(* The contract with the sessions.                                         *)

StatusOf(id) == IF id \in sessions_ THEN "live"
                ELSE IF create[id] \in {"guarding", "returned"} THEN "gone"
                ELSE "new"

\* A connection is idle for every session but the one it asked for.
PhasesOf(id) == [w \in Conns |-> IF target[w] = id THEN conn[w] ELSE "idle"]

Lifecycle(id) ==
    INSTANCE SessionLifecycle
        WITH Coros <- Conns,
             status <- StatusOf(id),
             running <- running[id],
             phase <- PhasesOf(id)

-----------------------------------------------------------------------------
(* Properties.                                                             *)

\* Every variable has its type.
TypeOK ==
    /\ available_webrtc_ports_ \in Seq(Ports)
    /\ sessions_ \in SUBSET Ids
    /\ websocket_sessions_ \in [Ids -> Conns \cup {NoConn}]
    /\ closed \in SUBSET Conns
    /\ create \in [Ids -> Creates]
    /\ port \in [Ids -> Ports \cup {NoPort}]
    /\ running \in [Ids -> BOOLEAN]
    /\ conn \in [Conns -> Phases]
    /\ target \in [Conns -> Ids \cup {NoId}]

HoldsPort(queue, p) == \E i \in 1..Len(queue) : queue[i] = p

\* "RAII guard to prevent port leak": whatever create_session runs into, each
\* port stays in the queue, with a create_session call under way, or with a
\* session that remove_session will still find.
NoPortLeak ==
    \A p \in Ports :
        \/ HoldsPort(available_webrtc_ports_, p)
        \/ \E id \in Ids :
              /\ port[id] = p
              /\ create[id] \in {"allocated", "unwinding"} \/ id \in sessions_

\* remove_session of a session that a client watches finds a WebSocket to
\* close, and it is one that is still open.
SocketTracked ==
    \A w \in Conns :
        conn[w] \in {"spawned", "running", "ended"} /\ target[w] \in sessions_
        => websocket_sessions_[target[w]] \in Conns \ closed

\* "Number of WebRTC UDP ports currently available": the queue that
\* /metrics measures holds no port that a registered session streams to.
AvailablePortsAreFree ==
    \A id \in sessions_ :
        create[id] = "returned" => ~HoldsPort(available_webrtc_ports_, port[id])
=============================================================================
