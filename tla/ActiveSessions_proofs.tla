------------------------- MODULE ActiveSessions_proofs -----------------------
(***************************************************************************)
(* Proofs about the registry, for any number of ids, connections, ports.   *)
(***************************************************************************)
EXTENDS ActiveSessions, FiniteSetTheorems, TLAPS

\* A connection past get() has the session it asked for, and each session
\* was asked for only after create_session published it.
TargetInv ==
    /\ \A w \in Conns : conn[w] # "idle" => target[w] \in Ids
    /\ \A id \in Ids :
          create[id] \notin {"guarding", "returned"} =>
              /\ id \notin sessions_
              /\ \A w \in Conns : target[w] # id
    /\ \A id \in Ids :
          create[id] \in {"allocated", "guarding", "unwinding"}
              => port[id] \in Ports

RegInv == TypeOK /\ TargetInv

\* What the two queue operations do to the set of queued ports.
LEMMA PushKeeps ==
    ASSUME NEW q \in Seq(Ports), NEW p \in Ports
    PROVE  /\ Append(q, p) \in Seq(Ports)
           /\ HoldsPort(Append(q, p), p)
           /\ \A x : HoldsPort(q, x) => HoldsPort(Append(q, p), x)
  BY DEF HoldsPort

LEMMA PopKeeps ==
    ASSUME NEW q \in Seq(Ports), q # <<>>
    PROVE  /\ Head(q) \in Ports /\ Tail(q) \in Seq(Ports)
           /\ \A x : HoldsPort(q, x) => x = Head(q) \/ HoldsPort(Tail(q), x)
<1>1. Head(q) \in Ports /\ Tail(q) \in Seq(Ports)
  OBVIOUS
<1>2. ASSUME NEW x, HoldsPort(q, x), x # Head(q) PROVE HoldsPort(Tail(q), x)
  <2>1. PICK i \in 1..Len(q) : q[i] = x
    BY <1>2 DEF HoldsPort
  <2>2. i # 1
    BY <1>2, <2>1
  <2>3. i - 1 \in 1..Len(Tail(q)) /\ Tail(q)[i - 1] = x
    BY <2>1, <2>2
  <2>4. QED
    BY <2>3 DEF HoldsPort
<1>3. QED
  BY <1>1, <1>2

\* remove_session pushes the session's port, if it has one.
LEMMA RemoveKeeps ==
    ASSUME TypeOK, NEW id \in Ids, remove_session(id)
    PROVE  /\ available_webrtc_ports_' \in Seq(Ports)
           /\ port[id] \in Ports
                 => HoldsPort(available_webrtc_ports_', port[id])
           /\ \A x : HoldsPort(available_webrtc_ports_, x)
                       => HoldsPort(available_webrtc_ports_', x)
<1>1. CASE port[id] = NoPort
  BY <1>1, NoneAssumption DEF TypeOK, remove_session
<1>2. CASE port[id] # NoPort
  <2>1. /\ port[id] \in Ports
        /\ available_webrtc_ports_' = Append(available_webrtc_ports_, port[id])
    BY <1>2 DEF TypeOK, remove_session, push
  <2>2. QED
    BY <2>1, PushKeeps DEF TypeOK
<1>3. QED
  BY <1>1, <1>2

LEMMA RegStep == RegInv /\ [Next]_vars => RegInv'
<1> SUFFICES ASSUME RegInv, [Next]_vars PROVE RegInv'
  OBVIOUS
<1> USE NoneAssumption
      DEF RegInv, TypeOK, TargetInv, registry, creation, connection, Creates,
          Phases
<1>1. ASSUME NEW id \in Ids, CreateBegin(id) PROVE RegInv'
  BY <1>1 DEF CreateBegin
<1>2. ASSUME NEW id \in Ids, allocate_webrtc_port(id) PROVE RegInv'
  BY <1>2 DEF allocate_webrtc_port
<1>3. ASSUME NEW id \in Ids, NoPortLeft(id) PROVE RegInv'
  BY <1>3 DEF NoPortLeft
<1>4. ASSUME NEW id \in Ids, Insert(id) PROVE RegInv'
  BY <1>4 DEF Insert
<1>5. ASSUME NEW id \in Ids, CreateThrows(id) PROVE RegInv'
  BY <1>5 DEF CreateThrows
<1>6. ASSUME NEW id \in Ids, PortGuard(id) PROVE RegInv'
  BY <1>6 DEF PortGuard, push
<1>7. ASSUME NEW id \in Ids, Stop(id) PROVE RegInv'
  <2>1. available_webrtc_ports_' \in Seq(Ports)
    BY <1>7, RemoveKeeps DEF Stop
  <2>2. QED
    BY <1>7, <2>1 DEF Stop, remove_session
<1>8. ASSUME NEW w \in Conns, NEW id \in Ids, Look(w, id) PROVE RegInv'
  BY <1>8 DEF Look
<1>9. ASSUME NEW w \in Conns, Check(w) PROVE RegInv'
  BY <1>9 DEF Check
<1>10. ASSUME NEW w \in Conns, Attach(w) PROVE RegInv'
  BY <1>10 DEF Attach
<1>11. ASSUME NEW w \in Conns, Start(w) PROVE RegInv'
  BY <1>11 DEF Start
<1>12. ASSUME NEW w \in Conns, Finish(w) PROVE RegInv'
  BY <1>12 DEF Finish
<1>13. ASSUME NEW w \in Conns, RemoveAtEnd(w) PROVE RegInv'
  <2>1. target[w] \in Ids
    BY <1>13 DEF RemoveAtEnd
  <2>2. available_webrtc_ports_' \in Seq(Ports)
    BY <1>13, <2>1, RemoveKeeps DEF RemoveAtEnd
  <2>3. /\ sessions_' \in SUBSET sessions_
        /\ websocket_sessions_' \in [Ids -> Conns \cup {NoConn}]
        /\ closed' \in SUBSET Conns
        /\ running' \in [Ids -> BOOLEAN]
    <3>1. CASE UNCHANGED <<registry, running>>
      BY <3>1
    <3>2. CASE remove_session(target[w])
      BY <2>1, <3>2 DEF remove_session
    <3>3. QED
      BY <1>13, <3>1, <3>2 DEF RemoveAtEnd
  <2>4. UNCHANGED <<create, port, target>>
    BY <1>13 DEF RemoveAtEnd
  <2>5. conn' = [conn EXCEPT ![w] = "over"] /\ conn[w] # "idle"
    BY <1>13 DEF RemoveAtEnd
  <2>6. QED
    BY <2>2, <2>3, <2>4, <2>5
<1>14. CASE UNCHANGED vars
  BY <1>14 DEF vars
<1>15. QED
  BY <1>1, <1>2, <1>3, <1>4, <1>5, <1>6, <1>7, <1>8, <1>9, <1>10, <1>11,
     <1>12, <1>13, <1>14 DEF Next, CoroutineStep

LEMMA RegInvariant == Spec => []RegInv
<1>1. Init => RegInv
  BY PortAssumption, NoneAssumption
     DEF Init, RegInv, TypeOK, TargetInv, Creates, Phases, Ports
<1>2. QED
  BY <1>1, RegStep, PTL DEF Spec

\* The type invariant of the registry.
THEOREM TypeCorrect == Spec => []TypeOK
  BY RegInvariant, PTL DEF RegInv

-----------------------------------------------------------------------------
LEMMA LeakStep == RegInv /\ NoPortLeak /\ [Next]_vars => NoPortLeak'
<1> SUFFICES ASSUME RegInv, NoPortLeak, [Next]_vars PROVE NoPortLeak'
  OBVIOUS
<1> USE NoneAssumption
      DEF RegInv, TypeOK, TargetInv, NoPortLeak, registry, creation,
          connection, Creates
<1>1. ASSUME NEW id \in Ids, CreateBegin(id) PROVE NoPortLeak'
  BY <1>1 DEF CreateBegin
<1>2. ASSUME NEW id \in Ids, allocate_webrtc_port(id) PROVE NoPortLeak'
  <2>1. \A x : HoldsPort(available_webrtc_ports_, x)
                  => x = port'[id] \/ HoldsPort(available_webrtc_ports_', x)
    BY <1>2, PopKeeps DEF allocate_webrtc_port
  <2>2. QED
    BY <1>2, <2>1 DEF allocate_webrtc_port
<1>3. ASSUME NEW id \in Ids, NoPortLeft(id) PROVE NoPortLeak'
  BY <1>3 DEF NoPortLeft
<1>4. ASSUME NEW id \in Ids, Insert(id) PROVE NoPortLeak'
  BY <1>4 DEF Insert
<1>5. ASSUME NEW id \in Ids, CreateThrows(id) PROVE NoPortLeak'
  BY <1>5 DEF CreateThrows
<1>6. ASSUME NEW id \in Ids, PortGuard(id) PROVE NoPortLeak'
  <2>1. port[id] \in Ports
    BY <1>6 DEF PortGuard
  <2>2. /\ HoldsPort(available_webrtc_ports_', port[id])
        /\ \A x : HoldsPort(available_webrtc_ports_, x)
                    => HoldsPort(available_webrtc_ports_', x)
    BY <1>6, <2>1, PushKeeps DEF PortGuard, push
  <2>3. QED
    BY <1>6, <2>2 DEF PortGuard
<1>7. ASSUME NEW id \in Ids, Stop(id) PROVE NoPortLeak'
  <2>1. /\ port[id] \in Ports
              => HoldsPort(available_webrtc_ports_', port[id])
        /\ \A x : HoldsPort(available_webrtc_ports_, x)
                    => HoldsPort(available_webrtc_ports_', x)
    BY <1>7, RemoveKeeps DEF Stop
  <2>2. QED
    BY <1>7, <2>1 DEF Stop, remove_session
<1>8. ASSUME NEW w \in Conns, NEW id \in Ids, Look(w, id) PROVE NoPortLeak'
  BY <1>8 DEF Look
<1>9. ASSUME NEW w \in Conns, Check(w) PROVE NoPortLeak'
  BY <1>9 DEF Check
<1>10. ASSUME NEW w \in Conns, Attach(w) PROVE NoPortLeak'
  BY <1>10 DEF Attach
<1>11. ASSUME NEW w \in Conns, Start(w) PROVE NoPortLeak'
  BY <1>11 DEF Start
<1>12. ASSUME NEW w \in Conns, Finish(w) PROVE NoPortLeak'
  BY <1>12 DEF Finish
<1>13. ASSUME NEW w \in Conns, RemoveAtEnd(w) PROVE NoPortLeak'
  <2>1. CASE target[w] \notin sessions_
    BY <1>13, <2>1 DEF RemoveAtEnd, remove_session
  <2>2. CASE remove_session(target[w])
    <3>1. target[w] \in Ids
      BY <1>13 DEF RemoveAtEnd
    <3>2. /\ port[target[w]] \in Ports
                => HoldsPort(available_webrtc_ports_', port[target[w]])
          /\ \A x : HoldsPort(available_webrtc_ports_, x)
                      => HoldsPort(available_webrtc_ports_', x)
      BY <2>2, <3>1, RemoveKeeps
    <3>3. QED
      BY <1>13, <2>2, <3>1, <3>2 DEF RemoveAtEnd, remove_session
  <2>3. QED
    BY <1>13, <2>1, <2>2 DEF RemoveAtEnd
<1>14. CASE UNCHANGED vars
  BY <1>14 DEF vars
<1>15. QED
  BY <1>1, <1>2, <1>3, <1>4, <1>5, <1>6, <1>7, <1>8, <1>9, <1>10, <1>11,
     <1>12, <1>13, <1>14 DEF Next, CoroutineStep

\* No WebRTC port is ever lost: not by an exception in create_session, nor by
\* a stop that races with the guard, nor by two removals of one session.
THEOREM PortsKept == Spec => []NoPortLeak
<1>1. ASSUME Init, NEW p \in Ports PROVE HoldsPort(available_webrtc_ports_, p)
  <2>1. /\ p - PortStart + 1 \in 1..(PortEnd - PortStart + 1)
        /\ Len(available_webrtc_ports_) = PortEnd - PortStart + 1
        /\ available_webrtc_ports_[p - PortStart + 1] = p
    BY <1>1, PortAssumption DEF Init, Ports
  <2>2. QED
    BY <2>1 DEF HoldsPort
<1>2. Init => NoPortLeak
  BY <1>1 DEF NoPortLeak
<1>3. QED
  BY <1>2, LeakStep, RegInvariant, PTL DEF Spec

-----------------------------------------------------------------------------
\* A WebSocket is entered under the session it asked for, once, and is closed
\* only together with its entry.
SockInv ==
    /\ \A w \in Conns :
          conn[w] \in {"idle", "looked", "admitted"}
              => w \notin closed /\ \A id \in Ids : websocket_sessions_[id] # w
    /\ \A id \in Ids :
          websocket_sessions_[id] \in Conns
              => target[websocket_sessions_[id]] = id
    /\ \A id \in sessions_ : websocket_sessions_[id] \notin closed
    /\ SocketTracked

LEMMA SockStep == RegInv /\ SockInv /\ [Next]_vars => SockInv'
<1> SUFFICES ASSUME RegInv, SockInv, [Next]_vars PROVE SockInv'
  OBVIOUS
<1> USE NoneAssumption
      DEF RegInv, TypeOK, TargetInv, SockInv, SocketTracked, registry,
          creation, connection, Phases
<1>1. ASSUME NEW id \in Ids, CreateBegin(id) PROVE SockInv'
  BY <1>1 DEF CreateBegin
<1>2. ASSUME NEW id \in Ids, allocate_webrtc_port(id) PROVE SockInv'
  BY <1>2 DEF allocate_webrtc_port
<1>3. ASSUME NEW id \in Ids, NoPortLeft(id) PROVE SockInv'
  BY <1>3 DEF NoPortLeft
<1>4. ASSUME NEW id \in Ids, Insert(id) PROVE SockInv'
  BY <1>4 DEF Insert
<1>5. ASSUME NEW id \in Ids, CreateThrows(id) PROVE SockInv'
  BY <1>5 DEF CreateThrows
<1>6. ASSUME NEW id \in Ids, PortGuard(id) PROVE SockInv'
  BY <1>6 DEF PortGuard, push
<1>7. ASSUME NEW id \in Ids, Stop(id) PROVE SockInv'
  BY <1>7 DEF Stop, remove_session, push
<1>8. ASSUME NEW w \in Conns, NEW id \in Ids, Look(w, id) PROVE SockInv'
  BY <1>8 DEF Look
<1>9. ASSUME NEW w \in Conns, Check(w) PROVE SockInv'
  BY <1>9 DEF Check
<1>10. ASSUME NEW w \in Conns, Attach(w) PROVE SockInv'
  BY <1>10 DEF Attach
<1>11. ASSUME NEW w \in Conns, Start(w) PROVE SockInv'
  BY <1>11 DEF Start
<1>12. ASSUME NEW w \in Conns, Finish(w) PROVE SockInv'
  BY <1>12 DEF Finish
<1>13. ASSUME NEW w \in Conns, RemoveAtEnd(w) PROVE SockInv'
  BY <1>13 DEF RemoveAtEnd, remove_session, push
<1>14. CASE UNCHANGED vars
  BY <1>14 DEF vars
<1>15. QED
  BY <1>1, <1>2, <1>3, <1>4, <1>5, <1>6, <1>7, <1>8, <1>9, <1>10, <1>11,
     <1>12, <1>13, <1>14 DEF Next, CoroutineStep

\* Removing a session that a client watches closes an open WebSocket.
THEOREM SocketsTracked == Spec => []SocketTracked
<1>1. Init => SockInv
  BY NoneAssumption DEF Init, SockInv, SocketTracked
<1>2. SockInv => SocketTracked
  BY DEF SockInv
<1>3. QED
  BY <1>1, <1>2, SockStep, RegInvariant, PTL DEF Spec

-----------------------------------------------------------------------------
(* The contract with the sessions: every step is, for each session id, one *)
(* of SessionLifecycle or one that it does not see.                        *)

\* A step that leaves the maps, is_running and the connections alone.
LEMMA Unseen ==
    ASSUME NEW id, StatusOf(id)' = StatusOf(id), UNCHANGED <<running, connection>>
    PROVE  [Lifecycle(id)!Next]_(Lifecycle(id)!vars)
<1>1. PhasesOf(id)' = PhasesOf(id) /\ running'[id] = running[id]
  BY DEF PhasesOf, connection
<1> QED
  BY <1>1 DEF Lifecycle!vars

\* A connection moves on for the session it asked for, and for no other.
LEMMA Moves ==
    ASSUME RegInv, NEW id \in Ids, NEW w \in Conns, NEW phase,
           conn' = [conn EXCEPT ![w] = phase], UNCHANGED target
    PROVE  /\ target[w] = id => /\ PhasesOf(id)[w] = conn[w]
                                /\ PhasesOf(id)' = [PhasesOf(id) EXCEPT ![w] = phase]
           /\ target[w] # id => PhasesOf(id)' = PhasesOf(id)
<1>1. \A v \in Conns : conn'[v] = IF v = w THEN phase ELSE conn[v]
  BY DEF RegInv, TypeOK
<1>2. PhasesOf(id)' = [v \in Conns |-> IF target[v] = id THEN conn'[v] ELSE "idle"]
  BY DEF PhasesOf
<1>3. ASSUME target[w] = id
      PROVE  /\ PhasesOf(id)[w] = conn[w]
             /\ PhasesOf(id)' = [PhasesOf(id) EXCEPT ![w] = phase]
  BY <1>1, <1>2, <1>3 DEF PhasesOf
<1>4. ASSUME target[w] # id PROVE PhasesOf(id)' = PhasesOf(id)
  <2>1. \A v \in Conns : target[v] = id => conn'[v] = conn[v]
    BY <1>1, <1>4
  <2> QED
    BY <1>2, <2>1 DEF PhasesOf
<1> QED
  BY <1>3, <1>4

\* remove_session for the session and for another one.
LEMMA RemoveSeen ==
    ASSUME RegInv, NEW id \in Ids, NEW i \in Ids, remove_session(i),
           UNCHANGED create
    PROVE  /\ i = id => /\ StatusOf(id) = "live" /\ StatusOf(id)' = "gone"
                        /\ running'[id] = FALSE
           /\ i # id => /\ StatusOf(id)' = StatusOf(id)
                        /\ running'[id] = running[id]
<1>1. /\ i \in sessions_ /\ sessions_' = sessions_ \ {i}
      /\ running' = [running EXCEPT ![i] = FALSE]
  BY DEF remove_session
<1>2. create[i] \in {"guarding", "returned"}
  BY <1>1 DEF RegInv, TargetInv
<1>3. \A j \in Ids : running'[j] = IF j = i THEN FALSE ELSE running[j]
  BY <1>1 DEF RegInv, TypeOK
<1>4. i = id => StatusOf(id) = "live" /\ StatusOf(id)' = "gone"
  BY <1>1, <1>2 DEF StatusOf
<1>5. i # id => StatusOf(id)' = StatusOf(id)
  BY <1>1 DEF StatusOf
<1> QED
  BY <1>3, <1>4, <1>5

LEMMA ContractStep ==
    ASSUME RegInv, [Next]_vars, NEW id \in Ids
    PROVE  [Lifecycle(id)!Next]_(Lifecycle(id)!vars)
<1> DEFINE Goal == [Lifecycle(id)!Next]_(Lifecycle(id)!vars)
<1>1. /\ create \in [Ids -> Creates] /\ running \in [Ids -> BOOLEAN]
      /\ \A i \in Ids : i \in sessions_ => create[i] \in {"guarding", "returned"}
  BY DEF RegInv, TypeOK, TargetInv
<1>2. ASSUME NEW i \in Ids, \/ CreateBegin(i) \/ allocate_webrtc_port(i)
                            \/ NoPortLeft(i) \/ CreateThrows(i) \/ PortGuard(i)
      PROVE  Goal
  <2>1. UNCHANGED <<sessions_, running, connection>>
    BY <1>2 DEF CreateBegin, allocate_webrtc_port, NoPortLeft, CreateThrows,
                PortGuard, registry
  <2>2. /\ \A j \in Ids : j # i => create'[j] = create[j]
        /\ create'[i] \in {"guarding", "returned"}
              <=> create[i] \in {"guarding", "returned"}
    BY <1>1, <1>2 DEF CreateBegin, allocate_webrtc_port, NoPortLeft,
                      CreateThrows, PortGuard
  <2>3. StatusOf(id)' = StatusOf(id)
    BY <2>1, <2>2 DEF StatusOf
  <2> QED
    BY <2>1, <2>3, Unseen
<1>3. ASSUME NEW i \in Ids, Insert(i) PROVE Goal
  <2>1. /\ create[i] \in {"parsed", "allocated"} /\ UNCHANGED <<running, connection>>
        /\ sessions_' = sessions_ \cup {i}
        /\ \A j \in Ids : j # i => create'[j] = create[j]
    BY <1>1, <1>3 DEF Insert
  <2>2. CASE i = id
    <3>1. StatusOf(id) = "new" /\ StatusOf(id)' = "live"
      BY <1>1, <2>1, <2>2 DEF StatusOf
    <3>2. PhasesOf(id)' = PhasesOf(id) /\ running'[id] = running[id]
      BY <2>1 DEF PhasesOf, connection
    <3>3. Lifecycle(id)!Publish
      BY <3>1, <3>2 DEF Lifecycle!Publish
    <3> QED
      BY <3>3 DEF Lifecycle!Next
  <2>3. CASE i # id
    <3>1. StatusOf(id)' = StatusOf(id)
      BY <2>1, <2>3 DEF StatusOf
    <3> QED
      BY <2>1, <3>1, Unseen
  <2> QED
    BY <2>2, <2>3
<1>4. ASSUME NEW i \in Ids, Stop(i) PROVE Goal
  <2>1. remove_session(i) /\ UNCHANGED <<create, connection>>
    BY <1>4 DEF Stop, creation
  <2>2. PhasesOf(id)' = PhasesOf(id)
    BY <2>1 DEF PhasesOf, connection
  <2>3. CASE i = id
    <3>1. Lifecycle(id)!Remove
      BY <2>1, <2>2, <2>3, RemoveSeen DEF Lifecycle!Remove
    <3> QED
      BY <3>1 DEF Lifecycle!Next
  <2>4. CASE i # id
    BY <2>1, <2>2, <2>4, RemoveSeen DEF Lifecycle!vars
  <2> QED
    BY <2>3, <2>4
<1>5. ASSUME NEW w \in Conns, NEW i \in Ids, Look(w, i) PROVE Goal
  <2>1. /\ conn[w] = "idle" /\ i \in sessions_
        /\ conn' = [conn EXCEPT ![w] = "looked"]
        /\ target' = [target EXCEPT ![w] = i]
        /\ UNCHANGED <<sessions_, create, running>>
    BY <1>5 DEF Look, registry, creation
  <2>2. StatusOf(id)' = StatusOf(id) /\ running'[id] = running[id]
    BY <2>1 DEF StatusOf
  <2>3. \A v \in Conns : /\ conn'[v] = IF v = w THEN "looked" ELSE conn[v]
                         /\ target'[v] = IF v = w THEN i ELSE target[v]
    BY <2>1 DEF RegInv, TypeOK
  <2>4. PhasesOf(id)' = [v \in Conns |-> IF target'[v] = id THEN conn'[v] ELSE "idle"]
    BY DEF PhasesOf
  <2>5. PhasesOf(id)[w] = "idle"
    BY <2>1 DEF PhasesOf
  <2>6. CASE i = id
    <3>1. PhasesOf(id)' = [PhasesOf(id) EXCEPT ![w] = "looked"]
      BY <2>3, <2>4, <2>6 DEF PhasesOf
    <3>2. StatusOf(id) = "live"
      BY <2>1, <2>6 DEF StatusOf
    <3>3. Lifecycle(id)!Look(w)
      BY <2>2, <2>5, <3>1, <3>2 DEF Lifecycle!Look, Lifecycle!Move
    <3> QED
      BY <3>3 DEF Lifecycle!Next
  <2>7. CASE i # id
    <3>1. \A v \in Conns : (IF target'[v] = id THEN conn'[v] ELSE "idle")
                             = IF target[v] = id THEN conn[v] ELSE "idle"
      BY <2>1, <2>3, <2>7
    <3>2. PhasesOf(id)' = PhasesOf(id)
      BY <2>4, <3>1 DEF PhasesOf
    <3> QED
      BY <2>2, <3>2 DEF Lifecycle!vars
  <2> QED
    BY <2>6, <2>7
<1>6. ASSUME NEW w \in Conns, Check(w) PROVE Goal
  <2>1. conn[w] = "looked" /\ UNCHANGED <<sessions_, create, running>>
    BY <1>6 DEF Check, registry, creation
  <2>2. StatusOf(id)' = StatusOf(id) /\ running'[id] = running[id]
    BY <2>1 DEF StatusOf
  <2>3. CASE running[target[w]]
    <3>1. /\ conn' = [conn EXCEPT ![w] = "idle"]
          /\ target' = [target EXCEPT ![w] = NoId]
      BY <1>6, <2>3 DEF Check
    <3>2. \A v \in Conns : /\ conn'[v] = IF v = w THEN "idle" ELSE conn[v]
                           /\ target'[v] = IF v = w THEN NoId ELSE target[v]
      BY <3>1 DEF RegInv, TypeOK
    <3>3. PhasesOf(id)' = [v \in Conns |->
                              IF target'[v] = id THEN conn'[v] ELSE "idle"]
      BY DEF PhasesOf
    <3>4. NoId # id
      BY NoneAssumption
    <3>5. CASE target[w] = id
      <4>1. PhasesOf(id)[w] = "looked"
        BY <2>1, <3>5 DEF PhasesOf
      <4>2. PhasesOf(id)' = [PhasesOf(id) EXCEPT ![w] = "idle"]
        BY <3>2, <3>3, <3>4 DEF PhasesOf
      <4>3. Lifecycle(id)!Refuse(w)
        BY <2>2, <2>3, <3>5, <4>1, <4>2 DEF Lifecycle!Refuse, Lifecycle!Move
      <4> QED
        BY <4>3 DEF Lifecycle!Next
    <3>6. CASE target[w] # id
      <4>1. \A v \in Conns : (IF target'[v] = id THEN conn'[v] ELSE "idle")
                               = IF target[v] = id THEN conn[v] ELSE "idle"
        BY <3>2, <3>4, <3>6
      <4>2. PhasesOf(id)' = PhasesOf(id)
        BY <3>3, <4>1 DEF PhasesOf
      <4> QED
        BY <2>2, <4>2 DEF Lifecycle!vars
    <3> QED
      BY <3>5, <3>6
  <2>4. CASE ~running[target[w]]
    <3>1. conn' = [conn EXCEPT ![w] = "admitted"] /\ UNCHANGED target
      BY <1>6, <2>4 DEF Check
    <3>2. CASE target[w] = id
      <4>1. Lifecycle(id)!Admit(w)
        BY <2>1, <2>2, <2>4, <3>1, <3>2, Moves DEF Lifecycle!Admit, Lifecycle!Move
      <4> QED
        BY <4>1 DEF Lifecycle!Next
    <3>3. CASE target[w] # id
      BY <2>2, <3>1, <3>3, Moves DEF Lifecycle!vars
    <3> QED
      BY <3>2, <3>3
  <2> QED
    BY <2>3, <2>4
<1>7. ASSUME NEW w \in Conns, Attach(w) PROVE Goal
  <2>1. /\ conn[w] = "admitted" /\ conn' = [conn EXCEPT ![w] = "spawned"]
        /\ UNCHANGED <<sessions_, create, running, target>>
    BY <1>7 DEF Attach, creation
  <2>2. StatusOf(id)' = StatusOf(id) /\ running'[id] = running[id]
    BY <2>1 DEF StatusOf
  <2>3. CASE target[w] = id
    <3>1. Lifecycle(id)!Spawn(w)
      BY <2>1, <2>2, <2>3, Moves DEF Lifecycle!Spawn, Lifecycle!Move
    <3> QED
      BY <3>1 DEF Lifecycle!Next
  <2>4. CASE target[w] # id
    BY <2>1, <2>2, <2>4, Moves DEF Lifecycle!vars
  <2> QED
    BY <2>3, <2>4
<1>8. ASSUME NEW w \in Conns, Start(w) PROVE Goal
  <2>1. /\ conn[w] = "spawned" /\ conn' = [conn EXCEPT ![w] = "running"]
        /\ running' = [running EXCEPT ![target[w]] = TRUE]
        /\ UNCHANGED <<sessions_, create, target>>
    BY <1>8 DEF Start, registry, creation
  <2>2. StatusOf(id)' = StatusOf(id)
    BY <2>1 DEF StatusOf
  <2>3. running'[id] = IF target[w] = id THEN TRUE ELSE running[id]
    BY <1>1, <2>1
  <2>4. CASE target[w] = id
    <3>1. Lifecycle(id)!Start(w)
      BY <2>1, <2>2, <2>3, <2>4, Moves DEF Lifecycle!Start, Lifecycle!Move
    <3> QED
      BY <3>1 DEF Lifecycle!Next
  <2>5. CASE target[w] # id
    BY <2>1, <2>2, <2>3, <2>5, Moves DEF Lifecycle!vars
  <2> QED
    BY <2>4, <2>5
<1>9. ASSUME NEW w \in Conns, Finish(w) PROVE Goal
  <2>1. /\ conn[w] = "running" /\ conn' = [conn EXCEPT ![w] = "ended"]
        /\ running' = [running EXCEPT ![target[w]] = FALSE]
        /\ UNCHANGED <<sessions_, create, target>>
    BY <1>9 DEF Finish, registry, creation
  <2>2. StatusOf(id)' = StatusOf(id)
    BY <2>1 DEF StatusOf
  <2>3. running'[id] = IF target[w] = id THEN FALSE ELSE running[id]
    BY <1>1, <2>1
  <2>4. CASE target[w] = id
    <3>1. Lifecycle(id)!Finish(w)
      BY <2>1, <2>2, <2>3, <2>4, Moves DEF Lifecycle!Finish, Lifecycle!Move
    <3> QED
      BY <3>1 DEF Lifecycle!Next
  <2>5. CASE target[w] # id
    BY <2>1, <2>2, <2>3, <2>5, Moves DEF Lifecycle!vars
  <2> QED
    BY <2>4, <2>5
<1>10. ASSUME NEW w \in Conns, RemoveAtEnd(w) PROVE Goal
  <2>1. /\ conn[w] = "ended" /\ conn' = [conn EXCEPT ![w] = "over"]
        /\ UNCHANGED <<create, target>>
    BY <1>10 DEF RemoveAtEnd, creation
  <2>2. target[w] \in Ids
    BY <2>1 DEF RegInv, TargetInv
  <2>3. CASE remove_session(target[w])
    <3>1. CASE target[w] = id
      <4>1. /\ StatusOf(id) = "live" /\ StatusOf(id)' = "gone"
            /\ running'[id] = FALSE
        BY <2>1, <2>2, <2>3, <3>1, RemoveSeen
      <4>2. Lifecycle(id)!RemoveAtEnd(w)
        BY <2>1, <3>1, <4>1, Moves DEF Lifecycle!RemoveAtEnd, Lifecycle!Move
      <4> QED
        BY <4>2 DEF Lifecycle!Next
    <3>2. CASE target[w] # id
      <4>1. StatusOf(id)' = StatusOf(id) /\ running'[id] = running[id]
        BY <2>1, <2>2, <2>3, <3>2, RemoveSeen
      <4> QED
        BY <2>1, <3>2, <4>1, Moves DEF Lifecycle!vars
    <3> QED
      BY <3>1, <3>2
  <2>4. CASE target[w] \notin sessions_ /\ UNCHANGED <<registry, running>>
    <3>1. StatusOf(id)' = StatusOf(id) /\ running'[id] = running[id]
      BY <2>1, <2>4 DEF StatusOf, registry
    <3>2. CASE target[w] = id
      <4>1. StatusOf(id) # "live"
        BY <2>4, <3>2 DEF StatusOf
      <4>2. Lifecycle(id)!RemoveAtEnd(w)
        BY <2>1, <3>1, <3>2, <4>1, Moves DEF Lifecycle!RemoveAtEnd, Lifecycle!Move
      <4> QED
        BY <4>2 DEF Lifecycle!Next
    <3>3. CASE target[w] # id
      BY <2>1, <3>1, <3>3, Moves DEF Lifecycle!vars
    <3> QED
      BY <3>2, <3>3
  <2> QED
    BY <1>10, <2>3, <2>4 DEF RemoveAtEnd
<1>11. ASSUME UNCHANGED vars PROVE Goal
  <2>1. StatusOf(id)' = StatusOf(id) /\ UNCHANGED <<running, connection>>
    BY <1>11 DEF StatusOf, vars, registry, creation
  <2> QED
    BY <2>1, Unseen
<1> HIDE DEF Goal
<1>12. Goal
  BY <1>2, <1>3, <1>4, <1>5, <1>6, <1>7, <1>8, <1>9, <1>10, <1>11
     DEF Next, CoroutineStep
<1> QED
  BY <1>12 DEF Goal

\* The registry implements SessionLifecycle for every session, whatever it
\* does at the same time for the others and for the ports.
THEOREM ContractKept ==
    ASSUME NEW id \in Ids
    PROVE  Spec => Lifecycle(id)!Spec
<1>1. ASSUME Init PROVE Lifecycle(id)!Init
  <2>1. PhasesOf(id) = [w \in Conns |-> "idle"] /\ StatusOf(id) = "new"
    BY <1>1 DEF Init, PhasesOf, StatusOf
  <2>2. running[id] = FALSE
    BY <1>1 DEF Init
  <2> QED
    BY <2>1, <2>2 DEF Lifecycle!Init
<1>2. RegInv /\ [Next]_vars => [Lifecycle(id)!Next]_(Lifecycle(id)!vars)
  BY ContractStep
<1> QED
  BY <1>1, <1>2, RegInvariant, PTL DEF Spec, Lifecycle!Spec

-----------------------------------------------------------------------------
(* What the contract means, for any number of connections: its invariant   *)
(* is a matter of SessionLifecycle alone.                                  *)

\* The parts are inductive together: the second says what a removal leaves
\* behind, the third what a started coroutine keeps true.
ContractInv(id) == /\ Lifecycle(id)!TypeOK
                   /\ Lifecycle(id)!OverMeansGone
                   /\ Lifecycle(id)!RunningMeansExecuting

LEMMA ContractInvStep ==
    ASSUME NEW id, ContractInv(id), [Lifecycle(id)!Next]_(Lifecycle(id)!vars)
    PROVE  ContractInv(id)'
<1> USE DEF ContractInv, Lifecycle!TypeOK, Lifecycle!OverMeansGone,
            Lifecycle!RunningMeansExecuting, Lifecycle!Phases
<1>1. CASE Lifecycle(id)!Publish
  BY <1>1 DEF Lifecycle!Publish
<1>2. CASE Lifecycle(id)!Remove
  BY <1>2 DEF Lifecycle!Remove
<1>3. ASSUME NEW w \in Conns, Lifecycle(id)!Look(w) PROVE ContractInv(id)'
  BY <1>3 DEF Lifecycle!Look, Lifecycle!Move
<1>4. ASSUME NEW w \in Conns, Lifecycle(id)!Admit(w) PROVE ContractInv(id)'
  BY <1>4 DEF Lifecycle!Admit, Lifecycle!Move
<1>5. ASSUME NEW w \in Conns, Lifecycle(id)!Refuse(w) PROVE ContractInv(id)'
  BY <1>5 DEF Lifecycle!Refuse, Lifecycle!Move
<1>6. ASSUME NEW w \in Conns, Lifecycle(id)!Spawn(w) PROVE ContractInv(id)'
  BY <1>6 DEF Lifecycle!Spawn, Lifecycle!Move
<1>7. ASSUME NEW w \in Conns, Lifecycle(id)!Start(w) PROVE ContractInv(id)'
  BY <1>7 DEF Lifecycle!Start, Lifecycle!Move
<1>8. ASSUME NEW w \in Conns, Lifecycle(id)!Finish(w) PROVE ContractInv(id)'
  <2>1. StatusOf(id) # "new"
    BY <1>8 DEF Lifecycle!Finish, Lifecycle!Move
  <2> QED
    BY <1>8, <2>1 DEF Lifecycle!Finish, Lifecycle!Move
<1>9. ASSUME NEW w \in Conns, Lifecycle(id)!RemoveAtEnd(w)
      PROVE  ContractInv(id)'
  <2>1. StatusOf(id) # "new" /\ StatusOf(id)' = "gone"
    BY <1>9 DEF Lifecycle!RemoveAtEnd, Lifecycle!Move
  <2>2. Lifecycle(id)!TypeOK' /\ Lifecycle(id)!OverMeansGone'
    BY <1>9, <2>1 DEF Lifecycle!RemoveAtEnd, Lifecycle!Move
  <2>3. Lifecycle(id)!RunningMeansExecuting'
    BY <1>9 DEF Lifecycle!RemoveAtEnd, Lifecycle!Move
  <2> QED
    BY <2>2, <2>3
<1>10. CASE UNCHANGED Lifecycle(id)!vars
  BY <1>10 DEF Lifecycle!vars
<1> QED
  BY <1>1, <1>2, <1>3, <1>4, <1>5, <1>6, <1>7, <1>8, <1>9, <1>10
     DEF Lifecycle!Next

LEMMA ContractInvariant ==
    ASSUME NEW id \in Ids
    PROVE  Spec => []ContractInv(id)
<1>1. Lifecycle(id)!Init => ContractInv(id)
  BY DEF Lifecycle!Init, ContractInv, Lifecycle!TypeOK, Lifecycle!Phases,
         Lifecycle!OverMeansGone, Lifecycle!RunningMeansExecuting
<1>2. ContractInv(id) /\ [Lifecycle(id)!Next]_(Lifecycle(id)!vars)
        => ContractInv(id)'
  BY ContractInvStep
<1> QED
  BY <1>1, <1>2, ContractKept, PTL DEF Lifecycle!Spec

\* A session whose coroutine is over is no longer registered, however many
\* connections raced for it.
THEOREM OverGone ==
    ASSUME NEW id \in Ids
    PROVE  Spec => []Lifecycle(id)!OverMeansGone
  BY ContractInvariant, PTL DEF ContractInv

\* A connection is refused only while a coroutine executes start().
THEOREM RunningExecutes ==
    ASSUME NEW id \in Ids
    PROVE  Spec => []Lifecycle(id)!RunningMeansExecuting
  BY ContractInvariant, PTL DEF ContractInv

-----------------------------------------------------------------------------
(* How many ports the pool has.                                            *)

\* The create_session calls that have a port out of the queue, and the WebRTC
\* sessions that were removed.
Holding == {id \in Ids : create[id] \in {"allocated", "guarding", "unwinding"}}
Freed == {id \in Ids : /\ create[id] \in {"guarding", "returned"}
                       /\ port[id] # NoPort /\ id \notin sessions_}

\* Each port comes back once for the guard and once more for the session.
PoolCount ==
    Len(available_webrtc_ports_) + Cardinality(Holding)
        = (PortEnd - PortStart + 1) + Cardinality(Freed)

PoolInv == IsFiniteSet(Holding) /\ IsFiniteSet(Freed) /\ PoolCount

\* remove_session, whoever calls it.
LEMMA RemoveCounts ==
    ASSUME RegInv, PoolInv, NEW id \in Ids, remove_session(id),
           UNCHANGED creation
    PROVE  PoolInv'
<1> USE DEF RegInv, TypeOK, TargetInv, PoolInv, creation
<1>1. /\ id \in sessions_ /\ sessions_' = sessions_ \ {id}
      /\ UNCHANGED <<create, port>>
      /\ create[id] \in {"guarding", "returned"}
  BY DEF remove_session
<1>2. Holding' = Holding
  BY <1>1 DEF Holding
<1>3. /\ Cardinality(Holding) \in Nat /\ Cardinality(Freed) \in Nat
      /\ Len(available_webrtc_ports_) \in Nat
  BY FS_CardinalityType
<1>4. CASE port[id] = NoPort
  <2>1. Freed' = Freed
    BY <1>1, <1>4 DEF Freed
  <2>2. UNCHANGED available_webrtc_ports_
    BY <1>4 DEF remove_session
  <2>3. QED
    BY <1>2, <2>1, <2>2 DEF PoolCount
<1>5. CASE port[id] # NoPort
  <2>1. Freed' = Freed \cup {id} /\ id \notin Freed
    BY <1>1, <1>5 DEF Freed
  <2>2. IsFiniteSet(Freed') /\ Cardinality(Freed') = Cardinality(Freed) + 1
    BY <2>1, FS_AddElement
  <2>3. Len(available_webrtc_ports_') = Len(available_webrtc_ports_) + 1
    BY <1>5 DEF remove_session, push
  <2>4. Len(available_webrtc_ports_) + Cardinality(Holding)
           = (PortEnd - PortStart + 1) + Cardinality(Freed)
    BY DEF PoolCount
  <2> HIDE DEF RegInv, TypeOK, TargetInv, PoolInv
  <2>5. PoolCount'
    BY <1>2, <1>3, <2>2, <2>3, <2>4, PortAssumption DEF PoolCount
  <2>6. QED
    BY <1>2, <2>2, <2>5 DEF PoolInv
<1>6. QED
  BY <1>4, <1>5

\* Every step of the registry.
LEMMA PoolStep == RegInv /\ PoolInv /\ [Next]_vars => PoolInv'
<1> SUFFICES ASSUME RegInv, PoolInv, [Next]_vars PROVE PoolInv'
  OBVIOUS
<1> USE DEF RegInv, TypeOK, TargetInv, PoolInv, Creates
<1>1. /\ Cardinality(Holding) \in Nat /\ Cardinality(Freed) \in Nat
      /\ Len(available_webrtc_ports_) \in Nat
  BY FS_CardinalityType
<1>2. ASSUME UNCHANGED available_webrtc_ports_, Holding' = Holding, Freed' = Freed
      PROVE  PoolInv'
  BY <1>2 DEF PoolCount
<1>3. ASSUME UNCHANGED <<available_webrtc_ports_, sessions_, create, port>>
      PROVE  PoolInv'
  BY <1>2, <1>3 DEF Holding, Freed
<1>4. ASSUME NEW id \in Ids, NEW at \in Creates,
             create' = [create EXCEPT ![id] = at], UNCHANGED port,
             UNCHANGED available_webrtc_ports_,
             at \in {"allocated", "guarding", "unwinding"} <=> id \in Holding,
             \/ at \notin {"guarding", "returned"} /\ UNCHANGED sessions_
                /\ create[id] \notin {"guarding", "returned"}
             \/ sessions_' = sessions_ \cup {id} /\ id \notin Freed
      PROVE  PoolInv'
  <2>1. Holding' = Holding
    BY <1>4 DEF Holding
  <2>2. Freed' = Freed
    BY <1>4 DEF Freed
  <2>3. QED
    BY <1>2, <1>4, <2>1, <2>2
<1>5. ASSUME NEW id \in Ids, CreateBegin(id) PROVE PoolInv'
  BY <1>4, <1>5 DEF CreateBegin, Holding, registry
<1>6. ASSUME NEW id \in Ids, allocate_webrtc_port(id) PROVE PoolInv'
  <2>1. /\ create[id] = "parsed_webrtc" /\ available_webrtc_ports_ # <<>>
        /\ available_webrtc_ports_' = Tail(available_webrtc_ports_)
        /\ port' = [port EXCEPT ![id] = Head(available_webrtc_ports_)]
        /\ create' = [create EXCEPT ![id] = "allocated"]
        /\ UNCHANGED sessions_
    BY <1>6 DEF allocate_webrtc_port
  <2>2. Holding' = Holding \cup {id} /\ id \notin Holding
    BY <2>1 DEF Holding
  <2>3. IsFiniteSet(Holding') /\ Cardinality(Holding') = Cardinality(Holding) + 1
    BY <2>2, FS_AddElement
  <2>4. Freed' = Freed
    BY <2>1 DEF Freed
  <2>5. Len(available_webrtc_ports_') = Len(available_webrtc_ports_) - 1
    BY <2>1
  <2>6. QED
    BY <1>1, <2>3, <2>4, <2>5, PortAssumption DEF PoolCount
<1>7. ASSUME NEW id \in Ids, NoPortLeft(id) PROVE PoolInv'
  BY <1>4, <1>7 DEF NoPortLeft, Holding, registry
<1>8. ASSUME NEW id \in Ids, Insert(id) PROVE PoolInv'
  BY <1>4, <1>8 DEF Insert, Holding, Freed
<1>9. ASSUME NEW id \in Ids, CreateThrows(id) PROVE PoolInv'
  BY <1>4, <1>9 DEF CreateThrows, Holding, registry
<1>10. ASSUME NEW id \in Ids, PortGuard(id) PROVE PoolInv'
  <2>1. /\ create[id] \in {"guarding", "unwinding"}
        /\ available_webrtc_ports_' = Append(available_webrtc_ports_, port[id])
        /\ create' = [create EXCEPT ![id] =
                        IF @ = "guarding" THEN "returned" ELSE "failed"]
        /\ UNCHANGED <<sessions_, port>>
    BY <1>10 DEF PortGuard, push
  <2>2. Holding' = Holding \ {id} /\ id \in Holding
    BY <2>1 DEF Holding
  <2>3. IsFiniteSet(Holding') /\ Cardinality(Holding') = Cardinality(Holding) - 1
    BY <2>2, FS_RemoveElement
  <2>4. Freed' = Freed
    BY <2>1 DEF Freed
  <2>5. Len(available_webrtc_ports_') = Len(available_webrtc_ports_) + 1
    BY <2>1
  <2>6. QED
    BY <1>1, <2>3, <2>4, <2>5, PortAssumption DEF PoolCount
<1>11. ASSUME NEW id \in Ids, Stop(id) PROVE PoolInv'
  BY <1>11, RemoveCounts DEF Stop
<1>12. ASSUME NEW w \in Conns, NEW id \in Ids, Look(w, id) PROVE PoolInv'
  BY <1>3, <1>12 DEF Look, registry, creation
<1>13. ASSUME NEW w \in Conns, Check(w) \/ Attach(w) \/ Start(w) \/ Finish(w)
       PROVE  PoolInv'
  BY <1>3, <1>13 DEF Check, Attach, Start, Finish, registry, creation
<1>14. ASSUME NEW w \in Conns, RemoveAtEnd(w) PROVE PoolInv'
  <2>1. target[w] \in Ids /\ UNCHANGED creation
    BY <1>14 DEF RemoveAtEnd
  <2>2. CASE remove_session(target[w])
    BY <2>1, <2>2, RemoveCounts
  <2>3. CASE UNCHANGED registry
    BY <1>3, <2>1, <2>3 DEF registry, creation
  <2>4. QED
    BY <1>14, <2>2, <2>3 DEF RemoveAtEnd
<1>15. CASE UNCHANGED vars
  BY <1>3, <1>15 DEF vars, registry, creation
<1>16. QED
  BY <1>5, <1>6, <1>7, <1>8, <1>9, <1>10, <1>11, <1>12, <1>13, <1>14, <1>15
     DEF Next, CoroutineStep

\* PortGuard::released is never set: whenever no create_session is under way
\* the queue is as long as at the start, whatever sessions stream to its
\* ports, and it is longer by one for every WebRTC session that was removed.
\* The gauge in /metrics counts no port as used and grows with every session.
THEOREM PoolOnlyGrows == Spec => []PoolCount
<1>1. ASSUME Init PROVE PoolInv
  <2>1. Holding = {} /\ Freed = {}
    BY <1>1 DEF Init, Holding, Freed
  <2>2. PortEnd - PortStart + 1 \in Nat
    BY PortAssumption
  <2>3. Len(available_webrtc_ports_) = PortEnd - PortStart + 1
    BY <1>1, <2>2 DEF Init
  <2>4. QED
    BY <2>1, <2>2, <2>3, FS_EmptySet DEF PoolInv, PoolCount
<1>2. PoolInv => PoolCount
  BY DEF PoolInv
<1>3. QED
  BY <1>1, <1>2, PoolStep, RegInvariant, PTL DEF Spec
=============================================================================
