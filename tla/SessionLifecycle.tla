-------------------------- MODULE SessionLifecycle ---------------------------
(***************************************************************************)
(* What the registry and a session agree on about one session id: when it  *)
(* is published and removed, which connections were admitted, and which of *)
(* their coroutines are still executing start().  Session implements it    *)
(* with the loop in full; ActiveSessions implements it for every id with   *)
(* the maps and the port pool in full.                                     *)
(***************************************************************************)
CONSTANT Coros          \* connections, each with the coroutine it may spawn

VARIABLES
    status,             \* of the session id: "new", "live", "gone"
    running,            \* what is_running() answers
    phase               \* of each connection

vars == <<status, running, phase>>

Phases == {"idle", "looked", "admitted", "spawned", "running", "ended",
           "over"}

Init ==
    /\ status \in {"new", "live"}
    /\ running = FALSE
    /\ phase = [c \in Coros |-> "idle"]

Move(c, from, to) == /\ phase[c] = from
                     /\ phase' = [phase EXCEPT ![c] = to]

\* create_session has put the session into the map.
Publish ==
    /\ status = "new"
    /\ status' = "live"
    /\ UNCHANGED <<running, phase>>

\* A connection holds the session from here on, whatever the map says.
Look(c) ==
    /\ status = "live"
    /\ Move(c, "idle", "looked")
    /\ UNCHANGED <<status, running>>

Admit(c) ==
    /\ ~running
    /\ Move(c, "looked", "admitted")
    /\ UNCHANGED <<status, running>>

Refuse(c) ==
    /\ running
    /\ Move(c, "looked", "idle")
    /\ UNCHANGED <<status, running>>

Spawn(c) ==
    /\ Move(c, "admitted", "spawned")
    /\ UNCHANGED <<status, running>>

Start(c) ==
    /\ Move(c, "spawned", "running")
    /\ running' = TRUE
    /\ UNCHANGED status

Finish(c) ==
    /\ Move(c, "running", "ended")
    /\ running' = FALSE
    /\ UNCHANGED status

\* remove_session, by a request.
Remove ==
    /\ status = "live"
    /\ status' = "gone"
    /\ running' = FALSE
    /\ UNCHANGED phase

\* remove_session, by the coroutine that has finished.
RemoveAtEnd(c) ==
    /\ Move(c, "ended", "over")
    /\ \/ status = "live" /\ status' = "gone" /\ running' = FALSE
       \/ status # "live" /\ UNCHANGED <<status, running>>

Next ==
    \/ Publish
    \/ Remove
    \/ \E c \in Coros : \/ Look(c) \/ Admit(c) \/ Refuse(c) \/ Spawn(c)
                        \/ Start(c) \/ Finish(c) \/ RemoveAtEnd(c)

Spec == Init /\ [][Next]_vars

-----------------------------------------------------------------------------
\* Every variable has its type.
TypeOK ==
    /\ status \in {"new", "live", "gone"}
    /\ running \in BOOLEAN
    /\ phase \in [Coros -> Phases]

\* The contract of remove_session at the end of the spawned coroutine: once
\* a coroutine is over its session has left the registry, and nobody was
\* admitted to a session that was never published.
OverMeansGone ==
    /\ (\E c \in Coros : phase[c] = "over") => status = "gone"
    /\ status = "new" => ~running /\ \A c \in Coros : phase[c] = "idle"

\* is_running() answers yes only while some coroutine executes start(), so a
\* refused connection is refused because of one.
RunningMeansExecuting ==
    running => \E c \in Coros : phase[c] = "running"
=============================================================================
