-------------------------- MODULE MCActiveSessions ---------------------------
(* ActiveSessions for TLC.                                                 *)
EXTENDS ActiveSessions

CONSTANT s1         \* one of the ids

\* The registry keeps, for a session, the contract SessionLifecycle; the ids
\* are interchangeable, so one of them stands for all.
KeepsLifecycle ==
    Lifecycle(s1)!Init /\ [][Lifecycle(s1)!Next]_(Lifecycle(s1)!vars)
=============================================================================
