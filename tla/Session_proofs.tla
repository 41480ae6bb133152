---------------------------- MODULE Session_proofs ---------------------------
(***************************************************************************)
(* Proofs about one session, for any set of coroutines.  Each invariant    *)
(* needs a strengthening that says where in its loop a coroutine can be    *)
(* once the counted frame is out or the signal is on its way; the         *)
(* strengthenings are PauseInv, StopInv, WakeInv and OutcomeInv.           *)
(***************************************************************************)
EXTENDS Session, TLAPS

\* Every step of the request handlers and of the coroutines keeps the types.
LEMMA TypeStep == TypeOK /\ [Next]_vars => TypeOK'
<1> SUFFICES ASSUME TypeOK, [Next]_vars PROVE TypeOK'
  OBVIOUS
<1>1. CASE Pause
  BY <1>1 DEF Pause, TypeOK, PCs, FrameCap, history
<1>2. CASE Resume
  BY <1>2 DEF Resume, TrySend, Goto, TypeOK, PCs, history
<1>3. CASE Stop
  BY <1>3 DEF Stop, stop, CancelWaits, TypeOK, PCs, history
<1>4. ASSUME NEW c \in Coros, ConnectGet(c) PROVE TypeOK'
  BY <1>4 DEF ConnectGet, Goto, TypeOK, PCs, history
<1>5. ASSUME NEW c \in Coros, ConnectCheck(c) PROVE TypeOK'
  BY <1>5 DEF ConnectCheck, Goto, TypeOK, PCs, history
<1>6. ASSUME NEW c \in Coros, ConnectSpawn(c) PROVE TypeOK'
  BY <1>6 DEF ConnectSpawn, Goto, TypeOK, PCs, history
<1>7. ASSUME NEW c \in Coros, PrepareSucceeds(c) PROVE TypeOK'
  BY <1>7 DEF PrepareSucceeds, Goto, TypeOK, PCs, history
<1>8. ASSUME NEW c \in Coros, PrepareFails(c) PROVE TypeOK'
  BY <1>8 DEF PrepareFails, Leave, Goto, TypeOK, PCs, Codes, Notify,
     Notices, history
<1>9. ASSUME NEW c \in Coros, Throws(c) PROVE TypeOK'
  BY <1>9 DEF Throws, Leave, Goto, TypeOK, PCs, Codes, history
<1>10. ASSUME NEW c \in Coros, StartRun(c) PROVE TypeOK'
  BY <1>10 DEF StartRun, Goto, TypeOK, PCs, history
<1>11. ASSUME NEW c \in Coros, LoopCheck(c) PROVE TypeOK'
  BY <1>11 DEF LoopCheck, Goto, Leave, TypeOK, PCs, Codes, history
<1>12. ASSUME NEW c \in Coros, PauseCheck(c) PROVE TypeOK'
  BY <1>12 DEF PauseCheck, Goto, TypeOK, PCs, history
<1>13. ASSUME NEW c \in Coros, ReceiveBuffered(c) PROVE TypeOK'
  BY <1>13 DEF ReceiveBuffered, Goto, TypeOK, PCs, history
<1>14. ASSUME NEW c \in Coros, ReceiveEmpty(c) PROVE TypeOK'
  BY <1>14 DEF ReceiveEmpty, Goto, TypeOK, PCs, history
<1>15. ASSUME NEW c \in Coros, ReceiveQueued(c) PROVE TypeOK'
  BY <1>15 DEF ReceiveQueued, Goto, TypeOK, PCs, history
<1>16. ASSUME NEW c \in Coros, ExpiresAt(c) PROVE TypeOK'
  BY <1>16 DEF ExpiresAt, CancelWaits, TypeOK, PCs, history
<1>17. ASSUME NEW c \in Coros, AsyncWait(c) PROVE TypeOK'
  BY <1>17 DEF AsyncWait, Goto, TypeOK, PCs, history
<1>18. ASSUME NEW c \in Coros, TickFires(c) PROVE TypeOK'
  BY <1>18 DEF TickFires, Goto, TypeOK, PCs, history
<1>19. ASSUME NEW c \in Coros, TickAborted(c) PROVE TypeOK'
  BY <1>19 DEF TickAborted, Leave, Goto, TypeOK, PCs, Codes, history
<1>20. ASSUME NEW c \in Coros, SendFrame(c) PROVE TypeOK'
  BY <1>20 DEF SendFrame, Goto, TypeOK, PCs, Count, FrameCap, history
<1>21. ASSUME NEW c \in Coros, ExecutorEnds(c) PROVE TypeOK'
  BY <1>21 DEF ExecutorEnds, Leave, Goto, TypeOK, PCs, Codes, history
<1>22. ASSUME NEW c \in Coros, Teardown(c) PROVE TypeOK'
  BY <1>22 DEF Teardown, Goto, TypeOK, PCs, history
<1>23. ASSUME NEW c \in Coros, finalize_session(c) PROVE TypeOK'
  BY <1>23 DEF finalize_session, Goto, TypeOK, PCs, Notify, Notices,
     history
<1>24. ASSUME NEW c \in Coros, RemoveAtEnd(c) PROVE TypeOK'
  BY <1>24 DEF RemoveAtEnd, CancelWaits, Goto, TypeOK, PCs, history
<1>25. CASE UNCHANGED vars
  BY <1>25 DEF TypeOK, PCs, history, vars
<1>26. QED
  BY <1>1, <1>2, <1>3, <1>4, <1>5, <1>6, <1>7, <1>8, <1>9, <1>10, <1>11,
     <1>12, <1>13, <1>14, <1>15, <1>16, <1>17, <1>18, <1>19, <1>20, <1>21,
     <1>22, <1>23, <1>24, <1>25 DEF Next, RunStep

\* The type invariant holds in every state of the session.
THEOREM TypeCorrect == Spec => []TypeOK
<1>1. ASSUME Init PROVE TypeOK
  <2>1. /\ is_running_ \in BOOLEAN /\ is_paused_ \in BOOLEAN
        /\ registered \in BOOLEAN /\ restarted \in BOOLEAN /\ raced \in BOOLEAN
    BY <1>1 DEF Init
  <2>2. /\ pc \in [Coros -> PCs] /\ exit_reason \in [Coros -> Codes]
        /\ notified \in [Coros -> SUBSET Notices]
        /\ observer_ \in Coros \cup {NoObserver}
    BY <1>1 DEF Init, PCs, Codes
  <2>3. /\ framesSincePause \in [Coros -> 0..FrameCap]
        /\ framesSinceStop \in [Coros -> 0..FrameCap]
        /\ resume_channel_ \in {0, 1}
    BY <1>1 DEF Init, FrameCap
  <2>4. QED
    BY <2>1, <2>2, <2>3 DEF TypeOK
<1>2. QED
  BY <1>1, TypeStep, PTL DEF Spec

-----------------------------------------------------------------------------
\* While the pause lasts, a coroutine that has sent its one frame is not past
\* the pause check again.
PauseInv ==
    is_paused_ =>
        \A c \in Coros : /\ framesSincePause[c] <= 1
                         /\ framesSincePause[c] = 1 => pc[c] \notin InTick

LEMMA PauseStep == TypeOK /\ PauseInv /\ [Next]_vars => PauseInv'
<1> SUFFICES ASSUME TypeOK, PauseInv, [Next]_vars PROVE PauseInv'
  OBVIOUS
<1>1. CASE Pause
  BY <1>1 DEF Pause, TypeOK, PauseInv, InTick, history
<1>2. CASE Resume
  BY <1>2 DEF Resume, TrySend, Goto, TypeOK, PauseInv, InTick, history
<1>3. CASE Stop
  BY <1>3 DEF Stop, stop, CancelWaits, TypeOK, PauseInv, InTick, history
<1>4. ASSUME NEW c \in Coros, ConnectGet(c) PROVE PauseInv'
  BY <1>4 DEF ConnectGet, Goto, TypeOK, PauseInv, InTick, history
<1>5. ASSUME NEW c \in Coros, ConnectCheck(c) PROVE PauseInv'
  BY <1>5 DEF ConnectCheck, Goto, TypeOK, PauseInv, InTick, history
<1>6. ASSUME NEW c \in Coros, ConnectSpawn(c) PROVE PauseInv'
  BY <1>6 DEF ConnectSpawn, Goto, TypeOK, PauseInv, InTick, history
<1>7. ASSUME NEW c \in Coros, PrepareSucceeds(c) PROVE PauseInv'
  BY <1>7 DEF PrepareSucceeds, Goto, TypeOK, PauseInv, InTick, history
<1>8. ASSUME NEW c \in Coros, PrepareFails(c) PROVE PauseInv'
  BY <1>8 DEF PrepareFails, Leave, Goto, TypeOK, PauseInv, InTick,
     history
<1>9. ASSUME NEW c \in Coros, Throws(c) PROVE PauseInv'
  BY <1>9 DEF Throws, Leave, Goto, TypeOK, PauseInv, InTick, history
<1>10. ASSUME NEW c \in Coros, StartRun(c) PROVE PauseInv'
  BY <1>10 DEF StartRun, Goto, TypeOK, PauseInv, InTick, history
<1>11. ASSUME NEW c \in Coros, LoopCheck(c) PROVE PauseInv'
  BY <1>11 DEF LoopCheck, Goto, Leave, TypeOK, PauseInv, InTick, history
<1>12. ASSUME NEW c \in Coros, PauseCheck(c) PROVE PauseInv'
  BY <1>12 DEF PauseCheck, Goto, TypeOK, PauseInv, InTick, history
<1>13. ASSUME NEW c \in Coros, ReceiveBuffered(c) PROVE PauseInv'
  BY <1>13 DEF ReceiveBuffered, Goto, TypeOK, PauseInv, InTick, history
<1>14. ASSUME NEW c \in Coros, ReceiveEmpty(c) PROVE PauseInv'
  BY <1>14 DEF ReceiveEmpty, Goto, TypeOK, PauseInv, InTick, history
<1>15. ASSUME NEW c \in Coros, ReceiveQueued(c) PROVE PauseInv'
  BY <1>15 DEF ReceiveQueued, Goto, TypeOK, PauseInv, InTick, history
<1>16. ASSUME NEW c \in Coros, ExpiresAt(c) PROVE PauseInv'
  BY <1>16 DEF ExpiresAt, CancelWaits, TypeOK, PauseInv, InTick, history
<1>17. ASSUME NEW c \in Coros, AsyncWait(c) PROVE PauseInv'
  BY <1>17 DEF AsyncWait, Goto, TypeOK, PauseInv, InTick, history
<1>18. ASSUME NEW c \in Coros, TickFires(c) PROVE PauseInv'
  BY <1>18 DEF TickFires, Goto, TypeOK, PauseInv, InTick, history
<1>19. ASSUME NEW c \in Coros, TickAborted(c) PROVE PauseInv'
  BY <1>19 DEF TickAborted, Leave, Goto, TypeOK, PauseInv, InTick,
     history
<1>20. ASSUME NEW c \in Coros, SendFrame(c) PROVE PauseInv'
  BY <1>20 DEF SendFrame, Goto, TypeOK, PauseInv, InTick, history,
     Count, FrameCap
<1>21. ASSUME NEW c \in Coros, ExecutorEnds(c) PROVE PauseInv'
  BY <1>21 DEF ExecutorEnds, Leave, Goto, TypeOK, PauseInv, InTick,
     history
<1>22. ASSUME NEW c \in Coros, Teardown(c) PROVE PauseInv'
  BY <1>22 DEF Teardown, Goto, TypeOK, PauseInv, InTick, history
<1>23. ASSUME NEW c \in Coros, finalize_session(c) PROVE PauseInv'
  BY <1>23 DEF finalize_session, Goto, TypeOK, PauseInv, InTick, history
<1>24. ASSUME NEW c \in Coros, RemoveAtEnd(c) PROVE PauseInv'
  BY <1>24 DEF RemoveAtEnd, CancelWaits, Goto, TypeOK, PauseInv, InTick,
     history
<1>25. CASE UNCHANGED vars
  BY <1>25 DEF TypeOK, PauseInv, InTick, history, vars
<1>26. QED
  BY <1>1, <1>2, <1>3, <1>4, <1>5, <1>6, <1>7, <1>8, <1>9, <1>10, <1>11,
     <1>12, <1>13, <1>14, <1>15, <1>16, <1>17, <1>18, <1>19, <1>20, <1>21,
     <1>22, <1>23, <1>24, <1>25 DEF Next, RunStep

\* However many coroutines a session has, each sends at most one frame after
\* pause(): run_main_audio_loop returns to its checks after every wake-up.
THEOREM PauseBound == Spec => []FramesAfterPause
<1>1. Init => PauseInv
  BY DEF Init, PauseInv
<1>2. PauseInv => FramesAfterPause
  BY DEF PauseInv, FramesAfterPause
<1>3. QED
  BY <1>1, <1>2, PauseStep, TypeCorrect, PTL DEF Spec

-----------------------------------------------------------------------------
\* After stop(), unless a start() follows, is_running_ stays false and a
\* coroutine that has sent its frame cannot pass the loop's test again.
StopInv ==
    ~restarted =>
        /\ registered => \A c \in Coros : framesSinceStop[c] = 0
        /\ ~registered =>
              /\ ~is_running_
              /\ \A c \in Coros :
                    /\ framesSinceStop[c] <= 1
                    /\ framesSinceStop[c] = 1
                          => pc[c] \notin InTick \cup {"pausecheck"}

LEMMA StopStep == TypeOK /\ StopInv /\ [Next]_vars => StopInv'
<1> SUFFICES ASSUME TypeOK, StopInv, [Next]_vars PROVE StopInv'
  OBVIOUS
<1>1. CASE Pause
  BY <1>1 DEF Pause, TypeOK, StopInv, InTick, history
<1>2. CASE Resume
  BY <1>2 DEF Resume, TrySend, Goto, TypeOK, StopInv, InTick, history
<1>3. CASE Stop
  BY <1>3 DEF Stop, stop, CancelWaits, TypeOK, StopInv, InTick, history
<1>4. ASSUME NEW c \in Coros, ConnectGet(c) PROVE StopInv'
  BY <1>4 DEF ConnectGet, Goto, TypeOK, StopInv, InTick, history
<1>5. ASSUME NEW c \in Coros, ConnectCheck(c) PROVE StopInv'
  BY <1>5 DEF ConnectCheck, Goto, TypeOK, StopInv, InTick, history
<1>6. ASSUME NEW c \in Coros, ConnectSpawn(c) PROVE StopInv'
  BY <1>6 DEF ConnectSpawn, Goto, TypeOK, StopInv, InTick, history
<1>7. ASSUME NEW c \in Coros, PrepareSucceeds(c) PROVE StopInv'
  BY <1>7 DEF PrepareSucceeds, Goto, TypeOK, StopInv, InTick, history
<1>8. ASSUME NEW c \in Coros, PrepareFails(c) PROVE StopInv'
  BY <1>8 DEF PrepareFails, Leave, Goto, TypeOK, StopInv, InTick,
     history
<1>9. ASSUME NEW c \in Coros, Throws(c) PROVE StopInv'
  BY <1>9 DEF Throws, Leave, Goto, TypeOK, StopInv, InTick, history
<1>10. ASSUME NEW c \in Coros, StartRun(c) PROVE StopInv'
  BY <1>10 DEF StartRun, Goto, TypeOK, StopInv, InTick, history
<1>11. ASSUME NEW c \in Coros, LoopCheck(c) PROVE StopInv'
  BY <1>11 DEF LoopCheck, Goto, Leave, TypeOK, StopInv, InTick, history
<1>12. ASSUME NEW c \in Coros, PauseCheck(c) PROVE StopInv'
  BY <1>12 DEF PauseCheck, Goto, TypeOK, StopInv, InTick, history
<1>13. ASSUME NEW c \in Coros, ReceiveBuffered(c) PROVE StopInv'
  BY <1>13 DEF ReceiveBuffered, Goto, TypeOK, StopInv, InTick, history
<1>14. ASSUME NEW c \in Coros, ReceiveEmpty(c) PROVE StopInv'
  BY <1>14 DEF ReceiveEmpty, Goto, TypeOK, StopInv, InTick, history
<1>15. ASSUME NEW c \in Coros, ReceiveQueued(c) PROVE StopInv'
  BY <1>15 DEF ReceiveQueued, Goto, TypeOK, StopInv, InTick, history
<1>16. ASSUME NEW c \in Coros, ExpiresAt(c) PROVE StopInv'
  BY <1>16 DEF ExpiresAt, CancelWaits, TypeOK, StopInv, InTick, history
<1>17. ASSUME NEW c \in Coros, AsyncWait(c) PROVE StopInv'
  BY <1>17 DEF AsyncWait, Goto, TypeOK, StopInv, InTick, history
<1>18. ASSUME NEW c \in Coros, TickFires(c) PROVE StopInv'
  BY <1>18 DEF TickFires, Goto, TypeOK, StopInv, InTick, history
<1>19. ASSUME NEW c \in Coros, TickAborted(c) PROVE StopInv'
  BY <1>19 DEF TickAborted, Leave, Goto, TypeOK, StopInv, InTick,
     history
<1>20. ASSUME NEW c \in Coros, SendFrame(c) PROVE StopInv'
  BY <1>20 DEF SendFrame, Goto, TypeOK, StopInv, InTick, history, Count,
     FrameCap
<1>21. ASSUME NEW c \in Coros, ExecutorEnds(c) PROVE StopInv'
  BY <1>21 DEF ExecutorEnds, Leave, Goto, TypeOK, StopInv, InTick,
     history
<1>22. ASSUME NEW c \in Coros, Teardown(c) PROVE StopInv'
  BY <1>22 DEF Teardown, Goto, TypeOK, StopInv, InTick, history
<1>23. ASSUME NEW c \in Coros, finalize_session(c) PROVE StopInv'
  BY <1>23 DEF finalize_session, Goto, TypeOK, StopInv, InTick, history
<1>24. ASSUME NEW c \in Coros, RemoveAtEnd(c) PROVE StopInv'
  BY <1>24 DEF RemoveAtEnd, CancelWaits, Goto, TypeOK, StopInv, InTick,
     history
<1>25. CASE UNCHANGED vars
  BY <1>25 DEF TypeOK, StopInv, InTick, history, vars
<1>26. QED
  BY <1>1, <1>2, <1>3, <1>4, <1>5, <1>6, <1>7, <1>8, <1>9, <1>10, <1>11,
     <1>12, <1>13, <1>14, <1>15, <1>16, <1>17, <1>18, <1>19, <1>20, <1>21,
     <1>22, <1>23, <1>24, <1>25 DEF Next, RunStep

\* Each coroutine sends at most one frame after stop(), unless a start() that
\* was already spawned runs after it.
THEOREM StopBound == Spec => []FramesAfterStop
<1>1. Init => StopInv
  BY DEF Init, StopInv
<1>2. StopInv => FramesAfterStop
  BY DEF StopInv, FramesAfterStop
<1>3. QED
  BY <1>1, <1>2, StopStep, TypeCorrect, PTL DEF Spec

-----------------------------------------------------------------------------
\* A resume() that comes between the pause check and async_receive leaves its
\* signal in the channel; one that comes inside async_receive is a race.
WakeInv ==
    \A c \in Coros : Sole(c) /\ ~raced =>
        /\ pc[c] \in {"sleeping", "blocking"}
              => is_paused_ /\ resume_channel_ = 0
        /\ pc[c] = "receive" /\ ~is_paused_ => resume_channel_ = 1

LEMMA WakeStep == TypeOK /\ WakeInv /\ [Next]_vars => WakeInv'
<1> SUFFICES ASSUME TypeOK, WakeInv, [Next]_vars PROVE WakeInv'
  OBVIOUS
<1> USE DEF Sole
<1>1. CASE Pause
  BY <1>1 DEF Pause, TypeOK, WakeInv, history
<1>2. CASE Resume
  BY <1>2 DEF Resume, TrySend, Goto, TypeOK, WakeInv, history
<1>3. CASE Stop
  BY <1>3 DEF Stop, stop, CancelWaits, TypeOK, WakeInv, history
<1>4. ASSUME NEW c \in Coros, ConnectGet(c) PROVE WakeInv'
  BY <1>4 DEF ConnectGet, Goto, TypeOK, WakeInv, history
<1>5. ASSUME NEW c \in Coros, ConnectCheck(c) PROVE WakeInv'
  BY <1>5 DEF ConnectCheck, Goto, TypeOK, WakeInv, history
<1>6. ASSUME NEW c \in Coros, ConnectSpawn(c) PROVE WakeInv'
  BY <1>6 DEF ConnectSpawn, Goto, TypeOK, WakeInv, history
<1>7. ASSUME NEW c \in Coros, PrepareSucceeds(c) PROVE WakeInv'
  BY <1>7 DEF PrepareSucceeds, Goto, TypeOK, WakeInv, history
<1>8. ASSUME NEW c \in Coros, PrepareFails(c) PROVE WakeInv'
  BY <1>8 DEF PrepareFails, Leave, Goto, TypeOK, WakeInv, history
<1>9. ASSUME NEW c \in Coros, Throws(c) PROVE WakeInv'
  BY <1>9 DEF Throws, Leave, Goto, TypeOK, WakeInv, history
<1>10. ASSUME NEW c \in Coros, StartRun(c) PROVE WakeInv'
  BY <1>10 DEF StartRun, Goto, TypeOK, WakeInv, history
<1>11. ASSUME NEW c \in Coros, LoopCheck(c) PROVE WakeInv'
  BY <1>11 DEF LoopCheck, Goto, Leave, TypeOK, WakeInv, history
<1>12. ASSUME NEW c \in Coros, PauseCheck(c) PROVE WakeInv'
  BY <1>12 DEF PauseCheck, Goto, TypeOK, WakeInv, history
<1>13. ASSUME NEW c \in Coros, ReceiveBuffered(c) PROVE WakeInv'
  BY <1>13 DEF ReceiveBuffered, Goto, TypeOK, WakeInv, history
<1>14. ASSUME NEW c \in Coros, ReceiveEmpty(c) PROVE WakeInv'
  BY <1>14 DEF ReceiveEmpty, Goto, TypeOK, WakeInv, history
<1>15. ASSUME NEW c \in Coros, ReceiveQueued(c) PROVE WakeInv'
  BY <1>15 DEF ReceiveQueued, Goto, TypeOK, WakeInv, history
<1>16. ASSUME NEW c \in Coros, ExpiresAt(c) PROVE WakeInv'
  BY <1>16 DEF ExpiresAt, CancelWaits, TypeOK, WakeInv, history
<1>17. ASSUME NEW c \in Coros, AsyncWait(c) PROVE WakeInv'
  BY <1>17 DEF AsyncWait, Goto, TypeOK, WakeInv, history
<1>18. ASSUME NEW c \in Coros, TickFires(c) PROVE WakeInv'
  BY <1>18 DEF TickFires, Goto, TypeOK, WakeInv, history
<1>19. ASSUME NEW c \in Coros, TickAborted(c) PROVE WakeInv'
  BY <1>19 DEF TickAborted, Leave, Goto, TypeOK, WakeInv, history
<1>20. ASSUME NEW c \in Coros, SendFrame(c) PROVE WakeInv'
  BY <1>20 DEF SendFrame, Goto, TypeOK, WakeInv, history
<1>21. ASSUME NEW c \in Coros, ExecutorEnds(c) PROVE WakeInv'
  BY <1>21 DEF ExecutorEnds, Leave, Goto, TypeOK, WakeInv, history
<1>22. ASSUME NEW c \in Coros, Teardown(c) PROVE WakeInv'
  BY <1>22 DEF Teardown, Goto, TypeOK, WakeInv, history
<1>23. ASSUME NEW c \in Coros, finalize_session(c) PROVE WakeInv'
  BY <1>23 DEF finalize_session, Goto, TypeOK, WakeInv, history
<1>24. ASSUME NEW c \in Coros, RemoveAtEnd(c) PROVE WakeInv'
  BY <1>24 DEF RemoveAtEnd, CancelWaits, Goto, TypeOK, WakeInv, history
<1>25. CASE UNCHANGED vars
  BY <1>25 DEF TypeOK, WakeInv, history, vars
<1>26. QED
  BY <1>1, <1>2, <1>3, <1>4, <1>5, <1>6, <1>7, <1>8, <1>9, <1>10, <1>11,
     <1>12, <1>13, <1>14, <1>15, <1>16, <1>17, <1>18, <1>19, <1>20, <1>21,
     <1>22, <1>23, <1>24, <1>25 DEF Next, RunStep

\* As long as one coroutine has the session to itself and no try_send has met
\* an async_receive half way, no resume() is lost: a sleeping session is a
\* paused one.
THEOREM Wakeup == Spec => []NoLostWakeup
<1>1. Init => WakeInv
  BY DEF Init, WakeInv
<1>2. WakeInv => NoLostWakeup
  BY DEF WakeInv, NoLostWakeup
<1>3. TypeOK /\ WakeInv /\ [Next]_vars => WakeInv'
  BY WakeStep
<1>4. QED
  BY <1>1, <1>2, <1>3, TypeCorrect, PTL DEF Spec

-----------------------------------------------------------------------------
\* Where start() has not yet set its exit_reason.
Underway == PCs \ {"teardown", "finalize", "ended", "done"}

\* A coroutine that has the session to itself has its own connection as the
\* observer, is aborted only by a stop, and has told its client at the end
\* what its exit_reason says, and nothing of its end before.
OutcomeInv ==
    \A c \in Coros : Sole(c) =>
        /\ pc[c] \notin {"idle", "looking", "connecting"} => observer_ = c
        /\ pc[c] = "aborted" => ~registered
        /\ "prep_error" \in notified[c]
              <=> exit_reason[c] = "InitializationFailed"
        /\ pc[c] \in {"ended", "done"} =>
              /\ "complete" \in notified[c] <=> exit_reason[c] = "Success"
              /\ "error" \in notified[c] <=> exit_reason[c] # "Success"
        /\ pc[c] \notin {"ended", "done"} =>
              notified[c] \cap {"complete", "error"} = {}
        /\ pc[c] \in Underway => exit_reason[c] = "Success"

LEMMA OutcomeStep == TypeOK /\ OutcomeInv /\ [Next]_vars => OutcomeInv'
<1> SUFFICES ASSUME TypeOK, OutcomeInv, [Next]_vars PROVE OutcomeInv'
  OBVIOUS
<1> USE DEF Sole, Underway, PCs
<1>1. CASE Pause
  BY <1>1 DEF Pause, TypeOK, OutcomeInv, history
<1>2. CASE Resume
  BY <1>2 DEF Resume, TrySend, Goto, TypeOK, OutcomeInv, history
<1>3. CASE Stop
  BY <1>3 DEF Stop, stop, CancelWaits, TypeOK, OutcomeInv, history
<1>4. ASSUME NEW c \in Coros, ConnectGet(c) PROVE OutcomeInv'
  BY <1>4 DEF ConnectGet, Goto, TypeOK, OutcomeInv, history
<1>5. ASSUME NEW c \in Coros, ConnectCheck(c) PROVE OutcomeInv'
  BY <1>5 DEF ConnectCheck, Goto, TypeOK, OutcomeInv, history
<1>6. ASSUME NEW c \in Coros, ConnectSpawn(c) PROVE OutcomeInv'
  BY <1>6 DEF ConnectSpawn, Goto, TypeOK, OutcomeInv, history
<1>7. ASSUME NEW c \in Coros, PrepareSucceeds(c) PROVE OutcomeInv'
  BY <1>7 DEF PrepareSucceeds, Goto, TypeOK, OutcomeInv, history
<1>8. ASSUME NEW c \in Coros, PrepareFails(c) PROVE OutcomeInv'
  <2>1. /\ pc' = [pc EXCEPT ![c] = "teardown"] /\ pc[c] = "preparing"
        /\ exit_reason' = [exit_reason EXCEPT ![c] = "InitializationFailed"]
        /\ observer_' = observer_
    BY <1>8 DEF PrepareFails, Leave, Goto
  <2>2. \A d \in Coros : Sole(d)' => d = c
    BY <2>1 DEF TypeOK
  <2> SUFFICES ASSUME Sole(c)'
               PROVE  /\ observer_' = c
                      /\ "prep_error" \in notified'[c]
                      /\ notified'[c] \cap {"complete", "error"} = {}
    BY <2>1, <2>2 DEF OutcomeInv, TypeOK
  <2>3. Sole(c)
    BY <2>1 DEF TypeOK
  <2>4. /\ observer_ = c /\ observer_ # NoObserver
        /\ notified[c] \cap {"complete", "error"} = {}
    BY <2>1, <2>3, ObserverAssumption DEF OutcomeInv
  <2>5. notified'[c] = notified[c] \cup {"prep_error"}
    BY <1>8, <2>4 DEF PrepareFails, Notify, TypeOK
  <2>6. QED
    BY <2>1, <2>4, <2>5
<1>9. ASSUME NEW c \in Coros, Throws(c) PROVE OutcomeInv'
  BY <1>9 DEF Throws, Leave, Goto, TypeOK, OutcomeInv, history
<1>10. ASSUME NEW c \in Coros, StartRun(c) PROVE OutcomeInv'
  BY <1>10 DEF StartRun, Goto, TypeOK, OutcomeInv, history
<1>11. ASSUME NEW c \in Coros, LoopCheck(c) PROVE OutcomeInv'
  BY <1>11 DEF LoopCheck, Goto, Leave, TypeOK, OutcomeInv, history
<1>12. ASSUME NEW c \in Coros, PauseCheck(c) PROVE OutcomeInv'
  BY <1>12 DEF PauseCheck, Goto, TypeOK, OutcomeInv, history
<1>13. ASSUME NEW c \in Coros, ReceiveBuffered(c) PROVE OutcomeInv'
  BY <1>13 DEF ReceiveBuffered, Goto, TypeOK, OutcomeInv, history
<1>14. ASSUME NEW c \in Coros, ReceiveEmpty(c) PROVE OutcomeInv'
  BY <1>14 DEF ReceiveEmpty, Goto, TypeOK, OutcomeInv, history
<1>15. ASSUME NEW c \in Coros, ReceiveQueued(c) PROVE OutcomeInv'
  BY <1>15 DEF ReceiveQueued, Goto, TypeOK, OutcomeInv, history
<1>16. ASSUME NEW c \in Coros, ExpiresAt(c) PROVE OutcomeInv'
  BY <1>16 DEF ExpiresAt, CancelWaits, TypeOK, OutcomeInv, history
<1>17. ASSUME NEW c \in Coros, AsyncWait(c) PROVE OutcomeInv'
  BY <1>17 DEF AsyncWait, Goto, TypeOK, OutcomeInv, history
<1>18. ASSUME NEW c \in Coros, TickFires(c) PROVE OutcomeInv'
  BY <1>18 DEF TickFires, Goto, TypeOK, OutcomeInv, history
<1>19. ASSUME NEW c \in Coros, TickAborted(c) PROVE OutcomeInv'
  BY <1>19 DEF TickAborted, Leave, Goto, TypeOK, OutcomeInv, history
<1>20. ASSUME NEW c \in Coros, SendFrame(c) PROVE OutcomeInv'
  BY <1>20 DEF SendFrame, Goto, TypeOK, OutcomeInv, history
<1>21. ASSUME NEW c \in Coros, ExecutorEnds(c) PROVE OutcomeInv'
  BY <1>21 DEF ExecutorEnds, Leave, Goto, TypeOK, OutcomeInv, history
<1>22. ASSUME NEW c \in Coros, Teardown(c) PROVE OutcomeInv'
  BY <1>22 DEF Teardown, Goto, TypeOK, OutcomeInv, history
<1>23. ASSUME NEW c \in Coros, finalize_session(c) PROVE OutcomeInv'
  <2>1. pc' = [pc EXCEPT ![c] = "ended"] /\ pc[c] = "finalize"
    BY <1>23 DEF finalize_session, Goto
  <2>2. \A d \in Coros : Sole(d)' => d = c
    BY <2>1 DEF TypeOK
  <2> SUFFICES ASSUME Sole(c)'
               PROVE  /\ observer_' = c
                      /\ "prep_error" \in notified'[c]
                            <=> exit_reason'[c] = "InitializationFailed"
                      /\ "complete" \in notified'[c]
                            <=> exit_reason'[c] = "Success"
                      /\ "error" \in notified'[c]
                            <=> exit_reason'[c] # "Success"
    BY <2>1, <2>2 DEF OutcomeInv, TypeOK
  <2>3. Sole(c)
    BY <2>1 DEF TypeOK
  <2>4. /\ observer_ = c /\ observer_ # NoObserver
        /\ "prep_error" \in notified[c]
              <=> exit_reason[c] = "InitializationFailed"
        /\ notified[c] \cap {"complete", "error"} = {}
    BY <2>1, <2>3, ObserverAssumption DEF OutcomeInv
  <2>5. /\ notified'[c] = notified[c] \cup
              {IF exit_reason[c] = "Success" THEN "complete" ELSE "error"}
        /\ observer_' = observer_
        /\ exit_reason' = exit_reason
    BY <1>23, <2>4 DEF finalize_session, Notify, TypeOK
  <2>6. QED
    BY <2>4, <2>5
<1>24. ASSUME NEW c \in Coros, RemoveAtEnd(c) PROVE OutcomeInv'
  <2>1. /\ pc[c] = "ended"
        /\ pc' = [CancelWaits(pc) EXCEPT ![c] = "done"] \/ Goto(c, "done")
        /\ UNCHANGED <<observer_, exit_reason, notified>>
    BY <1>24 DEF RemoveAtEnd
  <2>2. /\ pc'[c] = "done"
        /\ \A d \in Coros : pc[d] \notin {"idle", "looking", "connecting"}
             => pc'[d] \notin {"idle", "looking", "connecting"}
    BY <2>1 DEF CancelWaits, Goto, TypeOK
  <2>3. \A d \in Coros : Sole(d)' => d = c /\ Sole(d)
    BY <2>1, <2>2 DEF TypeOK
  <2>4. QED
    BY <2>1, <2>2, <2>3 DEF OutcomeInv, TypeOK
<1>25. CASE UNCHANGED vars
  BY <1>25 DEF TypeOK, OutcomeInv, history, vars
<1>26. QED
  BY <1>1, <1>2, <1>3, <1>4, <1>5, <1>6, <1>7, <1>8, <1>9, <1>10, <1>11,
     <1>12, <1>13, <1>14, <1>15, <1>16, <1>17, <1>18, <1>19, <1>20, <1>21,
     <1>22, <1>23, <1>24, <1>25 DEF Next, RunStep

\* wait_for_next_tick is right to take a cancelled timer for a stop, as long as
\* no second coroutine shares the timer.
THEOREM AbortIsStop == Spec => []AbortMeansStopped
<1>1. Init => OutcomeInv
  BY DEF Init, OutcomeInv
<1>2. OutcomeInv => AbortMeansStopped
  BY DEF OutcomeInv, AbortMeansStopped
<1>3. TypeOK /\ OutcomeInv /\ [Next]_vars => OutcomeInv'
  BY OutcomeStep
<1>4. QED
  BY <1>1, <1>2, <1>3, TypeCorrect, PTL DEF Spec

\* finalize_session tells the client before the coroutine ends, on every way
\* out of start(), as long as no other connection took its place.
THEOREM OutcomeTold == Spec => []ClientIsTold
<1>1. Init => OutcomeInv
  BY DEF Init, OutcomeInv
<1>2. OutcomeInv => ClientIsTold
  BY DEF OutcomeInv, ClientIsTold
<1>3. TypeOK /\ OutcomeInv /\ [Next]_vars => OutcomeInv'
  BY OutcomeStep
<1>4. QED
  BY <1>1, <1>2, <1>3, TypeCorrect, PTL DEF Spec

-----------------------------------------------------------------------------
\* Moving one coroutine's label moves its phase and no other.
LEMMA PhaseMove ==
    ASSUME NEW c \in Coros, NEW label, pc \in [Coros -> PCs],
           Goto(c, label)
    PROVE  Phase' = [Phase EXCEPT ![c] = PhaseOf(label)]
  BY DEF Phase, Goto

\* Every step of the session is a step of its contract, or leaves what the
\* registry can see of it alone.
LEMMA LifecycleStep == TypeOK /\ [Next]_vars => [LC!Next]_LC!vars
<1> SUFFICES ASSUME TypeOK, [Next]_vars PROVE [LC!Next]_LC!vars
  OBVIOUS
<1> USE DEF TypeOK, LC!vars
<1>0. pc \in [Coros -> PCs]
  BY DEF TypeOK
<1>1. CASE Pause
  BY <1>1 DEF Pause, history, Phase, PhaseOf, InLoop, InTick, PCs
<1>2. CASE Resume
  BY <1>2 DEF Resume, TrySend, Goto, history, Phase, PhaseOf, PCs, InLoop,
     InTick
<1>3. CASE Stop
  BY <1>3 DEF Stop, stop, CancelWaits, history, LC!Next, LC!Remove,
     LC!Move, Phase, PhaseOf, InLoop, InTick, PCs
<1>4. ASSUME NEW c \in Coros, ConnectGet(c) PROVE [LC!Next]_LC!vars
  <2>1. Phase' = [Phase EXCEPT ![c] = PhaseOf("looking")]
    BY <1>0, <1>4, PhaseMove DEF ConnectGet
  <2>2. LC!Look(c)
    BY <1>4, <2>1 DEF ConnectGet, Phase, PhaseOf, InLoop, InTick, LC!Look,
       LC!Move
  <2>3. QED
    BY <2>2 DEF LC!Next
<1>5. ASSUME NEW c \in Coros, ConnectCheck(c) PROVE [LC!Next]_LC!vars
  <2>1. CASE is_running_
    <3>1. Phase' = [Phase EXCEPT ![c] = PhaseOf("idle")]
      BY <1>0, <1>5, <2>1, PhaseMove DEF ConnectCheck
    <3>2. LC!Refuse(c)
      BY <1>5, <2>1, <3>1 DEF ConnectCheck, Phase, PhaseOf, InLoop, InTick,
         LC!Refuse, LC!Move
    <3>3. QED
      BY <3>2 DEF LC!Next
  <2>2. CASE ~is_running_
    <3>1. Phase' = [Phase EXCEPT ![c] = PhaseOf("connecting")]
      BY <1>0, <1>5, <2>2, PhaseMove DEF ConnectCheck
    <3>2. LC!Admit(c)
      BY <1>5, <2>2, <3>1 DEF ConnectCheck, Phase, PhaseOf, InLoop, InTick,
         LC!Admit, LC!Move
    <3>3. QED
      BY <3>2 DEF LC!Next
  <2>3. QED
    BY <2>1, <2>2
<1>6. ASSUME NEW c \in Coros, ConnectSpawn(c) PROVE [LC!Next]_LC!vars
  <2>1. Phase' = [Phase EXCEPT ![c] = PhaseOf("spawned")]
    BY <1>0, <1>6, PhaseMove DEF ConnectSpawn
  <2>2. LC!Spawn(c)
    BY <1>6, <2>1 DEF ConnectSpawn, Phase, PhaseOf, InLoop, InTick, LC!Spawn,
       LC!Move
  <2>3. QED
    BY <2>2 DEF LC!Next
<1>7. ASSUME NEW c \in Coros, PrepareSucceeds(c) PROVE [LC!Next]_LC!vars
  BY <1>7 DEF PrepareSucceeds, Goto, history, Phase, PhaseOf, InLoop,
     InTick, PCs
<1>8. ASSUME NEW c \in Coros, PrepareFails(c) PROVE [LC!Next]_LC!vars
  BY <1>8 DEF PrepareFails, Leave, Goto, history, Phase, PhaseOf, PCs,
     InLoop, InTick
<1>9. ASSUME NEW c \in Coros, Throws(c) PROVE [LC!Next]_LC!vars
  BY <1>9 DEF Throws, Leave, Goto, history, Phase, PhaseOf, InLoop,
     InTick, PCs
<1>10. ASSUME NEW c \in Coros, StartRun(c) PROVE [LC!Next]_LC!vars
  <2>1. Phase' = [Phase EXCEPT ![c] = PhaseOf("preparing")]
    BY <1>0, <1>10, PhaseMove DEF StartRun
  <2>2. LC!Start(c)
    BY <1>10, <2>1 DEF StartRun, Phase, PhaseOf, InLoop, InTick, LC!Start,
       LC!Move
  <2>3. QED
    BY <2>2 DEF LC!Next
<1>11. ASSUME NEW c \in Coros, LoopCheck(c) PROVE [LC!Next]_LC!vars
  BY <1>11 DEF LoopCheck, Leave, Goto, history, Phase, PhaseOf, InLoop,
     InTick, PCs
<1>12. ASSUME NEW c \in Coros, PauseCheck(c) PROVE [LC!Next]_LC!vars
  BY <1>12 DEF PauseCheck, Goto, history, Phase, PhaseOf, PCs, InLoop,
     InTick
<1>13. ASSUME NEW c \in Coros, ReceiveBuffered(c) PROVE [LC!Next]_LC!vars
  BY <1>13 DEF ReceiveBuffered, Goto, history, Phase, PhaseOf, InLoop,
     InTick, PCs
<1>14. ASSUME NEW c \in Coros, ReceiveEmpty(c) PROVE [LC!Next]_LC!vars
  BY <1>14 DEF ReceiveEmpty, Goto, history, Phase, PhaseOf, PCs, InLoop,
     InTick
<1>15. ASSUME NEW c \in Coros, ReceiveQueued(c) PROVE [LC!Next]_LC!vars
  BY <1>15 DEF ReceiveQueued, Goto, history, Phase, PhaseOf, InLoop,
     InTick, PCs
<1>16. ASSUME NEW c \in Coros, ExpiresAt(c) PROVE [LC!Next]_LC!vars
  BY <1>16 DEF ExpiresAt, CancelWaits, history, Phase, PhaseOf, PCs,
     InLoop, InTick
<1>17. ASSUME NEW c \in Coros, AsyncWait(c) PROVE [LC!Next]_LC!vars
  BY <1>17 DEF AsyncWait, Goto, history, Phase, PhaseOf, InLoop, InTick,
     PCs
<1>18. ASSUME NEW c \in Coros, TickFires(c) PROVE [LC!Next]_LC!vars
  BY <1>18 DEF TickFires, Goto, history, Phase, PhaseOf, PCs, InLoop,
     InTick
<1>19. ASSUME NEW c \in Coros, TickAborted(c) PROVE [LC!Next]_LC!vars
  BY <1>19 DEF TickAborted, Leave, Goto, history, Phase, PhaseOf, InLoop,
     InTick, PCs
<1>20. ASSUME NEW c \in Coros, SendFrame(c) PROVE [LC!Next]_LC!vars
  BY <1>20 DEF SendFrame, Goto, history, Phase, PhaseOf, PCs, InLoop,
     InTick
<1>21. ASSUME NEW c \in Coros, ExecutorEnds(c) PROVE [LC!Next]_LC!vars
  BY <1>21 DEF ExecutorEnds, Leave, Goto, history, Phase, PhaseOf, InLoop,
     InTick, PCs
<1>22. ASSUME NEW c \in Coros, Teardown(c) PROVE [LC!Next]_LC!vars
  <2>1. Phase' = [Phase EXCEPT ![c] = PhaseOf("finalize")]
    BY <1>0, <1>22, PhaseMove DEF Teardown
  <2>2. LC!Finish(c)
    BY <1>22, <2>1 DEF Teardown, Phase, PhaseOf, InLoop, InTick, LC!Finish,
       LC!Move
  <2>3. QED
    BY <2>2 DEF LC!Next
<1>23. ASSUME NEW c \in Coros, finalize_session(c) PROVE [LC!Next]_LC!vars
  BY <1>23 DEF finalize_session, Goto, history, Phase, PhaseOf, InLoop,
     InTick, PCs
<1>24. ASSUME NEW c \in Coros, RemoveAtEnd(c) PROVE [LC!Next]_LC!vars
  <2>1. Phase' = [Phase EXCEPT ![c] = "over"]
    <3>1. \A d \in Coros : d # c => PhaseOf(pc'[d]) = PhaseOf(pc[d])
      BY <1>24 DEF RemoveAtEnd, CancelWaits, Goto, PhaseOf, PCs, InLoop,
         InTick
    <3>2. PhaseOf(pc'[c]) = "over"
      BY <1>24 DEF RemoveAtEnd, CancelWaits, Goto, PhaseOf, InLoop, InTick
    <3>3. QED
      BY <3>1, <3>2 DEF Phase
  <2>2. Phase[c] = "ended"
    BY <1>24 DEF RemoveAtEnd, Phase, PhaseOf, InLoop, InTick
  <2>3. LC!RemoveAtEnd(c)
    BY <1>24, <2>1, <2>2 DEF RemoveAtEnd, LC!RemoveAtEnd, LC!Move
  <2>4. QED
    BY <2>3 DEF LC!Next
<1>25. CASE UNCHANGED vars
  BY <1>25 DEF vars, Phase
<1>26. QED
  BY <1>1, <1>2, <1>3, <1>4, <1>5, <1>6, <1>7, <1>8, <1>9, <1>10, <1>11,
     <1>12, <1>13, <1>14, <1>15, <1>16, <1>17, <1>18, <1>19, <1>20, <1>21,
     <1>22, <1>23, <1>24, <1>25 DEF Next, RunStep

\* Session implements SessionLifecycle, for any set of coroutines.
THEOREM Refinement == Spec => ImplementsLifecycle
<1>1. ASSUME Init PROVE LC!Init
  <2>1. Phase = [c \in Coros |-> "idle"]
    BY <1>1 DEF Init, Phase, PhaseOf, InLoop, InTick
  <2>2. QED
    BY <1>1, <2>1 DEF Init, LC!Init
<1>2. QED
  BY <1>1, LifecycleStep, TypeCorrect, PTL DEF Spec, ImplementsLifecycle,
     LC!Spec

-----------------------------------------------------------------------------
(* A session stopped while it is paused.                                   *)

\* A coroutine that has seen, or is about to see, the pause flag of a session
\* that is no longer registered, with no signal in the channel.
Stuck(c) ==
    /\ ~registered /\ is_paused_ /\ resume_channel_ = 0
    /\ pc[c] \in {"pausecheck", "receive", "blocking", "sleeping"}

\* Session::stop leaves is_paused_ set and sends no signal, and resume_session
\* no longer finds the session: the coroutine never leaves the pause, never
\* reaches its teardown and never tells its client.
THEOREM StuckForEver ==
  ASSUME NEW c \in Coros
  PROVE  Spec => [](Stuck(c) => []Stuck(c))
<1>1. ASSUME TypeOK, Stuck(c), [Next]_vars PROVE Stuck(c)'
  <2>0. ~registered /\ is_paused_ /\ resume_channel_ = 0
        /\ pc[c] \in {"pausecheck", "receive", "blocking", "sleeping"}
        /\ pc \in [Coros -> PCs]
    BY <1>1 DEF Stuck, TypeOK
  <2>1. ~Pause /\ ~Resume /\ ~Stop
    BY <2>0 DEF Pause, Resume, Stop
  <2>2. ASSUME NEW d \in Coros,
               \/ ConnectGet(d) \/ ConnectCheck(d) \/ ConnectSpawn(d)
               \/ PrepareSucceeds(d) \/ PrepareFails(d) \/ Throws(d)
        PROVE  Stuck(c)'
    <3>1. UNCHANGED <<registered, is_paused_, resume_channel_>>
      BY <2>0, <2>2 DEF ConnectGet, ConnectCheck, ConnectSpawn,
         PrepareSucceeds, PrepareFails, Throws, Leave, Goto
    <3>2. pc'[c] \in {"pausecheck", "receive", "blocking", "sleeping"}
      BY <2>0, <2>2 DEF ConnectGet, ConnectCheck, ConnectSpawn,
         PrepareSucceeds, PrepareFails, Throws, Leave, Goto
    <3> QED
      BY <2>0, <3>1, <3>2 DEF Stuck
  <2>3. ASSUME NEW d \in Coros,
               \/ ReceiveBuffered(d) \/ ReceiveEmpty(d) \/ ReceiveQueued(d)
               \/ AsyncWait(d) \/ TickFires(d)
        PROVE  Stuck(c)'
    <3>1. ~ReceiveBuffered(d)
      BY <2>0 DEF ReceiveBuffered
    <3>2. /\ UNCHANGED <<registered, is_paused_, resume_channel_>>
          /\ \/ pc[d] = "receive" /\ pc' = [pc EXCEPT ![d] = "blocking"]
             \/ pc[d] = "blocking" /\ pc' = [pc EXCEPT ![d] = "sleeping"]
             \/ pc[d] = "wait" /\ pc' = [pc EXCEPT ![d] = "tick"]
             \/ pc[d] = "tick" /\ pc' = [pc EXCEPT ![d] = "ticked"]
      BY <2>3, <3>1, Zenon DEF ReceiveEmpty, ReceiveQueued, AsyncWait,
         TickFires, Goto
    <3>3. pc'[c] \in {"pausecheck", "receive", "blocking", "sleeping"}
      BY <2>0, <3>2
    <3> QED
      BY <2>0, <3>2, <3>3 DEF Stuck
  <2>7. ASSUME NEW d \in Coros, PauseCheck(d) PROVE Stuck(c)'
    <3>1. UNCHANGED <<registered, is_paused_, resume_channel_>>
      BY <2>7 DEF PauseCheck
    <3>2. pc' = [pc EXCEPT ![d] = "receive"]
      BY <2>0, <2>7 DEF PauseCheck, Goto
    <3> QED
      BY <2>0, <3>1, <3>2 DEF Stuck
  <2>4. ASSUME NEW d \in Coros,
               \/ StartRun(d) \/ LoopCheck(d) \/ TickAborted(d)
               \/ SendFrame(d) \/ ExecutorEnds(d) \/ Teardown(d)
               \/ finalize_session(d)
        PROVE  Stuck(c)'
    <3>1. UNCHANGED <<registered, is_paused_, resume_channel_>>
      BY <2>0, <2>4 DEF StartRun, LoopCheck, TickAborted, SendFrame,
         ExecutorEnds, Teardown, finalize_session, Leave, Goto
    <3>2. pc'[c] \in {"pausecheck", "receive", "blocking", "sleeping"}
      BY <2>0, <2>4 DEF StartRun, LoopCheck, TickAborted, SendFrame,
         ExecutorEnds, Teardown, finalize_session, Leave, Goto
    <3> QED
      BY <2>0, <3>1, <3>2 DEF Stuck
  <2>5. ASSUME NEW d \in Coros,
               \/ ExpiresAt(d) \/ RemoveAtEnd(d)
        PROVE  Stuck(c)'
    <3>1. UNCHANGED <<registered, is_paused_, resume_channel_>>
      BY <2>0, <2>5 DEF ExpiresAt, RemoveAtEnd, CancelWaits, Goto
    <3>2. pc'[c] \in {"pausecheck", "receive", "blocking", "sleeping"}
      BY <2>0, <2>5 DEF ExpiresAt, RemoveAtEnd, CancelWaits, Goto
    <3> QED
      BY <2>0, <3>1, <3>2 DEF Stuck
  <2>6. CASE UNCHANGED vars
    BY <2>0, <2>6 DEF vars, Stuck
  <2> QED
    BY <1>1, <2>1, <2>2, <2>3, <2>4, <2>5, <2>6, <2>7 DEF Next, RunStep
<1> QED
  BY <1>1, TypeCorrect, PTL DEF Spec
=============================================================================
