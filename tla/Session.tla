------------------------------- MODULE Session -------------------------------
(***************************************************************************)
(* One hermes::service::Session: the flags and the channel that the        *)
(* request handlers (pause, resume, stop) share with the coroutines that   *)
(* execute Session::start().  A session normally has one such coroutine;   *)
(* every accepted /connect/ request spawns one, so the module takes a set. *)
(*                                                                         *)
(* Each action is one stretch of code between two points at which another  *)
(* thread can interfere: a suspension (co_await) or an access to an        *)
(* atomic.  The executor is a choice among the results get_next_frame can  *)
(* return.  `registered` says whether the registry still holds the session *)
(* (ActiveSessions::sessions_): handlers reach a session only through it.  *)
(***************************************************************************)
EXTENDS Naturals, FiniteSets

CONSTANTS
    Coros,              \* one identity per /connect/ request
    NoObserver          \* the null observer_

ASSUME ObserverAssumption == NoObserver \notin Coros

VARIABLES
    is_running_,        \* std::atomic<bool>
    is_paused_,         \* std::atomic<bool>
    resume_channel_,    \* signals buffered in the channel, capacity 1
    observer_,          \* the connection whose observer is attached
    registered,         \* is the session in ActiveSessions::sessions_?
    pc,                 \* where each coroutine is
    exit_reason,        \* local of start()
    notified,           \* terminal messages each connection was sent
    framesSincePause,   \* history: frames sent by each coroutine since the
                        \* pause in force, counted up to FrameCap
    framesSinceStop,    \* history: the same since stop() was called
    restarted,          \* history: start() set is_running_ after stop()
    raced               \* history: a try_send met an async_receive half way

vars == <<is_running_, is_paused_, resume_channel_, observer_, registered,
          pc, exit_reason, notified, framesSincePause, framesSinceStop,
          restarted, raced>>

\* The frame histories saturate here: the properties tell apart 0, 1, more.
FrameCap == 2
Count(n) == IF n < FrameCap THEN n + 1 ELSE n

\* NodeErrorCode, with every code that ends a session as an error in one class.
Codes == {"Success", "InitializationFailed", "InternalError", "FrameError"}
Notices == {"prep_error", "error", "complete"}

PCs == {"idle", "looking", "connecting", "spawned", "preparing", "loop",
        "pausecheck", "receive", "blocking", "sleeping", "settick", "wait",
        "tick", "ticked", "aborted", "teardown", "finalize", "ended", "done"}

\* Past the pause check, a frame not yet sent.
InTick == {"settick", "wait", "tick", "ticked"}
\* Inside run_main_audio_loop().
InLoop == {"loop", "pausecheck", "receive", "blocking", "sleeping", "aborted"}
            \cup InTick

Goto(c, label) == pc' = [pc EXCEPT ![c] = label]

Leave(c, code) == /\ exit_reason' = [exit_reason EXCEPT ![c] = code]
                  /\ Goto(c, "teardown")

\* ISessionObserver calls reach whoever is attached at that moment.
Notify(notice) ==
    notified' = IF observer_ = NoObserver THEN notified
                ELSE [notified EXCEPT ![observer_] = @ \cup {notice}]

\* A cancelled steady_timer completes every pending wait with
\* operation_aborted; a wait that has already fired is not affected.
CancelWaits(p) ==
    [c \in Coros |-> IF p[c] = "tick" THEN "aborted" ELSE p[c]]

history == <<framesSincePause, framesSinceStop, restarted, raced>>

Init ==
    /\ is_running_ = FALSE
    /\ is_paused_ = FALSE
    /\ resume_channel_ = 0
    /\ observer_ = NoObserver
    /\ registered = TRUE
    /\ pc = [c \in Coros |-> "idle"]
    /\ exit_reason = [c \in Coros |-> "Success"]
    /\ notified = [c \in Coros |-> {}]
    /\ framesSincePause = [c \in Coros |-> 0]
    /\ framesSinceStop = [c \in Coros |-> 0]
    /\ restarted = FALSE
    /\ raced = FALSE

-----------------------------------------------------------------------------
(* Request handlers.                                                       *)

\* create_and_run_websocket_session: get() under the registry's mutex.
ConnectGet(c) ==
    /\ pc[c] = "idle"
    /\ registered
    /\ Goto(c, "looking")
    /\ UNCHANGED <<is_running_, is_paused_, resume_channel_, observer_,
                   registered, exit_reason, notified, history>>

\* Mutant: nobody asks whether the session is running.
ConnectUnchecked(c) ==
    /\ pc[c] = "looking"
    /\ Goto(c, "connecting")
    /\ UNCHANGED <<is_running_, is_paused_, resume_channel_, observer_,
                   registered, exit_reason, notified, history>>

\* The is_running() test; a client that is turned away may come again.
ConnectCheck(c) ==
    /\ pc[c] = "looking"
    /\ Goto(c, IF is_running_ THEN "idle" ELSE "connecting")
    /\ UNCHANGED <<is_running_, is_paused_, resume_channel_, observer_,
                   registered, exit_reason, notified, history>>

\* Mutant: the coroutine is spawned without an observer.
SpawnUnobserved(c) ==
    /\ pc[c] = "connecting"
    /\ Goto(c, "spawned")
    /\ UNCHANGED <<is_running_, is_paused_, resume_channel_, observer_,
                   registered, exit_reason, notified, history>>

\* The rest of it: attach the observer, spawn the coroutine.
ConnectSpawn(c) ==
    /\ pc[c] = "connecting"
    /\ observer_' = c
    /\ Goto(c, "spawned")
    /\ UNCHANGED <<is_running_, is_paused_, resume_channel_, registered,
                   exit_reason, notified, history>>

\* Mutant: pausing cancels the tick under way.
PauseCancels ==
    /\ registered
    /\ ~is_paused_
    /\ is_paused_' = TRUE
    /\ pc' = CancelWaits(pc)
    /\ framesSincePause' = [c \in Coros |-> 0]
    /\ UNCHANGED <<is_running_, resume_channel_, observer_, registered,
                   exit_reason, notified, framesSinceStop, restarted,
                   raced>>

Pause ==
    /\ registered
    /\ ~is_paused_
    /\ is_paused_' = TRUE
    /\ framesSincePause' = [c \in Coros |-> 0]
    /\ UNCHANGED <<is_running_, resume_channel_, observer_, registered, pc,
                   exit_reason, notified, framesSinceStop, restarted,
                   raced>>

\* Mutant: the channel has no capacity.
SendUncapped ==
    /\ resume_channel_' = resume_channel_ + 1
    /\ UNCHANGED pc

\* channel::try_send: hand the signal to a waiter if there is one, otherwise
\* buffer it, otherwise (buffer full) drop it.
TrySend ==
    \/ \E c \in Coros :
          /\ pc[c] = "sleeping"
          /\ Goto(c, "loop")
          /\ UNCHANGED resume_channel_
    \/ /\ \A c \in Coros : pc[c] # "sleeping"
       /\ resume_channel_' = 1
       /\ UNCHANGED pc

\* Mutant: the flag is cleared and the signal forgotten.
ResumeWithoutSignal ==
    /\ registered
    /\ is_paused_
    /\ is_paused_' = FALSE
    /\ UNCHANGED <<is_running_, resume_channel_, observer_, registered, pc,
                   exit_reason, notified, history>>

Resume ==
    /\ registered
    /\ is_paused_
    /\ is_paused_' = FALSE
    /\ TrySend
    /\ raced' = (raced \/ \E c \in Coros : pc[c] = "blocking")
    /\ UNCHANGED <<is_running_, observer_, registered, exit_reason, notified,
                   framesSincePause, framesSinceStop, restarted>>

\* Session::stop() as remove_session calls it, under the registry's mutex.
stop ==
    /\ is_running_' = FALSE
    /\ pc' = CancelWaits(pc)

\* POST /stop/: remove_session erases the session and stops it.
Stop ==
    /\ registered
    /\ registered' = FALSE
    /\ stop
    /\ UNCHANGED <<is_paused_, resume_channel_, observer_, exit_reason,
                   notified, history>>

-----------------------------------------------------------------------------
(* The coroutine: Session::start().                                        *)

StartRun(c) ==
    /\ pc[c] = "spawned"
    /\ is_running_' = TRUE
    /\ restarted' = (restarted \/ ~registered)
    /\ Goto(c, "preparing")
    /\ UNCHANGED <<is_paused_, resume_channel_, observer_, registered,
                   exit_reason, notified, framesSincePause, framesSinceStop,
                   raced>>

\* initialize_graph_execution() succeeds and the streamer is configured.
PrepareSucceeds(c) ==
    /\ pc[c] = "preparing"
    /\ Goto(c, "loop")
    /\ UNCHANGED <<is_running_, is_paused_, resume_channel_, observer_,
                   registered, exit_reason, notified, history>>

PrepareFails(c) ==
    /\ pc[c] = "preparing"
    /\ Notify("prep_error")
    /\ Leave(c, "InitializationFailed")
    /\ UNCHANGED <<is_running_, is_paused_, resume_channel_, observer_,
                   registered, history>>

\* An exception out of prepare(), the configuration or a frame is caught.
Throws(c) ==
    /\ pc[c] \in {"preparing", "ticked"}
    /\ Leave(c, "InternalError")
    /\ UNCHANGED <<is_running_, is_paused_, resume_channel_, observer_,
                   registered, notified, history>>

\* Mutant: while (true).
LoopForever(c) ==
    /\ pc[c] = "loop"
    /\ Goto(c, "pausecheck")
    /\ UNCHANGED <<is_running_, is_paused_, resume_channel_, observer_,
                   registered, exit_reason, notified, history>>

\* while (is_running_)
LoopCheck(c) ==
    /\ pc[c] = "loop"
    /\ \/ is_running_ /\ Goto(c, "pausecheck") /\ UNCHANGED exit_reason
       \/ ~is_running_ /\ Leave(c, "Success")
    /\ UNCHANGED <<is_running_, is_paused_, resume_channel_, observer_,
                   registered, notified, history>>

\* if (is_paused_)
PauseCheck(c) ==
    /\ pc[c] = "pausecheck"
    /\ Goto(c, IF is_paused_ THEN "receive" ELSE "settick")
    /\ UNCHANGED <<is_running_, is_paused_, resume_channel_, observer_,
                   registered, exit_reason, notified, history>>

\* Mutant: the wake-up goes on to the tick instead of back to the checks.
WakeIntoTick(c) ==
    /\ pc[c] = "receive"
    /\ resume_channel_ = 1
    /\ resume_channel_' = 0
    /\ Goto(c, "settick")
    /\ UNCHANGED <<is_running_, is_paused_, observer_, registered,
                   exit_reason, notified, history>>

\* Mutant: the signal is looked at and left in the channel.
PeekBuffered(c) ==
    /\ pc[c] = "receive"
    /\ resume_channel_ = 1
    /\ Goto(c, "loop")
    /\ UNCHANGED <<is_running_, is_paused_, resume_channel_, observer_,
                   registered, exit_reason, notified, history>>

\* async_receive finds a buffered signal; the loop continues at its head.
ReceiveBuffered(c) ==
    /\ pc[c] = "receive"
    /\ resume_channel_ = 1
    /\ resume_channel_' = 0
    /\ Goto(c, "loop")
    /\ UNCHANGED <<is_running_, is_paused_, observer_, registered,
                   exit_reason, notified, history>>

\* async_receive finds the channel empty and queues the coroutine.  The
\* channel has no lock and try_send runs on another thread: it can come
\* between the test and the queueing.
ReceiveEmpty(c) ==
    /\ pc[c] = "receive"
    /\ resume_channel_ = 0
    /\ Goto(c, "blocking")
    /\ UNCHANGED <<is_running_, is_paused_, resume_channel_, observer_,
                   registered, exit_reason, notified, history>>

ReceiveQueued(c) ==
    /\ pc[c] = "blocking"
    /\ Goto(c, "sleeping")
    /\ UNCHANGED <<is_running_, is_paused_, resume_channel_, observer_,
                   registered, exit_reason, notified, history>>

\* timer_.expires_at(next_tick) cancels whatever waits on the timer.
ExpiresAt(c) ==
    /\ pc[c] = "settick"
    /\ pc' = [CancelWaits(pc) EXCEPT ![c] = "wait"]
    /\ UNCHANGED <<is_running_, is_paused_, resume_channel_, observer_,
                   registered, exit_reason, notified, history>>

AsyncWait(c) ==
    /\ pc[c] = "wait"
    /\ Goto(c, "tick")
    /\ UNCHANGED <<is_running_, is_paused_, resume_channel_, observer_,
                   registered, exit_reason, notified, history>>

TickFires(c) ==
    /\ pc[c] = "tick"
    /\ Goto(c, "ticked")
    /\ UNCHANGED <<is_running_, is_paused_, resume_channel_, observer_,
                   registered, exit_reason, notified, history>>

TickAborted(c) ==
    /\ pc[c] = "aborted"
    /\ Leave(c, "Success")
    /\ UNCHANGED <<is_running_, is_paused_, resume_channel_, observer_,
                   registered, notified, history>>

\* process_and_stream_single_frame: the executor wants to continue (an
\* underrun included), so one frame is sent.
SendFrame(c) ==
    /\ pc[c] = "ticked"
    /\ framesSincePause' = [framesSincePause EXCEPT ![c] =
                              IF is_paused_ THEN Count(@) ELSE @]
    /\ framesSinceStop' = [framesSinceStop EXCEPT ![c] =
                              IF registered THEN @ ELSE Count(@)]
    /\ Goto(c, "loop")
    /\ UNCHANGED <<is_running_, is_paused_, resume_channel_, observer_,
                   registered, exit_reason, notified, restarted, raced>>

\* The executor is finished, or a node failed.
ExecutorEnds(c) ==
    /\ pc[c] = "ticked"
    /\ \E code \in {"Success", "FrameError"} : Leave(c, code)
    /\ UNCHANGED <<is_running_, is_paused_, resume_channel_, observer_,
                   registered, notified, history>>

Teardown(c) ==
    /\ pc[c] = "teardown"
    /\ is_running_' = FALSE
    /\ Goto(c, "finalize")
    /\ UNCHANGED <<is_paused_, resume_channel_, observer_, registered,
                   exit_reason, notified, history>>

finalize_session(c) ==
    /\ pc[c] = "finalize"
    /\ Notify(IF exit_reason[c] = "Success" THEN "complete" ELSE "error")
    /\ Goto(c, "ended")
    /\ UNCHANGED <<is_running_, is_paused_, resume_channel_, observer_,
                   registered, exit_reason, history>>

\* The end of the spawned lambda: remove_session(id), which finds nothing
\* when /stop/ or another coroutine came first.
RemoveAtEnd(c) ==
    /\ pc[c] = "ended"
    /\ \/ /\ registered
          /\ registered' = FALSE
          /\ is_running_' = FALSE
          /\ pc' = [CancelWaits(pc) EXCEPT ![c] = "done"]
       \/ /\ ~registered
          /\ Goto(c, "done")
          /\ UNCHANGED <<registered, is_running_>>
    /\ UNCHANGED <<is_paused_, resume_channel_, observer_, exit_reason,
                   notified, history>>

-----------------------------------------------------------------------------
\* What the io_context thread runs by itself, without waiting for anything.
RunStep(c) ==
    \/ StartRun(c)
    \/ LoopCheck(c)
    \/ PauseCheck(c)
    \/ ReceiveBuffered(c)
    \/ ReceiveEmpty(c)
    \/ ReceiveQueued(c)
    \/ ExpiresAt(c)
    \/ AsyncWait(c)
    \/ TickFires(c)
    \/ TickAborted(c)
    \/ SendFrame(c)
    \/ ExecutorEnds(c)
    \/ Teardown(c)
    \/ finalize_session(c)
    \/ RemoveAtEnd(c)

Next ==
    \/ Pause
    \/ Resume
    \/ Stop
    \/ \E c \in Coros :
          \/ ConnectGet(c)
          \/ ConnectCheck(c)
          \/ ConnectSpawn(c)
          \/ PrepareSucceeds(c)
          \/ PrepareFails(c)
          \/ Throws(c)
          \/ RunStep(c)

Spec == Init /\ [][Next]_vars

\* An io_context thread keeps running its ready handlers and timers fire.
\* Nothing is assumed of clients, nor of prepare(): its S3 transfers read
\* the body with no deadline and may never return.
Fairness == \A c \in Coros : WF_vars(RunStep(c))

FairSpec == Spec /\ Fairness
-----------------------------------------------------------------------------
(* The session's contract with the registry.                               *)

PhaseOf(label) ==
    CASE label = "idle" -> "idle"
      [] label = "looking" -> "looked"
      [] label = "connecting" -> "admitted"
      [] label = "spawned" -> "spawned"
      [] label \in {"preparing", "teardown"} \cup InLoop -> "running"
      [] label \in {"finalize", "ended"} -> "ended"
      [] label = "done" -> "over"

Phase == [c \in Coros |-> PhaseOf(pc[c])]

LC == INSTANCE SessionLifecycle
        WITH status <- IF registered THEN "live" ELSE "gone",
             running <- is_running_,
             phase <- Phase

\* Seen through its registration, its is_running_ flag and the phases of its
\* coroutines, the session behaves as SessionLifecycle allows.
ImplementsLifecycle == LC!Spec

-----------------------------------------------------------------------------
(* Properties.                                                             *)

\* Every variable has its type.
TypeOK ==
    /\ is_running_ \in BOOLEAN
    /\ is_paused_ \in BOOLEAN
    /\ resume_channel_ \in {0, 1}
    /\ observer_ \in Coros \cup {NoObserver}
    /\ registered \in BOOLEAN
    /\ pc \in [Coros -> PCs]
    /\ exit_reason \in [Coros -> Codes]
    /\ notified \in [Coros -> SUBSET Notices]
    /\ framesSincePause \in [Coros -> 0..FrameCap]
    /\ framesSinceStop \in [Coros -> 0..FrameCap]
    /\ restarted \in BOOLEAN
    /\ raced \in BOOLEAN

\* No other /connect/ request has spawned a coroutine: the client's usual case,
\* which the is_running() test is meant to enforce.
Sole(c) ==
    \A d \in Coros \ {c} : pc[d] \in {"idle", "looking", "connecting"}

\* wait_for_resume never misses a resume(): a session asleep on the channel
\* is paused, however pauses, resumes and the loop's two checks interleave,
\* unless a try_send ran inside an async_receive of the unlocked channel.
NoLostWakeup ==
    \A c \in Coros :
        pc[c] = "sleeping" /\ Sole(c) /\ ~raced
            => is_paused_ /\ resume_channel_ = 0

\* pause() takes effect within the tick under way: each coroutine sends at
\* most one more frame, a stale resume signal in the channel notwithstanding.
FramesAfterPause ==
    is_paused_ => \A c \in Coros : framesSincePause[c] <= 1

\* stop() takes effect within the tick under way, provided no start() ran
\* after it.
FramesAfterStop ==
    ~restarted => \A c \in Coros : framesSinceStop[c] <= 1

\* wait_for_next_tick reports a cancelled timer as Success, "assuming a
\* cancelled timer means a graceful external stop command".
AbortMeansStopped ==
    \A c \in Coros : pc[c] = "aborted" /\ Sole(c) => ~registered

\* finalize_session: whoever connected is told how the session ended before
\* the registry forgets it: completion and nothing else if start() left its
\* loop without an error, an error and never completion otherwise, and that
\* the preparation failed if it did.
ClientIsTold ==
    \A c \in Coros :
        pc[c] = "done" /\ Sole(c) =>
            /\ "complete" \in notified[c] <=> exit_reason[c] = "Success"
            /\ "error" \in notified[c] <=> exit_reason[c] # "Success"
            /\ "prep_error" \in notified[c]
                  <=> exit_reason[c] = "InitializationFailed"

\* A stopped session that is neither paused nor still preparing ends, unless
\* a late start() sets it running again.
StopEndsPlaying ==
    \A c \in Coros :
        (/\ ~registered /\ ~is_running_ /\ ~is_paused_
         /\ pc[c] \in InLoop /\ Sole(c) /\ ~raced)
            ~> (pc[c] = "done" \/ ~Sole(c))

\* "Terminates the processing loop": a stopped session does not sleep on in
\* wait_for_resume.
StopEndsPausedLoop ==
    \A c \in Coros :
        (~registered /\ pc[c] = "sleeping") ~> (pc[c] # "sleeping")

\* A session that stays in its loop and is no longer paused keeps ticking.
ResumedSessionPlays ==
    \A c \in Coros :
        <>[](pc[c] \in InLoop /\ ~is_paused_ /\ Sole(c) /\ ~raced)
            => []<>(pc[c] = "ticked")

\* A session that stays paused ends up asleep: it neither plays nor spins on
\* a signal left in the channel by an earlier resume().
PausedSessionSleeps ==
    \A c \in Coros :
        <>[](pc[c] \in InLoop /\ is_paused_ /\ is_running_)
            => <>[](pc[c] = "sleeping")
=============================================================================
