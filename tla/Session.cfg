SPECIFICATION FairSpec
CONSTANTS
    Coros = {c1, c2}
    NoObserver = NoObserver
CHECK_DEADLOCK FALSE
INVARIANT TypeOK
INVARIANT NoLostWakeup
INVARIANT AbortMeansStopped
INVARIANT ClientIsTold
INVARIANT FramesAfterPause
INVARIANT FramesAfterStop
PROPERTY StopEndsPlaying
PROPERTY ResumedSessionPlays
PROPERTY PausedSessionSleeps
PROPERTY ImplementsLifecycle
