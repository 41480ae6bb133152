SPECIFICATION FairSpec
CONSTANTS
    Coros = {c1}
    NoObserver = NoObserver
CHECK_DEADLOCK FALSE
PROPERTY StopEndsPausedLoop
