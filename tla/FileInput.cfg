SPECIFICATION FairSpec
CONSTANTS
    FrameSize = 2
    BufferSize = 5
    Settings <- EverySpeed
    MaxTasks = 3
    MaxFrames = 9
CHECK_DEADLOCK FALSE
INVARIANT TypeOK
INVARIANT ReadInBounds
INVARIANT PlaysInOrder
INVARIANT NoResidue
PROPERTY NeverReplays
 
PROPERTY RoundEnds
