SPECIFICATION Spec
CONSTANTS
    FrameSize = 2
    BufferSize = 5
    Settings <- Fast
    MaxTasks = 3
    MaxFrames = 9
CHECK_DEADLOCK FALSE
INVARIANT PlaysInOrder
