SPECIFICATION FairSpec
CONSTANTS
    file1 = file1
    file2 = file2
    mix = mix
    pause = pause
    opts = opts
    sink = sink
    Nodes = {file1, file2, mix, pause, opts, sink}
    None = None
    Kind <- NodeKinds
    Length <- Lengths
    MaxInputs = 2
    MaxFrames = 2
CHECK_DEADLOCK FALSE
INVARIANT OnlyStartUnsupported
INVARIANT FetchesJoined
INVARIANT LoopsFlagged
INVARIANT NeverStarved
INVARIANT PlayedToTheEnd
PROPERTY AcyclicEnds
