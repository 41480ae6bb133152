SPECIFICATION Spec
CONSTANTS
    One = 8
    max_delay_samples_ = 5
    Increments = {1, 3}
    Samples <- AllSamples
    PacketSet <- SomePackets
    BufferSizes = {12, 25, 64}
    Mixers <- OneMixer
    MaxSources = 2
    WavFiles <- SomeWavFiles
CHECK_DEADLOCK FALSE
INVARIANT SampleSurvives
INVARIANT PacketSurvives
INVARIANT AudioFound
INVARIANT HeadsFollow
PROPERTY NoClick
