SPECIFICATION DrainedSpec
CONSTANTS
    SampleTicks = 2
    Step = 2
    Window = 9
    Keep = 1
    DropMaxBuffer = 0
    MaxWindow = 30
    ChunkSizes = {1, 2}
    SegTicks = 2
    Overrun = 0
    MaxSegs = 2
    CommitLag = 4
    ChanCap = 1
    PromptCap = 1
    OwnSession = TRUE
    MaxAudio = 6
INVARIANTS
    NoStandoff
PROPERTIES
    FlushEnds
    WriteReturnsEventually
