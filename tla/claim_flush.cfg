SPECIFICATION Spec
CONSTANTS
    SampleTicks = 2
    Step = 2
    Window = 5
    Keep = 1
    DropMaxBuffer = 0
    MaxWindow = 30
    ChunkSizes = {1, 2}
    SegTicks = 2
    Overrun = 2
    MaxSegs = 1
    CommitLag = 0
    ChanCap = 1
    PromptCap = 1
    OwnSession = TRUE
    MaxAudio = 6
INVARIANTS
    FlushCommitsTail
