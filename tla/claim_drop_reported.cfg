SPECIFICATION Spec
CONSTANTS
    SampleTicks = 2
    Step = 2
    Window = 5
    Keep = 1
    DropMaxBuffer = 3
    MaxWindow = 30
    ChunkSizes = {1, 2}
    SegTicks = 2
    Overrun = 0
    MaxSegs = 1
    CommitLag = 0
    ChanCap = 1
    PromptCap = 1
    OwnSession = TRUE
    MaxAudio = 6
PROPERTIES
    DropReported
