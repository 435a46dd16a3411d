SPECIFICATION Spec
CONSTANTS
    SampleTicks = 2
    Step = 4
    Window = 6
    Keep = 1
    DropMaxBuffer = 0
    MaxWindow = 30
    ChunkSizes = {1, 2}
    SegTicks = 2
    Overrun = 0
    MaxSegs = 1
    CommitLag = 0
    ChanCap = 1
    PromptCap = 1
    OwnSession = TRUE
    MaxAudio = 6
PROPERTIES
    Lossless
