SPECIFICATION FairSpec
CONSTANTS
    SampleTicks = 2
    Step = 2
    Window = 4
    Keep = 1
    DropMaxBuffer = 0
    MaxWindow = 30
    ChunkSizes = {2}
    SegTicks = 2
    Overrun = 0
    MaxSegs = 1
    CommitLag = 0
    ChanCap = 1
    PromptCap = 1
    OwnSession = TRUE
    MaxAudio = 4
INVARIANTS
    NoLostWakeup
PROPERTIES
    EndingAdvances
    CloseReturns
    CancelUnblocksWrite
    NoGoroutineLeak
