SPECIFICATION Spec
CONSTANTS
    SampleTicks = 2
    Step = 4
    Window = 6
    Keep = 1
    DropMaxBuffer = 0
    MaxWindow = 30
    ChunkSizes = {1, 3}
    SegTicks = 2
    Overrun = 0
    MaxSegs = 2
    CommitLag = 0
    ChanCap = 1
    PromptCap = 2
    OwnSession = TRUE
    MaxAudio = 6
INVARIANTS
    TypeOK
    OnlyCommittedDiscarded
    BlockLossBounded
    ResultsFollowFinals
    CleanEOF
    NoFreeWhileInferring
    PromptIsCommitted
PROPERTIES
    BufferUsedLegally
    ImplementsService
