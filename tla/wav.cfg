SPECIFICATION Spec
CONSTANTS
    SampleRate = 4
    MaxChunks = 3
    Chunks <- MCChunks
    Files <- MCFiles
INVARIANTS
    TypeOK
    AtChunk
    DecodesFirstData
    TapsBracket
    DurationKept
