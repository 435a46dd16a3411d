SPECIFICATION Spec
CONSTANTS
    OptionLists <- MCOptionLists
    Transcripts <- MCTranscripts
    Diarizations <- MCDiarizations
INVARIANTS
    TypeOK
    StrategyAsAsked
    SaneParams
    ClusteringAsAsked
    LabelsByOverlap
    NothingLeaked
