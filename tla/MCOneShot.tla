------------------------------ MODULE MCOneShot ------------------------------
(***************************************************************************)
(* Options of every kind, two to a list (three for a diarizer); up to two   *)
(* segments and two turns on a line of three instants, in any order.        *)
(***************************************************************************)
EXTENDS OneShot

Numbers == {-1, 0, 3}

ModelOptions == {T!WithGPU(TRUE), T!WithGPU(FALSE), T!WithGPUDevice(1), T!WithFlashAttn}

TranscribeOptions ==
    {T!SwitchOn(f) : f \in T!Switches}
    \cup {T!Set(f, n) : f \in {"threads", "maxLen", "maxTokens", "audioCtx"}, n \in Numbers}
    \cup {T!Set(f, n) : f \in T!Thresholds, n \in {0, 7}}
    \cup {T!Set(f, x) : f \in {"language", "initialPrompt"}, x \in {"", "x", "y"}}
    \cup {T!Set(f, b) : f \in {"suppressBlank", "suppressNST"}, b \in BOOLEAN}
    \cup {T!Set(f, TRUE) : f \in {"onSegment", "onProgress"}}
    \cup {T!WithBeamSearch(n) : n \in Numbers} \cup {T!WithGreedy(n) : n \in Numbers}
    \cup {T!WithOffset(d, 2) : d \in {-3, 3}} \cup {T!WithDuration(3, 2)}

DiarizeOptions ==
    {D!WithNumSpeakers(n) : n \in Numbers} \cup {D!WithThreshold(t) : t \in {5, 7}}
    \cup {D!WithMinDuration(0, 1), D!WithThreads(2), D!WithDebug}

UpTo(n, S) == UNION {[1..k -> S] : k \in 0..n}

MCOptionLists == [load |-> UpTo(2, ModelOptions), transcribe |-> UpTo(2, TranscribeOptions),
                  new |-> UpTo(3, DiarizeOptions)]

MCSpans == {s \in [start : 0..2, end : 0..2] : s.start <= s.end}

MCTurns == {t \in [start : 0..2, end : 0..2, speaker : 0..1] : t.start <= t.end}

MCTranscripts == UpTo(2, MCSpans)

MCDiarizations == UpTo(2, MCTurns)

=============================================================================
