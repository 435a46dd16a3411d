------------------------------- MODULE MCWav -------------------------------
(***************************************************************************)
(* Chunks that are long enough, too short, of odd size; formats at, below   *)
(* and above the sample rate, and one that cannot be decoded; every file of *)
(* at most MaxChunks of them.                                               *)
(***************************************************************************)
EXTENDS Wav

CONSTANT MaxChunks

Format(tag, channels, rate, bits) ==
    [audioFormat |-> tag, numChannels |-> channels, sampleRate |-> rate,
     bitsPerSample |-> bits]

Chunk(id, size, f) == [id |-> id, size |-> size, fc |-> f]

MCChunks ==
    {Chunk("fmt", 16, Format(1, 2, SampleRate, 16)),
     Chunk("fmt", 17, Format(1, 1, 3, 8)),
     Chunk("fmt", 18, Format(1, 1, 6, 8)),
     Chunk("fmt", 16, Format(1, 0, SampleRate, 16)),
     Chunk("fmt", 14, NoFormat),
     Chunk("data", 4, NoFormat), Chunk("data", 7, NoFormat),
     Chunk("other", 0, NoFormat), Chunk("other", 1, NoFormat)}

Begins(chunks) ==
    LET at[k \in 1..(Len(chunks) + 1)] ==
            IF k = 1 THEN 12 ELSE at[k - 1] + Extent(chunks[k - 1])
    IN  at

MCFiles ==
    {[chunks |-> s, begins |-> Begins(s)] : s \in UNION {[1..k -> MCChunks] : k \in 0..MaxChunks}}

=============================================================================
