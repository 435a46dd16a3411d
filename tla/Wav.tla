-------------------------------- MODULE Wav --------------------------------
(***************************************************************************)
(* ReadWAV (wav/wav.go) over a RIFF file, chunk by chunk, and the linear    *)
(* resampler (wav/resample.go) by the input samples each output sample is   *)
(* made of.                                                                 *)
(*                                                                          *)
(* A file is its chunks, laid out with their padding bytes, of which only   *)
(* the first cut bytes are there.  A header read where no chunk begins is   *)
(* some unknown chunk.  Sample values are not modelled.                     *)
(***************************************************************************)
EXTENDS Integers, Sequences, FiniteSets

CONSTANTS SampleRate,   \* 16000
          Chunks,       \* the chunks a file may have: [id, size, fc], "fmt" for "fmt "
          Files         \* the files: [chunks, begins], begins the offset of each chunk

Formats == [audioFormat : Nat, numChannels : Nat, sampleRate : Nat, bitsPerSample : Nat]

ASSUME WavAssumption ==
    /\ SampleRate \in Nat \ {0}
    /\ Chunks \subseteq [id : {"fmt", "data", "other"}, size : Nat, fc : Formats]

Pad(size) == size % 2

Extent(c) == 8 + c.size + Pad(c.size)

\* The chunks of a file follow one another behind the RIFF header, and begins has
\* one entry more, the end of the file.
ASSUME FileAssumption ==
    \A f \in Files :
        /\ f.chunks \in Seq(Chunks)
        /\ DOMAIN f.begins = 1..(Len(f.chunks) + 1) /\ f.begins[1] = 12
        /\ \A k \in 1..Len(f.chunks) : f.begins[k + 1] = f.begins[k] + Extent(f.chunks[k])

VARIABLES
    file, offset,       \* the input: the chunks, where each begins,
    cut, magic,         \* the bytes present, RIFF and WAVE in place
    resample,           \* cfg.resample
    pos,                \* bytes read so far
    fc, gotFmt,         \* the format in force
    outcome,            \* "none" while the loop runs
    frames,             \* the samples decodeSamples returned
    out                 \* per output sample, the pairs of input samples it may use

input == <<file, offset, cut, magic, resample>>
vars == <<input, pos, fc, gotFmt, outcome, frames, out>>

NoFormat == [audioFormat |-> 0, numChannels |-> 0, sampleRate |-> 0, bitsPerSample |-> 0]

Outcomes == {"none", "badHeader", "noData", "truncated", "unsupported",
             "dataBeforeFmt", "not16kHz", "samples"}

-----------------------------------------------------------------------------
(* The file. *)

Junk == [id |-> "other", size |-> 0, fc |-> NoFormat]

\* The header read at pos.
Header ==
    IF \E k \in 1..Len(file) : offset[k] = pos
    THEN file[CHOOSE k \in 1..Len(file) : offset[k] = pos]
    ELSE Junk

Has(n) == pos + n <= cut

-----------------------------------------------------------------------------
(* Decoding and resampling. *)

BlockAlign(f) == (f.bitsPerSample \div 8) * f.numChannels

Converts(f) ==
    \/ f.audioFormat = 3 /\ f.bitsPerSample = 32
    \/ f.audioFormat = 1 /\ f.bitsPerSample = 8
    \/ f.audioFormat \in {1, 65534} /\ f.bitsPerSample \in {16, 24, 32}

\* decodeSamples returns no error.
Decodes(f, size) ==
    /\ f.numChannels >= 1 /\ BlockAlign(f) # 0
    /\ size % BlockAlign(f) = 0
    /\ Converts(f)

Frames(f, size) == size \div BlockAlign(f)

\* Fault: rounded to the nearest instead of down.
OutNMutant(n, from) == (n * SampleRate + from \div 2) \div from

OutN(n, from) == (n * SampleRate) \div from

\* int(float64(i) * ratio): exact, or one short where i * ratio is a whole number
\* and the rounded ratio is below it.
Index(i, from) ==
    {j \in 0..(i * from) : j * SampleRate <= i * from /\ i * from <= (j + 1) * SampleRate}

\* Fault: the last input sample is taken for one with a neighbour.
TapsMutant(i, n, from) ==
    {IF j > n - 1 THEN <<n - 1, n - 1>> ELSE <<j, j + 1>> : j \in Index(i, from)}

\* The two input samples output sample i is interpolated between.
Taps(i, n, from) ==
    {IF j >= n - 1 THEN <<n - 1, n - 1>> ELSE <<j, j + 1>> : j \in Index(i, from)}

\* resampleLinear, by its taps; unchanged where there is nothing to do.
Resampled(n, from) ==
    IF n = 0 \/ from = 0 \/ from = SampleRate
    THEN [i \in 0..(n - 1) |-> {<<i, i>>}]
    ELSE [i \in 0..(OutN(n, from) - 1) |-> Taps(i, n, from)]

-----------------------------------------------------------------------------
(* The loop of ReadWAV. *)

Init ==
    /\ \E f \in Files : file = f.chunks /\ offset = f.begins
    /\ cut \in 0..offset[Len(file) + 1]
    /\ magic \in BOOLEAN /\ (~magic => file = <<>>)
    /\ resample \in BOOLEAN
    /\ pos = 0 /\ fc = NoFormat /\ gotFmt = FALSE
    /\ outcome = "none" /\ frames = 0 /\ out = [i \in 0..(-1) |-> {}]

Ends(o) ==
    /\ outcome' = o
    /\ UNCHANGED <<input, pos, fc, gotFmt, frames, out>>

ReadRiff ==
    /\ outcome = "none" /\ pos = 0
    /\ IF Has(12) /\ magic
       THEN pos' = 12 /\ UNCHANGED <<input, fc, gotFmt, outcome, frames, out>>
       ELSE Ends("badHeader")

InLoop == outcome = "none" /\ pos >= 12

NoHeader == InLoop /\ ~Has(8) /\ Ends("noData")

\* Fault: a later format does not replace the first.
ReadFmtFirst ==
    /\ InLoop /\ Has(8) /\ Header.id = "fmt"
    /\ \/ ~Has(Extent(Header)) /\ Ends("truncated")
       \/ Has(Extent(Header)) /\ Header.size < 16 /\ Ends("unsupported")
       \/ /\ Has(Extent(Header)) /\ Header.size >= 16
          /\ pos' = pos + Extent(Header)
          /\ fc' = (IF gotFmt THEN fc ELSE Header.fc) /\ gotFmt' = TRUE
          /\ UNCHANGED <<input, outcome, frames, out>>

\* Fault: the padding byte is skipped after unknown chunks only.
ReadFmtMutant ==
    /\ InLoop /\ Has(8) /\ Header.id = "fmt"
    /\ \/ ~Has(8 + Header.size) /\ Ends("truncated")
       \/ Has(8 + Header.size) /\ Header.size < 16 /\ Ends("unsupported")
       \/ /\ Has(8 + Header.size) /\ Header.size >= 16
          /\ pos' = pos + 8 + Header.size
          /\ fc' = Header.fc /\ gotFmt' = TRUE
          /\ UNCHANGED <<input, outcome, frames, out>>

ReadFmt ==
    /\ InLoop /\ Has(8) /\ Header.id = "fmt"
    /\ \/ ~Has(8 + Header.size) /\ Ends("truncated")
       \/ Has(8 + Header.size) /\ Header.size < 16 /\ Ends("unsupported")
       \/ /\ Has(8 + Header.size) /\ ~Has(Extent(Header)) /\ Header.size >= 16
          /\ Ends("truncated")
       \/ /\ Has(Extent(Header)) /\ Header.size >= 16
          /\ pos' = pos + Extent(Header)
          /\ fc' = Header.fc /\ gotFmt' = TRUE
          /\ UNCHANGED <<input, outcome, frames, out>>

\* The checks on a data chunk, in their order.
DataError ==
    IF ~gotFmt THEN "dataBeforeFmt"
    ELSE IF fc.sampleRate # SampleRate /\ ~resample THEN "not16kHz"
    ELSE IF ~Has(8 + Header.size) THEN "truncated"
    ELSE IF ~Decodes(fc, Header.size) THEN "unsupported"
    ELSE "samples"

ReadData ==
    /\ InLoop /\ Has(8) /\ Header.id = "data"
    /\ outcome' = DataError
    /\ IF outcome' = "samples"
       THEN /\ pos' = pos + 8 + Header.size
            /\ frames' = Frames(fc, Header.size)
            /\ out' = Resampled(frames', fc.sampleRate)
       ELSE UNCHANGED <<pos, frames, out>>
    /\ UNCHANGED <<input, fc, gotFmt>>

\* Fault: the error of CopyN is ignored.
SkipMutant ==
    /\ InLoop /\ Has(8) /\ Header.id = "other"
    /\ pos' = pos + Extent(Header)
    /\ UNCHANGED <<input, fc, gotFmt, outcome, frames, out>>

Skip ==
    /\ InLoop /\ Has(8) /\ Header.id = "other"
    /\ IF Has(Extent(Header))
       THEN pos' = pos + Extent(Header) /\ UNCHANGED <<input, fc, gotFmt, outcome, frames, out>>
       ELSE Ends("truncated")

Returned == outcome # "none" /\ UNCHANGED vars

Next == ReadRiff \/ NoHeader \/ ReadFmt \/ ReadData \/ Skip \/ Returned

Spec == Init /\ [][Next]_vars

-----------------------------------------------------------------------------
TypeOK ==
    /\ cut \in Nat /\ pos \in 0..cut
    /\ fc \in Formats /\ gotFmt \in BOOLEAN /\ outcome \in Outcomes
    /\ frames \in Nat

\* The reader is always at the start of a chunk, or has read the whole file: no
\* odd size makes it take a padding byte for a header (wav.go ReadWAV).
AtChunk == InLoop => \E k \in 1..(Len(file) + 1) : pos = offset[k]

\* The first data chunk, the format in force there, and what comes before it.
FirstData(d) ==
    file[d].id = "data" /\ \A k \in 1..(d - 1) : file[k].id # "data"

FormatOf(d, f) ==
    /\ f < d /\ file[f].id = "fmt"
    /\ \A k \in (f + 1)..(d - 1) : file[k].id # "fmt"

Decodable(d, f) ==
    /\ magic /\ FirstData(d) /\ FormatOf(d, f)
    /\ \A k \in 1..f : file[k].id = "fmt" => file[k].size >= 16
    /\ offset[d] + 8 + file[d].size <= cut
    /\ file[f].fc.sampleRate = SampleRate \/ resample
    /\ Decodes(file[f].fc, file[d].size)

\* ReadWAV returns samples exactly for a file whose first data chunk is there,
\* follows a format it can decode, and the last format before it counts, with
\* any other chunks around; and it returns that chunk's frames, resampled
\* (wav.go ReadWAV and decodeSamples).
DecodesFirstData ==
    outcome # "none" =>
        LET Good == {g \in (1..Len(file)) \X (1..Len(file)) : Decodable(g[1], g[2])}
        IN  /\ (outcome = "samples" <=> Good # {})
            /\ \A g \in Good :
                  LET form == file[g[2]].fc
                  IN  out = Resampled(Frames(form, file[g[1]].size), form.sampleRate)

Decoded == outcome = "samples" /\ fc.sampleRate > 0

\* Every output sample is interpolated between input samples that exist and lie
\* on both sides of its time; past the last of them it holds the last
\* (resample.go, the index arithmetic and its clamp).
TapsBracket ==
    Decoded =>
        \A i \in DOMAIN out : \A t \in out[i] :
            /\ 0 <= t[1] /\ t[1] <= t[2] /\ t[2] < frames
            /\ t[1] * SampleRate <= i * fc.sampleRate
            /\ i * fc.sampleRate <= t[2] * SampleRate \/ t[1] = frames - 1

\* The output is as long as the input to within one output sample, and never
\* longer (resample.go, "Output length is len(in)*toRate/fromRate").
DurationKept ==
    Decoded =>
        LET slack == frames * SampleRate - Cardinality(DOMAIN out) * fc.sampleRate
        IN  0 <= slack /\ slack < fc.sampleRate

=============================================================================
