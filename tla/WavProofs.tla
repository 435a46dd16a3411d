----------------------------- MODULE WavProofs -----------------------------
(***************************************************************************)
(* The resampler's index arithmetic for every length and rate, and the      *)
(* reader's types, proved for every file.                                   *)
(***************************************************************************)
EXTENDS Wav, FiniteSetTheorems, WellFoundedInduction, TLAPS

-----------------------------------------------------------------------------
(* Arithmetic. *)

LEMMA DivBounds ==
    ASSUME NEW a \in Nat, NEW b \in Nat \ {0}
    PROVE  /\ a \div b \in Nat
           /\ (a \div b) * b <= a
           /\ a < (a \div b) * b + b
OBVIOUS

LEMMA Product == \A a, b \in Nat : a * b \in Nat
OBVIOUS

LEMMA ProductMonotone ==
    ASSUME NEW a \in Nat, NEW b \in Nat, NEW c \in Nat, a <= b
    PROVE  a * c <= b * c
OBVIOUS

-----------------------------------------------------------------------------
(* What resampleLinear reads. *)

\* The two neighbours of an output sample exist and lie around its time; where
\* the second does not exist, the last sample is held.
LEMMA TapsAreNeighbours ==
    ASSUME NEW n \in Nat \ {0}, NEW from \in Nat \ {0}, NEW i \in Nat,
           NEW t \in Taps(i, n, from)
    PROVE  /\ 0 <= t[1] /\ t[1] <= t[2] /\ t[2] < n
           /\ t[1] * SampleRate <= i * from
           /\ i * from <= t[2] * SampleRate \/ t[1] = n - 1
<1>1. PICK j \in Index(i, from) :
          t = IF j >= n - 1 THEN <<n - 1, n - 1>> ELSE <<j, j + 1>>
    BY DEF Taps
<1>2. SampleRate \in Nat /\ i * from \in Nat
    BY WavAssumption, Product
<1>3. j \in Nat /\ j * SampleRate <= i * from /\ i * from <= (j + 1) * SampleRate
    BY <1>1, <1>2 DEF Index
<1>4. CASE j >= n - 1
    <2>1. t[1] = n - 1 /\ t[2] = n - 1
        BY <1>1, <1>4
    <2>2. (n - 1) * SampleRate <= j * SampleRate
        BY <1>2, <1>3, <1>4, ProductMonotone
    <2>3. (n - 1) * SampleRate \in Nat /\ j * SampleRate \in Nat
        BY <1>2, <1>3, Product
    <2> QED
        BY <1>2, <1>3, <2>1, <2>2, <2>3
<1>5. CASE ~(j >= n - 1)
    <2>1. t[1] = j /\ t[2] = j + 1
        BY <1>1, <1>5
    <2> QED
        BY <1>3, <1>5, <2>1
<1> QED
    BY <1>4, <1>5

\* Every output sample of resampleLinear has such neighbours.
LEMMA ResampledBrackets ==
    ASSUME NEW n \in Nat, NEW from \in Nat \ {0},
           NEW i \in DOMAIN Resampled(n, from), NEW t \in Resampled(n, from)[i]
    PROVE  /\ 0 <= t[1] /\ t[1] <= t[2] /\ t[2] < n
           /\ t[1] * SampleRate <= i * from
           /\ i * from <= t[2] * SampleRate \/ t[1] = n - 1
<1>1. SampleRate \in Nat \ {0}
    BY WavAssumption
<1>2. CASE n = 0
    BY <1>2 DEF Resampled
<1>3. CASE n # 0 /\ from = SampleRate
    <2>1. i \in 0..(n - 1) /\ t = <<i, i>>
        BY <1>3 DEF Resampled
    <2>2. i * SampleRate \in Nat
        BY <1>1, <2>1, Product
    <2> QED
        BY <1>3, <2>1, <2>2
<1>4. CASE n # 0 /\ from # SampleRate
    <2>1. n * SampleRate \in Nat
        BY <1>1, Product
    <2>2. OutN(n, from) \in Nat
        BY <2>1, DivBounds DEF OutN
    <2>3. i \in 0..(OutN(n, from) - 1) /\ t \in Taps(i, n, from)
        BY <1>4 DEF Resampled
    <2> QED
        BY <1>4, <2>2, <2>3, TapsAreNeighbours
<1> QED
    BY <1>2, <1>3, <1>4

\* The output ends within one output sample of the input, and not after it.
LEMMA ResampledDuration ==
    ASSUME NEW n \in Nat, NEW from \in Nat \ {0}
    PROVE  LET slack == n * SampleRate - Cardinality(DOMAIN Resampled(n, from)) * from
           IN  0 <= slack /\ slack < from
<1>1. SampleRate \in Nat \ {0} /\ n * SampleRate \in Nat
    BY WavAssumption, Product
<1>2. \A k \in Nat : Cardinality(0..(k - 1)) = k
    BY FS_Interval
<1>3. CASE n = 0 \/ from = SampleRate
    <2>1. Cardinality(DOMAIN Resampled(n, from)) = n
        BY <1>2, <1>3 DEF Resampled
    <2>2. n * SampleRate = n * from
        BY <1>1, <1>3
    <2> QED
        BY <1>1, <2>1, <2>2
<1>4. CASE n # 0 /\ from # SampleRate
    <2> DEFINE m == OutN(n, from)
    <2>1. m \in Nat /\ m * from <= n * SampleRate /\ n * SampleRate < m * from + from
        BY <1>1, DivBounds DEF OutN
    <2>2. Cardinality(DOMAIN Resampled(n, from)) = m
        BY <1>2, <1>4, <2>1 DEF Resampled
    <2>3. m * from \in Nat
        BY <2>1, Product
    <2> HIDE DEF m
    <2> QED
        BY <1>1, <2>1, <2>2, <2>3
<1> QED
    BY <1>3, <1>4

-----------------------------------------------------------------------------
(* The file. *)

LessThan == {p \in Nat \X Nat : p[1] < p[2]}

\* Induction is by the least counterexample.
LEMMA LeastNumber ==
    ASSUME NEW S, S \subseteq Nat, S # {}
    PROVE  \E m \in S : \A n \in S : m <= n
<1>1. IsWellFoundedOn(LessThan, Nat)
    BY NatLessThanWellFounded DEF OpToRel, LessThan
<1>2. PICK m \in S : \A n \in S : <<n, m>> \notin LessThan
    BY <1>1, WFMin
<1>3. \A n \in S : n \in Nat /\ m \in Nat /\ ~(n < m)
    BY <1>2 DEF LessThan
<1> QED
    BY <1>2, <1>3

FileInv == \E f \in Files : file = f.chunks /\ offset = f.begins

LEMMA ExtentBounds ==
    ASSUME NEW c \in Chunks
    PROVE  /\ c.id \in {"fmt", "data", "other"} /\ c.size \in Nat /\ c.fc \in Formats
           /\ Extent(c) \in Nat /\ Extent(c) >= 8 + c.size
<1>1. c.id \in {"fmt", "data", "other"} /\ c.size \in Nat /\ c.fc \in Formats
    BY WavAssumption
<1>2. \A n \in Nat : 8 + n + Pad(n) \in Nat /\ 8 + n + Pad(n) >= 8 + n
    BY DEF Pad
<1> QED
    BY <1>1, <1>2 DEF Extent

\* Chunks begin one after another.
LEMMA Layout ==
    ASSUME FileInv
    PROVE  /\ Len(file) \in Nat /\ (\A k \in 1..Len(file) : file[k] \in Chunks)
           /\ offset[1] = 12
           /\ \A k \in 1..Len(file) : offset[k + 1] = offset[k] + Extent(file[k])
           /\ \A k \in 1..(Len(file) + 1) : offset[k] \in Nat /\ offset[k] >= 12
           /\ \A i, j \in 1..(Len(file) + 1) : i < j => offset[i] < offset[j]
<1>1. /\ file \in Seq(Chunks) /\ offset[1] = 12
      /\ \A k \in 1..Len(file) : offset[k + 1] = offset[k] + Extent(file[k])
    BY FileAssumption DEF FileInv
<1> DEFINE n == Len(file)
<1>2. n \in Nat /\ \A k \in 1..n : file[k] \in Chunks
    BY <1>1
<1>3. \A k \in 1..n : Extent(file[k]) \in Nat /\ Extent(file[k]) >= 8
    <2> TAKE k \in 1..n
    <2>1. file[k] \in Chunks
        BY <1>2
    <2>2. file[k].size \in Nat /\ Extent(file[k]) \in Nat /\ Extent(file[k]) >= 8 + file[k].size
        BY <2>1, ExtentBounds
    <2> QED
        BY <2>2
<1> HIDE DEF n
<1>4. \A k \in 1..(n + 1) : offset[k] \in Nat /\ offset[k] >= 12
    <2> DEFINE Bad == {k \in 1..(n + 1) : ~(offset[k] \in Nat /\ offset[k] >= 12)}
    <2>1. ASSUME Bad # {} PROVE FALSE
        <3>1. Bad \subseteq Nat
            BY <1>2
        <3>2. PICK m \in Bad : \A k \in Bad : m <= k
            BY <2>1, <3>1, LeastNumber
        <3>3. m # 1 /\ m \in 1..(n + 1)
            BY <1>1, <3>2
        <3>4. m - 1 \in 1..n /\ m - 1 \in 1..(n + 1) /\ (m - 1) + 1 = m
            BY <1>2, <3>3
        <3>5. m - 1 \notin Bad
            BY <3>2, <3>3
        <3>6. offset[m - 1] \in Nat /\ offset[m - 1] >= 12
            BY <3>4, <3>5
        <3>7. offset[m] = offset[m - 1] + Extent(file[m - 1])
            BY <1>1, <3>4 DEF n
        <3>8. offset[m] \in Nat /\ offset[m] >= 12
            BY <1>3, <3>4, <3>6, <3>7
        <3> QED
            BY <3>2, <3>8
    <2> QED
        BY <2>1
<1>5. ASSUME NEW i \in 1..(n + 1), NEW j \in 1..(n + 1), i < j PROVE offset[i] < offset[j]
    <2> DEFINE Bad == {k \in 1..(n + 1) : i < k /\ ~(offset[i] < offset[k])}
    <2>1. ASSUME Bad # {} PROVE FALSE
        <3>1. Bad \subseteq Nat
            BY <1>2
        <3>2. PICK m \in Bad : \A k \in Bad : m <= k
            BY <2>1, <3>1, LeastNumber
        <3>3. m \in 1..(n + 1) /\ i < m
            BY <3>2
        <3>4. m - 1 \in 1..n /\ m - 1 \in 1..(n + 1) /\ (m - 1) + 1 = m /\ i <= m - 1
            BY <1>2, <3>3
        <3>5. m - 1 \notin Bad
            BY <3>2, <3>3
        <3>6. offset[i] <= offset[m - 1]
            BY <1>4, <3>4, <3>5
        <3>7. offset[m] = offset[m - 1] + Extent(file[m - 1])
            BY <1>1, <3>4 DEF n
        <3>8. offset[i] < offset[m]
            BY <1>3, <1>4, <3>4, <3>6, <3>7
        <3> QED
            BY <3>2, <3>8
    <2> QED
        BY <1>5, <2>1
<1> QED
    BY <1>1, <1>2, <1>4, <1>5 DEF n

\* The header read at the beginning of a chunk is that chunk's.
LEMMA HeaderIs ==
    ASSUME FileInv, NEW k \in 1..Len(file), pos = offset[k]
    PROVE  Header = file[k]
<1> DEFINE h == CHOOSE i \in 1..Len(file) : offset[i] = pos
<1>1. h \in 1..Len(file) /\ offset[h] = offset[k]
    OBVIOUS
<1> HIDE DEF h
<1>2. h = k
    <2>1. \A i, j \in 1..(Len(file) + 1) : i < j => offset[i] < offset[j]
        BY Layout
    <2>2. /\ h \in 1..(Len(file) + 1) /\ k \in 1..(Len(file) + 1)
          /\ offset[h] \in Nat /\ offset[k] \in Nat /\ h \in Nat /\ k \in Nat
        BY <1>1, Layout
    <2> QED
        BY <1>1, <2>1, <2>2
<1> QED
    BY <1>2 DEF Header, h

-----------------------------------------------------------------------------
(* The reader. *)

\* The input is a file, and what was decoded is the resampling of its frames.
ReaderInv ==
    /\ TypeOK /\ FileInv
    /\ cut <= offset[Len(file) + 1]
    /\ outcome = "samples" => out = Resampled(frames, fc.sampleRate)

LEMMA HeaderType ==
    ASSUME ReaderInv
    PROVE  /\ Header.id \in {"fmt", "data", "other"} /\ Header.size \in Nat
           /\ Header.fc \in Formats
           /\ Extent(Header) \in Nat /\ Extent(Header) >= 8 + Header.size
<1>1. Header \in Chunks \/ Header = Junk
    <2>1. CASE \E i \in 1..Len(file) : offset[i] = pos
        <3> DEFINE h == CHOOSE i \in 1..Len(file) : offset[i] = pos
        <3>1. h \in 1..Len(file)
            BY <2>1
        <3>2. Header = file[h]
            BY <2>1 DEF Header
        <3> QED
            BY <3>1, <3>2, Layout DEF ReaderInv
    <2>2. CASE ~\E i \in 1..Len(file) : offset[i] = pos
        BY <2>2 DEF Header
    <2> QED
        BY <2>1, <2>2
<1>2. CASE Header \in Chunks
    BY <1>2, ExtentBounds
<1>3. CASE Header = Junk
    <2>1. Header.id = "other" /\ Header.size = 0 /\ Header.fc \in Formats
        BY <1>3 DEF Junk, NoFormat, Formats
    <2> QED
        BY <2>1 DEF Extent, Pad
<1> QED
    BY <1>1, <1>2, <1>3

LEMMA FramesType ==
    ASSUME NEW f \in Formats, NEW size \in Nat, Decodes(f, size)
    PROVE  Frames(f, size) \in Nat
<1>1. f.bitsPerSample \div 8 \in Nat /\ f.numChannels \in Nat
    BY DEF Formats
<1>2. BlockAlign(f) \in Nat \ {0}
    BY <1>1, Product DEF BlockAlign, Decodes
<1> QED
    BY <1>2, DivBounds DEF Frames

LEMMA ReaderInit == Init => ReaderInv
<1> SUFFICES ASSUME Init PROVE ReaderInv
    OBVIOUS
<1>1. FileInv
    BY DEF Init, FileInv
<1>2. offset[Len(file) + 1] \in Nat
    BY <1>1, Layout
<1>3. /\ cut \in Nat /\ cut <= offset[Len(file) + 1]
      /\ pos = 0 /\ frames = 0 /\ outcome = "none" /\ gotFmt = FALSE
    BY <1>2 DEF Init
<1>4. fc \in Formats
    BY DEF Init, NoFormat, Formats
<1>5. TypeOK
    <2>1. gotFmt \in BOOLEAN /\ outcome \in Outcomes
        BY <1>3, Zenon DEF Outcomes
    <2>2. pos \in 0..cut
        BY <1>3
    <2> QED
        BY <1>3, <1>4, <2>1, <2>2 DEF TypeOK
<1>6. outcome # "samples"
    BY <1>3
<1> QED
    BY <1>1, <1>3, <1>5, <1>6, Zenon DEF ReaderInv

LEMMA ReaderStep == ReaderInv /\ [Next]_vars => ReaderInv'
<1> SUFFICES ASSUME ReaderInv, [Next]_vars PROVE ReaderInv'
    OBVIOUS
<1>1. cut \in Nat /\ pos \in 0..cut /\ fc \in Formats /\ frames \in Nat
    BY DEF ReaderInv, FileInv, TypeOK
<1>2. Header.size \in Nat /\ Header.fc \in Formats /\ Extent(Header) \in Nat
    BY HeaderType
<1>3. ASSUME NEW o \in Outcomes \ {"samples"}, Ends(o)
      PROVE  ReaderInv'
    BY <1>1, <1>3 DEF ReaderInv, FileInv, TypeOK, Ends, input
<1>4. CASE ReadRiff
    <2>1. CASE Has(12) /\ magic
        BY <1>1, <1>4, <2>1 DEF ReadRiff, Has, ReaderInv, FileInv, TypeOK, input
    <2>2. CASE ~(Has(12) /\ magic)
        BY <1>3, <1>4, <2>2 DEF ReadRiff, Outcomes
    <2> QED
        BY <2>1, <2>2
<1>5. CASE NoHeader
    BY <1>3, <1>5 DEF NoHeader, Outcomes
<1>6. CASE ReadFmt
    <2>1. CASE Ends("truncated") \/ Ends("unsupported")
        BY <1>3, <2>1 DEF Outcomes
    <2>2. CASE ~(Ends("truncated") \/ Ends("unsupported"))
        <3>1. /\ pos' = pos + Extent(Header) /\ Has(Extent(Header))
              /\ fc' = Header.fc /\ gotFmt' = TRUE /\ outcome = "none"
              /\ UNCHANGED <<input, outcome, frames, out>>
            BY <1>6, <2>2 DEF ReadFmt, InLoop
        <3>2. pos' \in 0..cut
            BY <1>1, <1>2, <3>1 DEF Has
        <3> QED
            BY <1>2, <3>1, <3>2 DEF ReaderInv, FileInv, TypeOK, input
    <2> QED
        BY <2>1, <2>2
<1>7. CASE ReadData
    <2>1. UNCHANGED <<input, fc, gotFmt>> /\ outcome' = DataError
        BY <1>7 DEF ReadData
    <2>2. CASE outcome' = "samples"
        <3>1. Has(8 + Header.size) /\ Decodes(fc, Header.size)
            BY <2>1, <2>2 DEF DataError
        <3>2. /\ pos' = pos + 8 + Header.size /\ frames' = Frames(fc, Header.size)
              /\ out' = Resampled(frames', fc.sampleRate)
            BY <1>7, <2>2 DEF ReadData
        <3>3. pos' \in 0..cut
            BY <1>1, <1>2, <3>1, <3>2 DEF Has
        <3>4. frames' \in Nat
            BY <1>1, <1>2, <3>1, <3>2, FramesType
        <3> QED
            BY <2>1, <2>2, <3>2, <3>3, <3>4 DEF ReaderInv, FileInv, TypeOK, input, Outcomes
    <2>3. CASE outcome' # "samples"
        <3>1. UNCHANGED <<pos, frames, out>>
            BY <1>7, <2>3 DEF ReadData
        <3>2. outcome' \in Outcomes
            BY <2>1 DEF DataError, Outcomes
        <3> QED
            BY <2>1, <2>3, <3>1, <3>2 DEF ReaderInv, FileInv, TypeOK, input
    <2> QED
        BY <2>2, <2>3
<1>8. CASE Skip
    <2>1. CASE Has(Extent(Header))
        <3>1. pos' = pos + Extent(Header) /\ UNCHANGED <<input, fc, gotFmt, outcome, frames, out>>
            BY <1>8, <2>1 DEF Skip
        <3>2. pos' \in 0..cut
            BY <1>1, <1>2, <2>1, <3>1 DEF Has
        <3> QED
            BY <3>1, <3>2 DEF ReaderInv, FileInv, TypeOK, input
    <2>2. CASE ~Has(Extent(Header))
        BY <1>3, <1>8, <2>2 DEF Skip, Outcomes
    <2> QED
        BY <2>1, <2>2
<1>9. CASE Returned \/ UNCHANGED vars
    BY <1>9 DEF Returned, vars, input, ReaderInv, FileInv, TypeOK
<1> QED
    BY <1>4, <1>5, <1>6, <1>7, <1>8, <1>9 DEF Next

\* The reader's variables keep their types; it never goes past the end of the
\* file (wav.go ReadWAV, the error of every read is looked at).
THEOREM ReaderTyping == Spec => []TypeOK
<1>1. ReaderInv => TypeOK
    BY DEF ReaderInv
<1> QED
    BY <1>1, ReaderInit, ReaderStep, PTL DEF Spec

\* Each output sample of WithResample is interpolated between input samples that
\* exist and lie around its time (resample.go, j, j+1 and the clamp to last).
THEOREM ResamplingInRange == Spec => []TapsBracket
<1>1. ReaderInv => TapsBracket
    <2> SUFFICES ASSUME ReaderInv, Decoded,
                        NEW i \in DOMAIN out, NEW t \in out[i]
                 PROVE  /\ 0 <= t[1] /\ t[1] <= t[2] /\ t[2] < frames
                        /\ t[1] * SampleRate <= i * fc.sampleRate
                        /\ i * fc.sampleRate <= t[2] * SampleRate \/ t[1] = frames - 1
        BY DEF TapsBracket
    <2>1. frames \in Nat /\ fc.sampleRate \in Nat \ {0}
        BY DEF ReaderInv, FileInv, TypeOK, Decoded, Formats
    <2>2. out = Resampled(frames, fc.sampleRate)
        BY DEF ReaderInv, Decoded
    <2> QED
        BY <2>1, <2>2, ResampledBrackets
<1> QED
    BY <1>1, ReaderInit, ReaderStep, PTL DEF Spec

\* The resampled signal is as long as the decoded one, to within one output
\* sample (resample.go, outN).
THEOREM ResamplingKeepsDuration == Spec => []DurationKept
<1>1. ReaderInv => DurationKept
    <2> SUFFICES ASSUME ReaderInv, Decoded PROVE DurationKept
        BY DEF DurationKept
    <2>1. frames \in Nat /\ fc.sampleRate \in Nat \ {0}
        BY DEF ReaderInv, FileInv, TypeOK, Decoded, Formats
    <2>2. out = Resampled(frames, fc.sampleRate)
        BY DEF ReaderInv, Decoded
    <2> QED
        BY <2>1, <2>2, ResampledDuration DEF DurationKept
<1> QED
    BY <1>1, ReaderInit, ReaderStep, PTL DEF Spec

-----------------------------------------------------------------------------
(* The scan. *)

\* The chunks before k are read, none of them data, and the format in force is
\* that of the last one of them.
ScannedTo(k) ==
    /\ k \in 1..(Len(file) + 1) /\ pos = offset[k] /\ magic
    /\ \A j \in 1..(k - 1) : /\ file[j].id # "data"
                             /\ file[j].id = "fmt" => file[j].size >= 16
    /\ ~gotFmt => \A j \in 1..(k - 1) : file[j].id # "fmt"
    /\ gotFmt => \E f \in 1..(k - 1) :
          /\ file[f].id = "fmt" /\ fc = file[f].fc
          /\ \A j \in (f + 1)..(k - 1) : file[j].id # "fmt"

ScanInv ==
    /\ ReaderInv
    /\ outcome = "none" /\ pos < 12 => pos = 0 /\ gotFmt = FALSE
    /\ InLoop => \E k \in 1..(Len(file) + 1) : ScannedTo(k)
    /\ DecodesFirstData

NoneDecodable == \A d, f \in 1..Len(file) : ~Decodable(d, f)

LEMMA EndsWithout ==
    ASSUME NoneDecodable, UNCHANGED input, outcome' # "samples"
    PROVE  DecodesFirstData'
<1>1. \A d, f \in 1..Len(file) : Decodable(d, f)' <=> Decodable(d, f)
    BY DEF input, Decodable, FirstData, FormatOf
<1>2. file' = file
    BY DEF input
<1>3. {g \in (1..Len(file)) \X (1..Len(file)) : Decodable(g[1], g[2])'} = {}
    BY <1>1 DEF NoneDecodable
<1> QED
    BY <1>2, <1>3 DEF DecodesFirstData

\* On to the next chunk.
LEMMA Onward ==
    ASSUME ScanInv, InLoop, NEW k \in 1..Len(file), ScannedTo(k), file[k].id # "data",
           pos' = pos + Extent(file[k]), UNCHANGED <<input, outcome>>, ReaderInv',
           \/ file[k].id # "fmt" /\ UNCHANGED <<fc, gotFmt>>
           \/ /\ file[k].id = "fmt" /\ file[k].size >= 16
              /\ fc' = file[k].fc /\ gotFmt' = TRUE
    PROVE  ScanInv'
<1>1. Len(file) \in Nat /\ offset[k + 1] = offset[k] + Extent(file[k])
    BY Layout DEF ScanInv, ReaderInv
<1>2. k + 1 \in 1..(Len(file) + 1) /\ (k + 1) - 1 = k /\ k \in Nat
    BY <1>1
<1>3. UNCHANGED <<file, offset, cut, magic, resample, outcome>>
    BY DEF input
<1>4. pos' = offset[k + 1] /\ magic
    BY <1>1 DEF ScannedTo
<1>5. \A j \in 1..k : /\ file[j].id # "data"
                      /\ file[j].id = "fmt" => file[j].size >= 16
    <2>1. \A j \in 1..k : j = k \/ j \in 1..(k - 1)
        BY <1>2
    <2> QED
        BY <2>1 DEF ScannedTo
<1>6. ~gotFmt' => \A j \in 1..k : file[j].id # "fmt"
    <2>1. \A j \in 1..k : j = k \/ j \in 1..(k - 1)
        BY <1>2
    <2> QED
        BY <2>1 DEF ScannedTo
<1>7. gotFmt' => \E f \in 1..k :
          /\ file[f].id = "fmt" /\ fc' = file[f].fc
          /\ \A j \in (f + 1)..k : file[j].id # "fmt"
    <2>1. CASE file[k].id = "fmt"
        <3>1. (k + 1)..k = {} /\ k \in 1..k
            BY <1>2
        <3> QED
            BY <2>1, <3>1
    <2>2. CASE file[k].id # "fmt"
        <3>1. fc' = fc /\ gotFmt' = gotFmt
            BY <2>2
        <3>2. ASSUME gotFmt
              PROVE  \E f \in 1..k :
                        /\ file[f].id = "fmt" /\ fc' = file[f].fc
                        /\ \A j \in (f + 1)..k : file[j].id # "fmt"
            <4>1. PICK f \in 1..(k - 1) :
                      /\ file[f].id = "fmt" /\ fc = file[f].fc
                      /\ \A j \in (f + 1)..(k - 1) : file[j].id # "fmt"
                BY <3>2 DEF ScannedTo
            <4>2. f \in 1..k /\ \A j \in (f + 1)..k : j = k \/ j \in (f + 1)..(k - 1)
                BY <1>2
            <4> QED
                BY <2>2, <3>1, <4>1, <4>2
        <3> QED
            BY <3>1, <3>2
    <2> QED
        BY <2>1, <2>2
<1>8. ScannedTo(k + 1)'
    BY <1>2, <1>3, <1>4, <1>5, <1>6, <1>7 DEF ScannedTo
<1>9. outcome' = "none" /\ DecodesFirstData'
    BY <1>3 DEF InLoop, DecodesFirstData
<1>10. ~(pos' < 12)
    <2>1. offset[k + 1] \in Nat /\ offset[k + 1] >= 12
        BY <1>2, Layout DEF ScanInv, ReaderInv
    <2> QED
        BY <1>4, <2>1
<1> QED
    BY <1>2, <1>3, <1>8, <1>9, <1>10 DEF ScanInv

\* A decodable file has its first data chunk at k or behind; at k + 1 or behind
\* if chunk k is something else.
LEMMA DataAhead ==
    ASSUME ReaderInv, NEW k \in 1..(Len(file) + 1), ScannedTo(k),
           NEW d \in 1..Len(file), NEW f \in 1..Len(file), Decodable(d, f)
    PROVE  /\ d >= k /\ offset[k] <= offset[d]
           /\ offset[d] + 8 <= cut
           /\ k \in 1..Len(file) /\ file[k].id # "data" =>
                 d >= k + 1 /\ offset[k] + Extent(file[k]) <= offset[d]
<1>1. /\ Len(file) \in Nat /\ d \in 1..(Len(file) + 1) /\ k \in Nat /\ d \in Nat
      /\ offset[d] \in Nat /\ offset[k] \in Nat /\ cut \in Nat
      /\ \A i, j \in 1..(Len(file) + 1) : i < j => offset[i] < offset[j]
      /\ file[d] \in Chunks
    BY Layout DEF ReaderInv, TypeOK
<1>2. file[d].id = "data" /\ offset[d] + 8 + file[d].size <= cut
    BY DEF Decodable, FirstData
<1>3. file[d].size \in Nat
    BY <1>1, ExtentBounds
<1>4. d >= k
    BY <1>1, <1>2 DEF ScannedTo
<1>5. ASSUME k \in 1..Len(file), file[k].id # "data"
      PROVE  d >= k + 1 /\ offset[k] + Extent(file[k]) <= offset[d]
    <2>1. d >= k + 1
        BY <1>1, <1>2, <1>4, <1>5
    <2>2. offset[k + 1] = offset[k] + Extent(file[k]) /\ k + 1 \in 1..(Len(file) + 1)
        BY <1>1, <1>5, Layout DEF ReaderInv
    <2>3. offset[k + 1] <= offset[d]
        <3>1. offset[k + 1] \in Nat
            BY <2>2, Layout DEF ReaderInv
        <3> QED
            BY <1>1, <2>1, <2>2, <3>1
    <2> QED
        BY <2>1, <2>2, <2>3
<1>6. offset[k] <= offset[d]
    BY <1>1, <1>4
<1>7. offset[d] + 8 <= cut
    BY <1>1, <1>2, <1>3
<1> QED
    BY <1>4, <1>5, <1>6, <1>7, Zenon

LEMMA EndsScan ==
    ASSUME ScanInv, ReaderInv', UNCHANGED input, outcome' \notin {"none", "samples"},
           NoneDecodable
    PROVE  ScanInv'
BY EndsWithout DEF ScanInv, InLoop

LEMMA ScanRiff ==
    ASSUME ScanInv, ReadRiff, ReaderInv' PROVE ScanInv'
<1>1. FileInv /\ cut \in Nat /\ pos = 0 /\ outcome = "none" /\ gotFmt = FALSE
    BY DEF ScanInv, ReaderInv, TypeOK, ReadRiff
<1>2. CASE Has(12) /\ magic
    <2>1. pos' = 12 /\ UNCHANGED <<file, offset, cut, magic, resample, fc, gotFmt, outcome>>
        BY <1>2 DEF ReadRiff, input
    <2>2. ScannedTo(1)'
        <3>1. 1 \in 1..(Len(file) + 1) /\ offset[1] = 12 /\ 1..(1 - 1) = {}
            BY <1>1, Layout
        <3> QED
            BY <1>1, <1>2, <2>1, <3>1 DEF ScannedTo
    <2>3. DecodesFirstData'
        BY <1>1, <2>1 DEF DecodesFirstData
    <2>4. 1 \in 1..(Len(file') + 1)
        BY <1>1, <2>1, Layout
    <2> QED
        BY <2>1, <2>2, <2>3, <2>4 DEF ScanInv
<1>3. CASE ~(Has(12) /\ magic)
    <2>1. UNCHANGED input /\ outcome' = "badHeader"
        BY <1>3 DEF ReadRiff, Ends
    <2>2. NoneDecodable
        <3> SUFFICES ASSUME NEW d \in 1..Len(file), NEW f \in 1..Len(file), Decodable(d, f)
                     PROVE  FALSE
            BY DEF NoneDecodable
        <3>1. magic /\ offset[d] + 8 + file[d].size <= cut
            BY DEF Decodable
        <3>2. d \in 1..(Len(file) + 1) /\ file[d] \in Chunks
            BY <1>1, Layout
        <3>3. offset[d] \in Nat /\ offset[d] >= 12 /\ file[d].size \in Nat
            BY <1>1, <3>2, Layout, ExtentBounds
        <3> QED
            BY <1>1, <1>3, <3>1, <3>3 DEF Has
    <2> QED
        BY <2>1, <2>2, EndsScan
<1> QED
    BY <1>2, <1>3

\* In the loop, the reader is at a chunk, or at the end of the file.
LEMMA AtSomeChunk ==
    ASSUME ScanInv, InLoop
    PROVE  \E k \in 1..(Len(file) + 1) :
              /\ ScannedTo(k)
              /\ Has(8) => k \in 1..Len(file) /\ Header = file[k]
<1>1. FileInv /\ cut \in Nat /\ pos \in Nat /\ cut <= offset[Len(file) + 1] /\ Len(file) \in Nat
    BY Layout DEF ScanInv, ReaderInv, TypeOK
<1>2. PICK k \in 1..(Len(file) + 1) : ScannedTo(k)
    BY DEF ScanInv
<1>3. pos = offset[k]
    BY <1>2 DEF ScannedTo
<1>4. k = Len(file) + 1 => ~Has(8)
    BY <1>1, <1>3 DEF Has
<1>5. Has(8) => k \in 1..Len(file)
    BY <1>1, <1>4
<1>6. k \in 1..Len(file) => Header = file[k]
    BY <1>1, <1>3, HeaderIs
<1> QED
    BY <1>2, <1>5, <1>6

LEMMA ScanNoHeader ==
    ASSUME ScanInv, NoHeader, ReaderInv' PROVE ScanInv'
<1>1. ReaderInv /\ InLoop /\ ~Has(8) /\ UNCHANGED input /\ outcome' = "noData"
      /\ cut \in Nat /\ pos \in Nat
    BY DEF NoHeader, Ends, ScanInv, ReaderInv, TypeOK
<1>2. PICK k \in 1..(Len(file) + 1) : ScannedTo(k)
    BY <1>1, AtSomeChunk
<1>3. NoneDecodable
    <2> SUFFICES ASSUME NEW d \in 1..Len(file), NEW f \in 1..Len(file), Decodable(d, f)
                 PROVE  FALSE
        BY DEF NoneDecodable
    <2>1. offset[k] <= offset[d] /\ offset[d] + 8 <= cut /\ pos = offset[k]
        BY <1>1, <1>2, DataAhead DEF ScannedTo
    <2>2. offset[d] \in Nat
        BY <1>1, Layout DEF ReaderInv
    <2> QED
        BY <1>1, <2>1, <2>2 DEF Has
<1> QED
    BY <1>1, <1>3, EndsScan

\* A chunk before the data that does not fit into the file.
LEMMA CutOff ==
    ASSUME ReaderInv, NEW k \in 1..Len(file), ScannedTo(k), file[k].id # "data",
           ~Has(Extent(file[k]))
    PROVE  NoneDecodable
<1> SUFFICES ASSUME NEW d \in 1..Len(file), NEW f \in 1..Len(file), Decodable(d, f)
             PROVE  FALSE
    BY DEF NoneDecodable
<1>1. k \in 1..(Len(file) + 1) /\ Len(file) \in Nat /\ cut \in Nat /\ pos = offset[k]
    BY Layout DEF ReaderInv, TypeOK, ScannedTo
<1>2. offset[k] + Extent(file[k]) <= offset[d] /\ offset[d] + 8 <= cut
    BY <1>1, DataAhead
<1>3. offset[d] \in Nat /\ offset[k] \in Nat /\ Extent(file[k]) \in Nat
    BY <1>1, Layout, ExtentBounds DEF ReaderInv
<1> QED
    BY <1>1, <1>2, <1>3 DEF Has

LEMMA ScanFmt ==
    ASSUME ScanInv, ReadFmt, ReaderInv' PROVE ScanInv'
<1>1. ReaderInv /\ InLoop /\ Has(8) /\ cut \in Nat /\ pos \in Nat
    BY DEF ReadFmt, ScanInv, ReaderInv, TypeOK
<1>2. PICK k \in 1..(Len(file) + 1) :
          ScannedTo(k) /\ k \in 1..Len(file) /\ Header = file[k]
    BY <1>1, AtSomeChunk
<1>3. file[k].id = "fmt" /\ file[k].size \in Nat /\ Extent(file[k]) \in Nat
      /\ Extent(file[k]) >= 8 + file[k].size
    BY <1>1, <1>2, Layout, ExtentBounds DEF ReadFmt, ReaderInv
<1>4. CASE Ends("truncated") /\ ~Has(Extent(file[k]))
    BY <1>1, <1>2, <1>3, <1>4, CutOff, EndsScan DEF Ends
<1>5. CASE Ends("unsupported") /\ file[k].size < 16
    <2>1. NoneDecodable
        <3> SUFFICES ASSUME NEW d \in 1..Len(file), NEW f \in 1..Len(file), Decodable(d, f)
                     PROVE  FALSE
            BY DEF NoneDecodable
        <3>1. d >= k + 1 /\ k \in Nat /\ d \in Nat /\ f \in Nat
            BY <1>1, <1>2, <1>3, DataAhead
        <3>2. /\ \A j \in (f + 1)..(d - 1) : file[j].id # "fmt"
              /\ \A j \in 1..f : file[j].id = "fmt" => file[j].size >= 16
            BY DEF Decodable, FormatOf
        <3>3. k <= f
            BY <1>3, <3>1, <3>2
        <3> QED
            BY <1>2, <1>3, <1>5, <3>1, <3>2, <3>3
    <2> QED
        BY <1>5, <2>1, EndsScan DEF Ends
<1>6. CASE /\ pos' = pos + Extent(file[k]) /\ file[k].size >= 16
           /\ fc' = file[k].fc /\ gotFmt' = TRUE /\ UNCHANGED <<input, outcome>>
    BY <1>1, <1>2, <1>3, <1>6, Onward
<1>7. ~Has(8 + file[k].size) => ~Has(Extent(file[k]))
    BY <1>1, <1>3 DEF Has
<1> QED
    BY <1>2, <1>4, <1>5, <1>6, <1>7 DEF ReadFmt

LEMMA ScanSkip ==
    ASSUME ScanInv, Skip, ReaderInv' PROVE ScanInv'
<1>1. ReaderInv /\ InLoop /\ Has(8)
    BY DEF Skip, ScanInv
<1>2. PICK k \in 1..(Len(file) + 1) :
          ScannedTo(k) /\ k \in 1..Len(file) /\ Header = file[k]
    BY <1>1, AtSomeChunk
<1>3. file[k].id = "other"
    BY <1>2 DEF Skip
<1>4. CASE Has(Extent(file[k]))
    <2>1. pos' = pos + Extent(file[k]) /\ UNCHANGED <<input, outcome, fc, gotFmt>>
        BY <1>2, <1>4 DEF Skip
    <2> QED
        BY <1>1, <1>2, <1>3, <2>1, Onward
<1>5. CASE ~Has(Extent(file[k]))
    <2>1. UNCHANGED input /\ outcome' = "truncated"
        BY <1>2, <1>5 DEF Skip, Ends
    <2>2. NoneDecodable
        BY <1>1, <1>2, <1>3, <1>5, CutOff
    <2> QED
        BY <2>1, <2>2, EndsScan
<1> QED
    BY <1>4, <1>5

\* At the data chunk, DataError refuses exactly what is not decodable.
LEMMA ScanData ==
    ASSUME ScanInv, ReadData, ReaderInv' PROVE ScanInv'
<1>1. ReaderInv /\ InLoop /\ Has(8) /\ UNCHANGED input /\ outcome' = DataError
    BY DEF ReadData, ScanInv
<1>2. PICK k \in 1..(Len(file) + 1) :
          ScannedTo(k) /\ k \in 1..Len(file) /\ Header = file[k]
    BY <1>1, AtSomeChunk
<1>3. file[k].id = "data" /\ pos = offset[k] /\ magic /\ Len(file) \in Nat /\ k \in Nat
    BY <1>1, <1>2, Layout DEF ReadData, ScannedTo, ReaderInv
<1>4. \A d, f \in 1..Len(file) : Decodable(d, f) =>
          /\ d = k /\ gotFmt /\ fc = file[f].fc
          /\ offset[k] + 8 + file[k].size <= cut
          /\ fc.sampleRate = SampleRate \/ resample
          /\ Decodes(fc, file[k].size)
    <2> SUFFICES ASSUME NEW d \in 1..Len(file), NEW f \in 1..Len(file), Decodable(d, f)
                 PROVE  /\ d = k /\ gotFmt /\ fc = file[f].fc
                        /\ offset[k] + 8 + file[k].size <= cut
                        /\ fc.sampleRate = SampleRate \/ resample
                        /\ Decodes(fc, file[k].size)
        OBVIOUS
    <2>1. /\ \A j \in 1..(d - 1) : file[j].id # "data"
          /\ f < d /\ file[f].id = "fmt"
          /\ \A j \in (f + 1)..(d - 1) : file[j].id # "fmt"
          /\ offset[d] + 8 + file[d].size <= cut
          /\ file[f].fc.sampleRate = SampleRate \/ resample
          /\ Decodes(file[f].fc, file[d].size)
        BY DEF Decodable, FirstData, FormatOf
    <2>2. d >= k /\ d \in Nat /\ f \in Nat
        BY <1>1, <1>2, DataAhead
    <2>3. d = k
        BY <1>3, <2>1, <2>2
    <2>4. f \in 1..(k - 1)
        BY <1>3, <2>1, <2>2, <2>3
    <2>5. gotFmt
        BY <1>2, <2>1, <2>4 DEF ScannedTo
    <2>6. PICK g \in 1..(k - 1) :
              /\ file[g].id = "fmt" /\ fc = file[g].fc
              /\ \A j \in (g + 1)..(k - 1) : file[j].id # "fmt"
        BY <1>2, <2>5 DEF ScannedTo
    <2>7. f = g
        BY <1>3, <2>1, <2>3, <2>4, <2>6
    <2> QED
        BY <2>1, <2>3, <2>5, <2>6, <2>7
<1>5. Has(8 + file[k].size) <=> offset[k] + 8 + file[k].size <= cut
    <2>1. file[k] \in Chunks /\ offset[k] \in Nat /\ cut \in Nat
        BY <1>1, <1>2, Layout DEF ReaderInv, TypeOK
    <2>2. file[k].size \in Nat
        BY <2>1, ExtentBounds
    <2>3. pos = offset[k] /\ pos \in Nat
        BY <1>3, <2>1
    <2>4. offset[k] + (8 + file[k].size) = offset[k] + 8 + file[k].size
        BY <2>1, <2>2
    <2> QED
        BY <2>3, <2>4, Zenon DEF Has
<1>6. CASE outcome' # "samples"
    <2>1. NoneDecodable
        <3> SUFFICES ASSUME NEW d \in 1..Len(file), NEW f \in 1..Len(file), Decodable(d, f)
                     PROVE  FALSE
            BY DEF NoneDecodable
        <3>1. /\ gotFmt /\ (fc.sampleRate = SampleRate \/ resample)
              /\ Has(8 + file[k].size) /\ Decodes(fc, file[k].size)
            BY <1>4, <1>5
        <3> QED
            BY <1>1, <1>2, <1>6, <3>1, Zenon DEF DataError
    <2>2. outcome' # "none"
        BY <1>1 DEF DataError
    <2> QED
        BY <1>1, <1>6, <2>1, <2>2, EndsScan
<1>7. CASE outcome' = "samples"
    <2>1. /\ gotFmt /\ (fc.sampleRate = SampleRate \/ resample)
          /\ Has(8 + file[k].size) /\ Decodes(fc, file[k].size)
          /\ out' = Resampled(Frames(fc, file[k].size), fc.sampleRate)
        BY <1>1, <1>2, <1>7 DEF DataError, ReadData
    <2>2. PICK g \in 1..(k - 1) :
              /\ file[g].id = "fmt" /\ fc = file[g].fc
              /\ \A j \in (g + 1)..(k - 1) : file[j].id # "fmt"
        BY <1>2, <2>1 DEF ScannedTo
    <2>3. Decodable(k, g) /\ g \in 1..Len(file)
        <3>1. offset[k] + 8 + file[k].size <= cut
            BY <1>3, <1>5, <2>1
        <3>2. FirstData(k)
            BY <1>2, <1>3 DEF FirstData, ScannedTo
        <3>3. FormatOf(k, g) /\ g \in 1..Len(file)
            BY <1>3, <2>2 DEF FormatOf
        <3>4. \A j \in 1..g : file[j].id = "fmt" => file[j].size >= 16
            <4>1. \A j \in 1..g : j \in 1..(k - 1)
                BY <1>3, <2>2
            <4> QED
                BY <1>2, <4>1 DEF ScannedTo
        <3> QED
            BY <1>3, <2>1, <2>2, <3>1, <3>2, <3>3, <3>4 DEF Decodable
    <2>4. \A d, f \in 1..Len(file) : Decodable(d, f)' <=> Decodable(d, f)
        BY <1>1 DEF input, Decodable, FirstData, FormatOf
    <2>5. file' = file
        BY <1>1 DEF input
    <2>6. DecodesFirstData'
        <3> DEFINE Good == {g2 \in (1..Len(file)) \X (1..Len(file)) : Decodable(g2[1], g2[2])'}
        <3>1. <<k, g>> \in Good
            BY <1>2, <2>3, <2>4
        <3>2. ASSUME NEW p \in Good
              PROVE  out' = Resampled(Frames(file[p[2]].fc, file[p[1]].size), file[p[2]].fc.sampleRate)
            <4>1. p[1] \in 1..Len(file) /\ p[2] \in 1..Len(file) /\ Decodable(p[1], p[2])
                BY <2>4
            <4>2. p[1] = k /\ fc = file[p[2]].fc
                BY <1>4, <4>1
            <4> QED
                BY <2>1, <4>2
        <3> HIDE DEF Good
        <3>3. outcome' = "samples" <=> Good # {}
            BY <1>7, <3>1
        <3> QED
            BY <2>5, <3>2, <3>3 DEF DecodesFirstData, Good
    <2> QED
        BY <1>7, <2>6 DEF ScanInv, InLoop
<1> QED
    BY <1>6, <1>7

LEMMA ScanStep == ScanInv /\ [Next]_vars => ScanInv'
<1> SUFFICES ASSUME ScanInv, [Next]_vars PROVE ScanInv'
    OBVIOUS
<1>1. ReaderInv'
    BY ReaderStep DEF ScanInv
<1>2. CASE UNCHANGED vars
    BY <1>1, <1>2 DEF vars, input, ScanInv, InLoop, ScannedTo, DecodesFirstData,
       Decodable, FirstData, FormatOf
<1> QED
    BY <1>1, <1>2, ScanRiff, ScanNoHeader, ScanFmt, ScanSkip, ScanData DEF Next, Returned

LEMMA ScanInit == Init => ScanInv
<1> SUFFICES ASSUME Init PROVE ScanInv
    OBVIOUS
<1>1. outcome = "none" /\ pos = 0 /\ gotFmt = FALSE
    BY DEF Init
<1> QED
    BY <1>1, ReaderInit DEF ScanInv, InLoop, DecodesFirstData

\* Whatever the sizes of the chunks, the reader is only ever where a chunk begins
\* (wav.go ReadWAV, the padding byte).
THEOREM ReaderAtChunks == Spec => []AtChunk
<1>1. ScanInv => AtChunk
    BY DEF ScanInv, AtChunk, ScannedTo
<1> QED
    BY <1>1, ScanInit, ScanStep, PTL DEF Spec

\* WHAT IS DECODED.  For every file, whole or cut off: samples exactly if the first
\* data chunk can be decoded in the format in force there, and then its frames
\* (wav.go ReadWAV).
THEOREM ReaderDecodes == Spec => []DecodesFirstData
<1>1. ScanInv => DecodesFirstData
    BY DEF ScanInv
<1> QED
    BY <1>1, ScanInit, ScanStep, PTL DEF Spec

-----------------------------------------------------------------------------
(* The end of the loop. *)

\* At most the turns that ReadWAV has still to take.
TurnsLeft == IF outcome = "none" THEN 1 + (cut - pos) ELSE 0

\* Every turn of the loop ends it or reads on, inside the file: no chunk, one of
\* size zero either, is read twice (wav.go ReadWAV).
ReaderAdvances == [][TurnsLeft' < TurnsLeft]_vars

\* ReadWAV returns on every file, for a natural number falls with each turn.
THEOREM ReaderEnds == Spec => [](TurnsLeft \in Nat) /\ ReaderAdvances
<1>1. ReaderInv => TurnsLeft \in Nat
    BY DEF ReaderInv, TypeOK, TurnsLeft
<1>2. ReaderInv /\ ReaderInv' /\ [Next]_vars => [TurnsLeft' < TurnsLeft]_vars
    <2> SUFFICES ASSUME ReaderInv, ReaderInv', Next, ~UNCHANGED vars
                 PROVE  TurnsLeft' < TurnsLeft
        OBVIOUS
    <2>1. cut \in Nat /\ pos \in 0..cut
        BY DEF ReaderInv, TypeOK
    <2>2. Header.size \in Nat /\ Extent(Header) \in Nat /\ Extent(Header) >= 8
        BY HeaderType DEF Extent, Pad
    <2>3. outcome = "none"
        BY DEF Next, ReadRiff, NoHeader, ReadFmt, ReadData, Skip, InLoop, Returned
    <2>4. ASSUME outcome' # "none"
          PROVE  TurnsLeft' < TurnsLeft
        <3>1. TurnsLeft' = 0 /\ TurnsLeft = 1 + (cut - pos)
            BY <2>3, <2>4 DEF TurnsLeft
        <3> QED
            BY <2>1, <3>1
    <2>5. ASSUME outcome' = "none", cut' = cut, pos' > pos
          PROVE  TurnsLeft' < TurnsLeft
        <3>1. TurnsLeft' = 1 + (cut - pos') /\ TurnsLeft = 1 + (cut - pos)
            BY <2>3, <2>5 DEF TurnsLeft
        <3>2. pos' \in 0..cut
            <4>1. TypeOK'
                BY DEF ReaderInv
            <4> QED
                BY <2>5, <4>1 DEF TypeOK
        <3>3. \A m, n, k \in Int : k > n => 1 + (m - k) < 1 + (m - n)
            OBVIOUS
        <3>4. 1 + (cut - pos') < 1 + (cut - pos)
            <4>1. cut \in Int /\ pos \in Int /\ pos' \in Int /\ pos' > pos
                BY <2>1, <2>5, <3>2
            <4> QED
                BY <3>3, <4>1
        <3> QED
            BY <3>1, <3>4
    <2>6. \A o \in Outcomes \ {"none"} : Ends(o) => outcome' # "none"
        BY DEF Ends
    <2>7. CASE ReadRiff
        BY <2>1, <2>4, <2>5, <2>6, <2>7 DEF ReadRiff, Outcomes, input
    <2>8. CASE NoHeader
        BY <2>4, <2>6, <2>8 DEF NoHeader, Outcomes
    <2>9. CASE ReadFmt
        <3>1. \/ outcome' # "none"
              \/ pos' = pos + Extent(Header) /\ UNCHANGED <<input, outcome>>
            BY <2>6, <2>9 DEF ReadFmt, Outcomes
        <3> QED
            BY <2>1, <2>2, <2>3, <2>4, <2>5, <3>1 DEF input
    <2>10. CASE ReadData
        BY <2>4, <2>10 DEF ReadData, DataError
    <2>11. CASE Skip
        <3>1. \/ outcome' # "none"
              \/ pos' = pos + Extent(Header) /\ UNCHANGED <<input, outcome>>
            BY <2>6, <2>11 DEF Skip, Outcomes
        <3> QED
            BY <2>1, <2>2, <2>3, <2>4, <2>5, <3>1 DEF input
    <2> QED
        BY <2>3, <2>7, <2>8, <2>9, <2>10, <2>11 DEF Next, Returned
<1> QED
    BY <1>1, <1>2, ReaderInit, ReaderStep, PTL DEF Spec, ReaderAdvances

=============================================================================
