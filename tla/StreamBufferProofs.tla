------------------------- MODULE StreamBufferProofs -------------------------
(***************************************************************************)
(* The invariant of the stream buffer, proved for every configuration       *)
(* validate accepts, every length of sample and every set of chunk sizes.   *)
(* The arithmetic of DurFor is in the first lemmas; the steps use only them.*)
(***************************************************************************)
EXTENDS StreamBuffer, TLAPS

\* What validate leaves of the settings.
LEMMA ConfigFacts ==
    /\ {Step, Window, Keep, DropMaxBuffer, MaxWindow} \subseteq Nat
    /\ Step > 0 /\ Step <= Window /\ Keep < Window
BY ConfigAssumption DEF Valid

\* durFor of a count is a duration, of a sum the sum of the durations.
LEMMA DurForType == ASSUME NEW n \in Nat PROVE DurFor(n) \in Nat
BY SampleTicksAssumption DEF DurFor

LEMMA DurForPositive == ASSUME NEW n \in Nat \ {0} PROVE DurFor(n) > 0
BY SampleTicksAssumption DEF DurFor

LEMMA DurForZero == DurFor(0) = 0
BY SampleTicksAssumption DEF DurFor

LEMMA DurForAdd ==
    ASSUME NEW m \in Nat, NEW n \in Nat
    PROVE  DurFor(m + n) = DurFor(m) + DurFor(n)
BY SampleTicksAssumption DEF DurFor

\* samplesFor loses less than one sample, or exactly one.
LEMMA SamplesForBounds ==
    ASSUME NEW d \in Nat, NEW k \in SamplesFor(d)
    PROVE  k \in Nat /\ DurFor(k) <= d /\ d <= DurFor(k) + SampleTicks
<1>1. k \in Nat /\ DurFor(k) <= d /\ d <= DurFor(k + 1)
    BY DEF SamplesFor
<1>2. DurFor(k + 1) = DurFor(k) + SampleTicks
    BY <1>1, SampleTicksAssumption DEF DurFor
<1> QED
    BY <1>1, <1>2

\* min as the code uses it.
LEMMA LeastBounds ==
    ASSUME NEW a \in Nat, NEW b \in Nat
    PROVE  Least(a, b) \in Nat /\ Least(a, b) <= a /\ Least(a, b) <= b
           /\ Least(a, b) \in {a, b}
BY DEF Least

-----------------------------------------------------------------------------
\* Trimming the front and appending at the end keep the buffer aligned.
LEMMA AlignedTrim ==
    ASSUME BufTypeOK, Aligned, NEW n \in Nat, NEW trim \in Nat,
           trim <= pcmLen + n,
           TrimFront(trim), pcmLen' = pcmLen + n - trim,
           consumed' = consumed + DurFor(n)
    PROVE  Aligned' /\ {pcmFirst, pcmLen, start, consumed}' \subseteq Nat
<1>1. pcmFirst \in Nat /\ pcmLen \in Nat /\ start \in Nat /\ consumed \in Nat
    BY DEF BufTypeOK
<1>2. pcmFirst' = pcmFirst + trim /\ pcmFirst' \in Nat /\ pcmLen' \in Nat
    BY <1>1 DEF TrimFront
<1>3. start' = DurFor(pcmFirst')
    BY <1>1, <1>2, DurForAdd DEF Aligned, TrimFront
<1>4. pcmFirst' + pcmLen' = (pcmFirst + pcmLen) + n
    BY <1>1, <1>2
<1>5. consumed' = DurFor(pcmFirst' + pcmLen')
    <2>1. pcmFirst + pcmLen \in Nat
        BY <1>1
    <2>2. DurFor((pcmFirst + pcmLen) + n) = DurFor(pcmFirst + pcmLen) + DurFor(n)
        BY <2>1, DurForAdd
    <2> QED
        BY <1>4, <2>2 DEF Aligned
<1>6. start' \in Nat /\ consumed' \in Nat
    BY <1>1, <1>2, <1>3, <1>5, DurForType
<1> QED
    BY <1>2, <1>3, <1>5, <1>6 DEF Aligned

\* The buffered audio is never of negative length.
LEMMA StartConsumed ==
    ASSUME BufTypeOK, Aligned
    PROVE  start <= consumed /\ consumed - start = DurFor(pcmLen)
<1>1. pcmFirst \in Nat /\ pcmLen \in Nat
    BY DEF BufTypeOK
<1>2. DurFor(pcmFirst + pcmLen) = DurFor(pcmFirst) + DurFor(pcmLen)
    BY <1>1, DurForAdd
<1>3. DurFor(pcmFirst) \in Nat /\ DurFor(pcmLen) \in Nat
    BY <1>1, DurForType
<1> QED
    BY <1>2, <1>3 DEF Aligned

LEMMA AppendStep ==
    ASSUME BufInv, NEW n \in ChunkSizes, WriteAppend(n)
    PROVE  BufInv'
<1> USE DEF BufInv
<1>0. n \in Nat \ {0} /\ DurFor(n) \in Nat
    BY ChunkAssumption, DurForType
<1>1. {pcmFirst, pcmLen, start, consumed} \subseteq Nat
    BY DEF BufTypeOK
<1>2. /\ start <= consumed
      /\ consumed - start = DurFor(pcmLen)
    BY StartConsumed
<1>3. DropCap \in Nat /\ BlockCap \in Nat
    BY ConfigFacts DEF DropCap, BlockCap
<1> DEFINE d == consumed + DurFor(n) - start - DropCap
<1>4. PICK k \in IF Overfull(n) THEN SamplesFor(d) ELSE {0} :
         /\ TrimFront(Least(k, pcmLen + n))
         /\ pcmLen' = pcmLen + n - Least(k, pcmLen + n)
    BY DEF WriteAppend
<1> DEFINE trim == Least(k, pcmLen + n)
<1>5. Overfull(n) => d \in Nat
    BY <1>0, <1>1, <1>2, <1>3 DEF Overfull
<1>6. k \in Nat /\ (Overfull(n) => d <= DurFor(k) + SampleTicks)
    BY <1>4, <1>5, SamplesForBounds
<1>7. trim \in Nat /\ trim <= pcmLen + n /\ trim \in {k, pcmLen + n}
    <2>1. pcmLen + n \in Nat
        BY <1>0, <1>1
    <2> QED
        BY <2>1, <1>6, LeastBounds
<1>8. consumed' = consumed + DurFor(n)
    BY DEF WriteAppend
<1>9. Aligned' /\ {pcmFirst, pcmLen, start, consumed}' \subseteq Nat
    <2> HIDE DEF trim
    <2> QED BY <1>0, <1>4, <1>7, <1>8, AlignedTrim DEF trim
<1>10. BufTypeOK'
    BY <1>9 DEF WriteAppend, BufTypeOK, Broadcast, Overfull, Goroutines
<1>11. start' = start + DurFor(trim) /\ DurFor(trim) \in Nat
    BY <1>4, <1>7, DurForType DEF TrimFront
<1>12. BlockBound'
    <2>1. SUFFICES ASSUME BlockCap > 0
                   PROVE  consumed' - start' < BlockCap + DurFor(n)
        BY DEF BlockBound
    <2>2. consumed - start < BlockCap
        BY <2>1, <1>1, <1>3 DEF WriteAppend, MustWait
    <2> QED
        BY <2>2, <1>0, <1>1, <1>3, <1>8, <1>11
<1>13. DropBound'
    <2>1. SUFFICES ASSUME DropCap > 0
                   PROVE  consumed' - start' <= DropCap + SampleTicks
        BY DEF DropBound
    <2>2. CASE ~Overfull(n)
        BY <2>1, <2>2, <1>0, <1>1, <1>3, <1>8, <1>11, SampleTicksAssumption
           DEF Overfull
    <2>3. CASE Overfull(n) /\ trim = k
        BY <2>3, <1>0, <1>1, <1>3, <1>6, <1>8, <1>11, SampleTicksAssumption
    <2>4. CASE trim = pcmLen + n
        BY <2>4, <1>0, <1>1, <1>2, <1>3, <1>8, <1>11, DurForAdd,
           SampleTicksAssumption
    <2> QED
        BY <2>2, <2>3, <2>4, <1>7
<1>14. HolderRuns'
    BY DEF WriteAppend, Broadcast, HolderRuns
<1> QED
    BY <1>9, <1>10, <1>12, <1>13, <1>14

LEMMA SlideStep ==
    ASSUME BufInv, NEW newStart \in Int, Slide(newStart)
    PROVE  BufInv'
<1> USE DEF BufInv
<1>1. {pcmFirst, pcmLen, start, consumed} \subseteq Nat /\ consumed' = consumed
    BY DEF BufTypeOK, Slide
<1>2. CASE newStart <= start
    BY <1>2 DEF Slide, BufTypeOK, Aligned, BlockBound, DropBound, HolderRuns, pcm
<1>3. CASE ~(newStart <= start)
    <2>1. PICK k \in SamplesFor(newStart - start) :
             /\ TrimFront(Least(k, pcmLen))
             /\ pcmLen' = pcmLen - Least(k, pcmLen)
        BY <1>3 DEF Slide
    <2> DEFINE trim == Least(k, pcmLen)
    <2>2. k \in Nat
        BY <1>1, <1>3, SamplesForBounds
    <2>3. trim \in Nat /\ trim <= pcmLen
        BY <1>1, <2>2, LeastBounds
    <2>4. Aligned' /\ {pcmFirst, pcmLen, start, consumed}' \subseteq Nat
        <3> HIDE DEF trim
        <3>1. /\ trim <= pcmLen + 0
              /\ pcmLen' = pcmLen + 0 - trim
              /\ consumed' = consumed + DurFor(0)
            BY <1>1, <2>1, <2>3, DurForZero DEF trim
        <3> QED
            BY <3>1, <2>1, <2>3, AlignedTrim DEF trim
    <2>5. start' \in Nat /\ start <= start'
        BY <1>1, <2>1, <2>3, <2>4, DurForType DEF TrimFront
    <2>6. BufTypeOK'
        BY <2>4, <1>3 DEF BufTypeOK, Slide, Broadcast
    <2>7. BlockBound' /\ DropBound'
        <3>1. BlockCap \in Nat /\ DropCap \in Nat
            BY ConfigFacts DEF DropCap, BlockCap
        <3>2. \A n \in ChunkSizes : DurFor(n) \in Nat
            BY ChunkAssumption, DurForType
        <3>3. consumed' - start' <= consumed - start
            BY <1>1, <2>5
        <3> QED
            BY <3>1, <3>2, <3>3, <1>1, <2>5, SampleTicksAssumption
               DEF BlockBound, DropBound
    <2>8. HolderRuns'
        BY <1>3 DEF Slide, Broadcast, HolderRuns
    <2> QED
        BY <2>4, <2>6, <2>7, <2>8
<1> QED
    BY <1>2, <1>3

\* The operations that move no audio.
LEMMA QuietSteps ==
    ASSUME BufInv,
           \/ WriteWait \/ WriteRefused \/ CloseSend \/ NextWindowCanceled
           \/ WakeWaiters \/ Cancel
           \/ \E g \in Goroutines : Park(g)
           \/ \E t \in Nat : NextWindowWait(t) \/ TakeWindow(t)
           \/ UNCHANGED bufVars
    PROVE  BufInv'
<1> USE DEF BufInv
<1>1. UNCHANGED <<pcm, start, consumed>>
    BY DEF WriteWait, WriteRefused, CloseSend, NextWindowCanceled, WakeWaiters,
           Cancel, Park, NextWindowWait, TakeWindow, HoldToPark, bufVars
<1>2. Aligned' /\ BlockBound' /\ DropBound'
    BY <1>1 DEF Aligned, BlockBound, DropBound, pcm
<1>3. BufTypeOK' /\ HolderRuns'
    <2> USE <1>1 DEF BufTypeOK, HolderRuns, pcm, Goroutines
    <2>1. CASE WriteWait BY <2>1 DEF WriteWait, HoldToPark, CanLock
    <2>2. CASE WriteRefused BY <2>2 DEF WriteRefused, bufVars
    <2>3. CASE CloseSend BY <2>3 DEF CloseSend, Broadcast
    <2>4. CASE NextWindowCanceled BY <2>4 DEF NextWindowCanceled, bufVars
    <2>5. CASE WakeWaiters BY <2>5 DEF WakeWaiters, Broadcast
    <2>6. CASE Cancel BY <2>6 DEF Cancel
    <2>7. CASE \E g \in Goroutines : Park(g) BY <2>7 DEF Park
    <2>8. CASE \E t \in Nat : NextWindowWait(t) \/ TakeWindow(t)
        BY <2>8 DEF NextWindowWait, TakeWindow, HoldToPark, CanLock
    <2>9. CASE UNCHANGED bufVars BY <2>9 DEF bufVars
    <2> QED
        BY <2>1, <2>2, <2>3, <2>4, <2>5, <2>6, <2>7, <2>8, <2>9
<1> QED
    BY <1>2, <1>3

LEMMA BufInitInv == BufInit => BufInv
<1> SUFFICES ASSUME BufInit PROVE BufInv
    OBVIOUS
<1>1. BufTypeOK /\ HolderRuns
    <2>1. {pcmFirst, pcmLen, start, consumed} \subseteq Nat
        BY DEF BufInit
    <2>2. {dropped, closed, ctxDone} \subseteq BOOLEAN
        BY Zenon DEF BufInit
    <2> QED
        BY <2>1, <2>2 DEF BufInit, BufTypeOK, HolderRuns, Goroutines
<1>2. Aligned
    <2>1. pcmFirst + pcmLen = 0
        BY DEF BufInit
    <2> QED
        BY <2>1, DurForZero DEF BufInit, Aligned
<1>3. BlockBound
    <2>1. PICK n \in ChunkSizes : DurFor(n) > 0 /\ DurFor(n) \in Nat
        BY ChunkAssumption, DurForPositive, DurForType
    <2>2. BlockCap \in Nat
        BY ConfigFacts DEF BlockCap
    <2> QED
        BY <2>1, <2>2 DEF BlockBound, BufInit
<1>4. DropBound
    BY ConfigFacts, SampleTicksAssumption DEF DropBound, DropCap, BufInit
<1> QED
    BY <1>1, <1>2, <1>3, <1>4 DEF BufInv

\* Every use of the buffer keeps its invariant.
LEMMA BufStep == BufInv /\ [BufNext]_bufVars => BufInv'
<1> SUFFICES ASSUME BufInv, [BufNext]_bufVars PROVE BufInv'
    OBVIOUS
<1>1. consumed \in Nat
    BY DEF BufInv, BufTypeOK
<1>2. CASE \E n \in ChunkSizes : WriteAppend(n)
    BY <1>2, AppendStep
<1>3. CASE \E t \in 0..consumed : Slide(t)
    BY <1>1, <1>3, SlideStep
<1>4. CASE \/ WriteWait \/ WriteRefused \/ CloseSend \/ NextWindowCanceled
           \/ WakeWaiters \/ Cancel
           \/ \E g \in Goroutines : Park(g)
           \/ \E t \in 0..consumed : NextWindowWait(t) \/ TakeWindow(t)
           \/ UNCHANGED bufVars
    BY <1>1, <1>4, QuietSteps
<1> QED
    BY <1>2, <1>3, <1>4 DEF BufNext

\* BufInv is inductive: the buffer keeps it whatever the stream does with it, as
\* long as it uses only the buffer's operations (stream_buffer.go).
THEOREM BufferCorrect == BufSpec => []BufInv
BY BufInitInv, BufStep, PTL DEF BufSpec

=============================================================================
