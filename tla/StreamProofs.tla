---------------------------- MODULE StreamProofs ----------------------------
(***************************************************************************)
(* Safety of the Stream, proved for every configuration, every transcript   *)
(* whisper may return and every number of samples.                          *)
(***************************************************************************)
EXTENDS StreamProperties, StreamBufferProofs

\* The worker's marks: nothing is committed past the end of the last window,
\* and that end has been consumed.  A Write under way has samples.
Marks ==
    /\ ppc = "write" => chunk \in ChunkSizes
    /\ committed <= since /\ since <= consumed
    /\ wpc \in {"infer", "classify"} => win.consumed = since

Core == TypeOK /\ BufInv /\ Marks

-----------------------------------------------------------------------------
(* The data the worker computes has its type. *)

LEMMA WindowType ==
    ASSUME BufTypeOK, NEW w \in TrailingWindows
    PROVE  w \in Windows /\ w.consumed = consumed
<1>1. {pcmFirst, pcmLen, start, consumed} \subseteq Nat /\ Window \in Nat
    BY ConfigFacts DEF BufTypeOK
<1> DEFINE long == consumed - start > Window
           ws == IF long THEN consumed - Window ELSE start
<1>2. ws \in Nat /\ (long => ws - start \in Nat)
    BY <1>1
<1>3. PICK off \in IF long THEN {Least(k, pcmLen) : k \in SamplesFor(ws - start)}
                   ELSE {0} :
         w = [start |-> ws, first |-> pcmFirst + off, len |-> pcmLen - off,
              consumed |-> consumed, dropped |-> dropped, closed |-> closed]
    BY DEF TrailingWindows
<1>4. off \in Nat /\ off <= pcmLen
    <2>1. CASE long
        <3> HIDE DEF ws
        <3>1. PICK k \in SamplesFor(ws - start) : off = Least(k, pcmLen)
            BY <1>3, <2>1
        <3>2. k \in Nat
            BY <1>2, <2>1, SamplesForBounds
        <3> QED
            BY <1>1, <3>1, <3>2, LeastBounds
    <2>2. CASE ~long
        BY <1>1, <1>3, <2>2
    <2> QED
        BY <2>1, <2>2
<1>5. dropped \in BOOLEAN /\ closed \in BOOLEAN
    BY Zenon DEF BufTypeOK
<1>6. pcmFirst + off \in Nat /\ pcmLen - off \in Nat
    BY <1>1, <1>4
<1> QED
    <2> HIDE DEF ws
    <2> QED
        BY <1>1, <1>2, <1>3, <1>5, <1>6 DEF Windows

LEMMA TranscriptType ==
    ASSUME NEW w \in Windows, NEW ends \in Transcripts(w)
    PROVE  ends \in Seq(Nat)
<1>1. Ends(w) \subseteq Nat
    BY StreamAssumption DEF Ends
<1>2. PICK k \in 0..MaxSegs : ends \in [1..k -> Ends(w)]
    BY DEF Transcripts
<1>3. k \in Nat
    BY StreamAssumption
<1> QED
    BY <1>1, <1>2, <1>3

LEMMA PromptType ==
    ASSUME NEW p \in Seq(Nat), NEW t \in Nat
    PROVE  AppendPrompt(p, t) \in Seq(Nat)
<1> DEFINE q == Append(p, t)
<1>1. q \in Seq(Nat) /\ Len(q) \in Nat
    OBVIOUS
<1>2. PromptCap \in Nat \ {0}
    BY StreamAssumption
<1>3. CASE Len(q) > PromptCap
    <2> HIDE DEF q
    <2>1. SubSeq(q, Len(q) - PromptCap + 1, Len(q)) \in Seq(Nat)
        BY <1>1, <1>2, <1>3
    <2> QED
        BY <1>3, <2>1 DEF AppendPrompt, q
<1> QED
    BY <1>1, <1>3 DEF AppendPrompt

LEMMA CommitBeforeType ==
    ASSUME NEW w \in Windows
    PROVE  CommitBefore(w) \in Int /\ CommitBefore(w) <= w.consumed
BY ConfigFacts DEF CommitBefore, Windows

-----------------------------------------------------------------------------
(* Every step of the stream is a step of its buffer, or leaves it alone. *)

LEMMA StepIsBufferStep ==
    ASSUME Core, [Next]_vars
    PROVE  [BufNext]_bufVars
<1>1. /\ since \in 0..consumed
      /\ committed > Keep => committed - Keep \in 0..consumed
    BY ConfigFacts DEF Core, Marks, TypeOK, BufTypeOK
<1>2. CASE Producer
    BY <1>2 DEF Producer, BufNext, Goroutines, Core, Marks
<1>3. CASE CloseSendBuffer
    BY <1>3 DEF CloseSendBuffer, BufNext
<1>4. CASE CloseCall \/ ParentCancel \/ WorkerCancel
    BY <1>4 DEF CloseCall, ParentCancel, WorkerCancel, BufNext
<1>5. CASE Wakeup
    BY <1>5 DEF Wakeup, BufNext
<1>6. CASE NextWindowBlocks
    BY <1>1, <1>6 DEF NextWindowBlocks, BufNext, Goroutines
<1>7. CASE NextWindowFails
    BY <1>7 DEF NextWindowFails, BufNext
<1>8. CASE NextWindow
    BY <1>1, <1>8 DEF NextWindow, BufNext
<1>9. CASE SlideCommitted
    BY <1>1, <1>9 DEF SlideCommitted, BufNext
<1>10. CASE \/ \E n \in ChunkSizes : WriteCall(n)
            \/ CloseSendCall \/ CloseFree \/ Recv
            \/ TranscribeOK \/ TranscribeFails \/ ClassifySegment
            \/ SendResult \/ SendCanceled \/ SendsDone
            \/ CloseResults \/ WgDone \/ Terminated \/ UNCHANGED vars
    BY <1>10 DEF WriteCall, CloseSendCall, CloseFree, Recv, TranscribeOK,
       TranscribeFails, ClassifySegment, SendResult, SendCanceled, SendsDone,
       CloseResults, WgDone, Terminated, vars
<1> QED
    BY <1>2, <1>3, <1>4, <1>5, <1>6, <1>7, <1>8, <1>9, <1>10 DEF Next, Worker

-----------------------------------------------------------------------------
(* Types and marks are kept. *)

\* One turn of classifyWindow: what becomes of the types and of committed.
LEMMA ClassifyStep ==
    ASSUME TypeOK, ClassifySegment
    PROVE  /\ segs' \in Seq(Nat) /\ pending' \in Seq(Result)
           /\ prompt' \in Seq(Nat) /\ committed' \in Nat
           /\ committed <= committed'
           /\ committed' = committed \/ committed' <= CommitBefore(win)
<1> DEFINE absEnd == AbsEnd(win, Head(segs))
           v == Verdict(absEnd, committed, CommitBefore(win))
           r == [end |-> absEnd, final |-> v = "final", lagging |-> win.dropped]
<1>1. /\ segs \in Seq(Nat) /\ segs # <<>> /\ win \in Windows
      /\ pending \in Seq(Result) /\ prompt \in Seq(Nat) /\ committed \in Nat
    BY DEF TypeOK, ClassifySegment
<1>2. absEnd \in Nat
    <2>1. Head(segs) \in Nat
        BY <1>1
    <2> QED
        BY <1>1, <2>1 DEF AbsEnd, Windows
<1>3. segs' \in Seq(Nat)
    BY <1>1 DEF ClassifySegment
<1>4. r \in Result
    <2>1. (v = "final") \in BOOLEAN /\ win.dropped \in BOOLEAN
        BY <1>1, Zenon DEF Windows
    <2> HIDE DEF absEnd, v
    <2> QED
        BY <1>2, <2>1 DEF Result
<1>5. pending' = pending \/ pending' = Append(pending, r)
    BY DEF ClassifySegment
<1>6. pending' \in Seq(Result)
    <2> HIDE DEF r
    <2> QED
        BY <1>1, <1>4, <1>5
<1>7. /\ v = "final" => prompt' = AppendPrompt(prompt, absEnd) /\ committed' = absEnd
      /\ v # "final" => prompt' = prompt /\ committed' = committed
    BY DEF ClassifySegment
<1>8. v = "final" => ~(absEnd <= committed) /\ absEnd <= CommitBefore(win)
    BY DEF Verdict
<1>9. prompt' \in Seq(Nat)
    <2> HIDE DEF absEnd, v
    <2> QED
        BY <1>1, <1>2, <1>7, PromptType
<1> QED
    <2> HIDE DEF absEnd, v, r
    <2> QED
        BY <1>1, <1>2, <1>3, <1>6, <1>7, <1>8, <1>9

LEMMA TypeStep ==
    ASSUME Core, BufInv', [Next]_vars
    PROVE  TypeOK'
<1> USE DEF Core, TypeOK, bufVars, prodVars, sendVars, closeVars, workVars, chanVars
<1>0. BufTypeOK'
    BY DEF BufInv
<1>1. CASE \E n \in ChunkSizes : WriteCall(n)
    BY <1>0, <1>1 DEF WriteCall
<1>2. CASE Producer
    BY <1>0, <1>2 DEF Producer, WriteReturns
<1>3. CASE CloseSendCall \/ CloseSendBuffer
    BY <1>0, <1>3 DEF CloseSendCall, CloseSendBuffer
<1>4. CASE CloseCall
    BY <1>0, <1>4 DEF CloseCall
<1>5. CASE CloseFree
    BY <1>0, <1>5, StreamAssumption DEF CloseFree
<1>6. CASE Recv
    <2>1. Head(results) \in Result /\ Tail(results) \in Seq(Result)
        BY <1>6 DEF Recv
    <2> QED
        BY <1>0, <1>6, <2>1 DEF Recv, Result
<1>7. CASE ParentCancel \/ Wakeup
    BY <1>0, <1>7 DEF ParentCancel, Wakeup
<1>8. CASE NextWindowBlocks \/ NextWindowFails
    BY <1>0, <1>8 DEF NextWindowBlocks, NextWindowFails, Exit, CtxErr, WorkerPCs
<1>17. CASE TranscribeFails
    <2>1. cutShort' \in BOOLEAN
        BY <1>17, Zenon DEF TranscribeFails
    <2>2. err' \in {"none", "ctx", "fail"} /\ wpc' = "closeResults"
        BY <1>17 DEF TranscribeFails, Exit, CtxErr
    <2>3. UNCHANGED <<prodVars, sendVars, closeVars, wakeup, since, win, segs,
                      pending, committed, prompt, results, resClosed, delivered>>
        BY <1>17 DEF TranscribeFails
    <2> QED
        BY <1>0, <2>1, <2>2, <2>3 DEF WorkerPCs
<1>9. CASE NextWindow
    <2>1. win' \in Windows /\ consumed \in Nat
        BY <1>9, WindowType DEF NextWindow, BufTypeOK
    <2> QED
        BY <1>0, <1>9, <2>1 DEF NextWindow, WorkerPCs
<1>10. CASE TranscribeOK
    BY <1>0, <1>10, TranscriptType DEF TranscribeOK, WorkerPCs
<1>11. CASE ClassifySegment
    BY <1>0, <1>11, ClassifyStep DEF ClassifySegment
<1>12. CASE SlideCommitted
    BY <1>0, <1>12 DEF SlideCommitted, WorkerPCs
<1>13. CASE SendResult
    <2>1. Head(pending) \in Result /\ Tail(pending) \in Seq(Result)
        BY <1>13 DEF SendResult
    <2> QED
        BY <1>0, <1>13, <2>1 DEF SendResult
<1>14. CASE SendCanceled \/ CloseResults \/ WorkerCancel \/ WgDone
    BY <1>0, <1>14 DEF SendCanceled, CloseResults, WorkerCancel, WgDone, Exit, CtxErr,
       WorkerPCs
<1>15. CASE SendsDone
    <2>1. NoWindow \in Windows
        BY DEF NoWindow, Windows
    <2> QED
        BY <1>0, <1>15, <2>1 DEF SendsDone, WorkerPCs
<1>16. CASE Terminated \/ UNCHANGED vars
    BY <1>0, <1>16 DEF Terminated, vars
<1> QED
    BY <1>1, <1>2, <1>3, <1>4, <1>5, <1>6, <1>7, <1>8, <1>9, <1>10, <1>11,
       <1>12, <1>13, <1>14, <1>15, <1>16, <1>17 DEF Next, Worker

\* Nothing that was consumed is taken back.
LEMMA ConsumedGrows ==
    ASSUME BufTypeOK, [BufNext]_bufVars
    PROVE  consumed <= consumed'
<1>1. \A n \in ChunkSizes : DurFor(n) \in Nat
    BY ChunkAssumption, DurForType
<1>2. consumed \in Nat
    BY DEF BufTypeOK
<1>3. CASE \E n \in ChunkSizes : WriteAppend(n)
    BY <1>1, <1>2, <1>3 DEF WriteAppend
<1>4. CASE UNCHANGED consumed
    BY <1>2, <1>4
<1> QED
    BY <1>3, <1>4 DEF BufNext, WriteWait, WriteRefused, Park, HoldToPark,
       CloseSend, NextWindowWait, TakeWindow, Slide, NextWindowCanceled,
       WakeWaiters, Cancel, bufVars

\* Audio once dropped does not come back.
LEMMA StartGrows ==
    ASSUME BufInv, [BufNext]_bufVars
    PROVE  start' \in Nat /\ start <= start'
<1>1. {pcmFirst, pcmLen, start, consumed, DropMaxBuffer} \subseteq Nat
    BY ConfigFacts DEF BufInv, BufTypeOK
<1>2. CASE \E n \in ChunkSizes : WriteAppend(n)
    <2>1. PICK n \in ChunkSizes : WriteAppend(n)
        BY <1>2
    <2>2. n \in Nat /\ DurFor(n) \in Nat
        BY ChunkAssumption, DurForType
    <2> DEFINE d == consumed + DurFor(n) - start - DropCap
    <2>3. PICK k \in IF Overfull(n) THEN SamplesFor(d) ELSE {0} :
              TrimFront(Least(k, pcmLen + n))
        BY <2>1 DEF WriteAppend
    <2>4. k \in Nat
        <3>1. CASE Overfull(n)
            <4>1. d \in Nat
                BY <1>1, <2>2, <3>1 DEF Overfull, DropCap
            <4>2. k \in SamplesFor(d)
                BY <2>3, <3>1
            <4> HIDE DEF d
            <4> QED
                BY <4>1, <4>2, SamplesForBounds
        <3>2. CASE ~Overfull(n)
            BY <2>3, <3>2
        <3> QED
            BY <3>1, <3>2
    <2>5. Least(k, pcmLen + n) \in Nat
        <3>1. pcmLen + n \in Nat
            BY <1>1, <2>2
        <3> QED
            BY <2>4, <3>1, LeastBounds
    <2>6. DurFor(Least(k, pcmLen + n)) \in Nat
        BY <2>5, DurForType
    <2>7. start' = start + DurFor(Least(k, pcmLen + n))
        BY <2>3 DEF TrimFront
    <2> HIDE DEF d
    <2> QED
        BY <1>1, <2>6, <2>7
<1>3. CASE \E t \in 0..consumed : Slide(t)
    <2>1. PICK t \in 0..consumed : Slide(t)
        BY <1>3
    <2>2. CASE t <= start
        BY <1>1, <2>1, <2>2 DEF Slide
    <2>3. CASE ~(t <= start)
        <3>1. PICK k \in SamplesFor(t - start) : TrimFront(Least(k, pcmLen))
            BY <2>1, <2>3 DEF Slide
        <3>2. t - start \in Nat
            BY <1>1, <2>3
        <3>3. k \in Nat
            BY <3>1, <3>2, SamplesForBounds
        <3>4. Least(k, pcmLen) \in Nat
            BY <1>1, <3>3, LeastBounds
        <3> QED
            BY <1>1, <3>1, <3>4, DurForType DEF TrimFront
    <2> QED
        BY <2>2, <2>3
<1>4. CASE UNCHANGED start
    BY <1>1, <1>4
<1> QED
    BY <1>2, <1>3, <1>4 DEF BufNext, WriteWait, WriteRefused, Park, HoldToPark,
       CloseSend, NextWindowWait, TakeWindow, NextWindowCanceled, WakeWaiters,
       Cancel, bufVars, pcm

LEMMA MarksStep ==
    ASSUME Core, BufInv', [Next]_vars
    PROVE  Marks'
<1> USE DEF Core, Marks
<1>0. consumed <= consumed' /\ {consumed, since, committed} \subseteq Nat
    BY StepIsBufferStep, ConsumedGrows DEF TypeOK, BufTypeOK
<1>00. consumed' \in Nat
    BY DEF BufInv, BufTypeOK
<1>1. (ppc = "write" => chunk \in ChunkSizes)'
    <2>1. CASE \E n \in ChunkSizes : WriteCall(n)
        BY <2>1 DEF WriteCall
    <2>2. CASE Producer
        BY <2>2 DEF Producer, WriteReturns, prodVars
    <2>3. CASE UNCHANGED prodVars
        BY <2>3 DEF prodVars
    <2> QED
        BY <2>1, <2>2, <2>3 DEF Next, Worker, CloseSendCall, CloseSendBuffer,
           CloseCall, CloseFree, Recv, ParentCancel, Wakeup, NextWindowBlocks,
           NextWindowFails, NextWindow, TranscribeOK, TranscribeFails,
           ClassifySegment, SlideCommitted, SendResult, SendCanceled, SendsDone,
           CloseResults, WorkerCancel, WgDone, Terminated, vars
<1>2. CASE NextWindow
    <2>1. win'.consumed = consumed /\ consumed' = consumed
        BY <1>2, WindowType DEF NextWindow, TypeOK, TakeWindow
    <2> QED
        BY <1>0, <1>1, <1>2, <2>1 DEF NextWindow
<1>3. CASE ClassifySegment
    <2>1. /\ committed <= committed' /\ committed' \in Nat
          /\ committed' = committed \/ committed' <= CommitBefore(win)
        BY <1>3, ClassifyStep
    <2>2. CommitBefore(win) \in Int /\ CommitBefore(win) <= win.consumed
        BY CommitBeforeType DEF TypeOK
    <2>3. UNCHANGED <<wpc, win, since>> /\ wpc = "classify"
        BY <1>3 DEF ClassifySegment
    <2> QED
        BY <1>0, <1>00, <1>1, <2>1, <2>2, <2>3
<1>4. CASE TranscribeOK
    BY <1>0, <1>00, <1>1, <1>4 DEF TranscribeOK
<1>5. CASE UNCHANGED <<committed, since, wpc, win>>
    BY <1>0, <1>00, <1>1, <1>5
<1>6. CASE UNCHANGED <<committed, since>> /\ wpc' \notin {"infer", "classify"}
    BY <1>0, <1>00, <1>1, <1>6
<1> QED
    BY <1>2, <1>3, <1>4, <1>5, <1>6 DEF Next, Worker, WriteCall, Producer,
       CloseSendCall, CloseSendBuffer, CloseCall, CloseFree, Recv, ParentCancel,
       Wakeup, NextWindowBlocks, NextWindowFails, TranscribeFails, Exit,
       SlideCommitted, SendResult, SendCanceled, SendsDone, CloseResults,
       WorkerCancel, WgDone, Terminated, vars, workVars

LEMMA CoreInit == Init => Core
<1> SUFFICES ASSUME Init PROVE Core
    OBVIOUS
<1>1. BufInv
    BY BufInitInv DEF Init
<1>2. TypeOK
    <2>1. NoWindow \in Windows
        BY DEF NoWindow, Windows
    <2>2. sessionFreed \in BOOLEAN /\ resClosed \in BOOLEAN
        BY Zenon DEF Init
    <2>3. /\ segs \in Seq(Nat) /\ pending \in Seq(Result)
          /\ prompt \in Seq(Nat) /\ results \in Seq(Result)
        BY DEF Init
    <2>4. BufTypeOK
        BY <1>1 DEF BufInv
    <2> QED
        BY <2>1, <2>2, <2>3, <2>4 DEF Init, TypeOK, WorkerPCs
<1>3. Marks
    BY DEF Init, BufInit, Marks
<1> QED
    BY <1>1, <1>2, <1>3 DEF Core

LEMMA CoreStep == Core /\ [Next]_vars => Core'
<1> SUFFICES ASSUME Core, [Next]_vars PROVE Core'
    OBVIOUS
<1>1. BufInv'
    BY StepIsBufferStep, BufStep DEF Core
<1> QED
    BY <1>1, TypeStep, MarksStep DEF Core

THEOREM CoreInvariant == Spec => []Core
BY CoreInit, CoreStep, PTL DEF Spec

\* Every variable of the stream has its type (stream.go, stream_buffer.go).
THEOREM Typing == Spec => []TypeOK
<1>1. Core => TypeOK
    BY DEF Core
<1> QED
    BY <1>1, CoreInvariant, PTL

\* The stream uses its buffer legally: it implements the buffer's specification,
\* so the worker never slides past what was consumed (stream.go run).
THEOREM BufferUse == Spec => BufferUsedLegally
<1>1. Init => BufInit
    BY DEF Init
<1>2. Core /\ [Next]_vars => [BufNext]_bufVars
    BY StepIsBufferStep
<1> QED
    BY <1>1, <1>2, CoreInvariant, PTL DEF Spec, BufferUsedLegally, BufSpec

\* start and consumed are the times of the buffer's first and last sample
\* (stream_buffer.go write and slide).
THEOREM BufferAligned == Spec => []Aligned
<1>1. Core => Aligned
    BY DEF Core, BufInv
<1> QED
    BY <1>1, CoreInvariant, PTL

\* Drop mode keeps at most dropMaxBuffer of audio and one sample
\* (stream_buffer.go write).
THEOREM DropModeBounded == Spec => []DropBound
<1>1. Core => DropBound
    BY DEF Core, BufInv
<1> QED
    BY <1>1, CoreInvariant, PTL

-----------------------------------------------------------------------------
(* Close and the whisper state. *)

\* session.Close runs only after the worker's wg.Done, whichever way the worker
\* ended (stream.go Close).
THEOREM SessionOutlivesWorker == Spec => []NoFreeWhileInferring
<1>1. Init => NoFreeWhileInferring
    BY DEF Init, NoFreeWhileInferring
<1>2. NoFreeWhileInferring /\ [Next]_vars => NoFreeWhileInferring'
    BY DEF NoFreeWhileInferring, Next, Worker, WriteCall, Producer,
       CloseSendCall, CloseSendBuffer, CloseCall, CloseFree, Recv, ParentCancel,
       Wakeup, NextWindowBlocks, NextWindowFails, NextWindow, TranscribeOK,
       TranscribeFails, Exit, ClassifySegment, SlideCommitted, SendResult,
       SendCanceled, SendsDone, CloseResults, WorkerCancel, WgDone, Terminated,
       vars, closeVars, workVars
<1> QED
    BY <1>1, <1>2, PTL DEF Spec

-----------------------------------------------------------------------------
(* What the windows hold and what block mode loses. *)

LEMMA DurForMonotone ==
    ASSUME NEW m \in Nat, NEW n \in Nat, m <= n
    PROVE  DurFor(m) <= DurFor(n)
<1>1. n - m \in Nat /\ n = m + (n - m)
    OBVIOUS
<1>2. DurFor(m + (n - m)) = DurFor(m) + DurFor(n - m)
    BY <1>1, DurForAdd
<1> QED
    BY <1>1, <1>2, DurForType

\* A window as nextWindow returns it, whatever samplesFor came out at.
LEMMA WindowIsTail ==
    ASSUME BufInv, NEW w \in TrailingWindows
    PROVE  /\ DurFor(w.first) <= w.start /\ w.start <= DurFor(w.first + 1)
           /\ DurFor(w.first + w.len) = w.consumed
           /\ w.start = start \/ w.start = consumed - Window
<1> USE DEF BufInv
<1>1. {pcmFirst, pcmLen, start, consumed} \subseteq Nat /\ Window \in Nat
    BY ConfigFacts DEF BufTypeOK
<1>2. /\ start <= consumed /\ consumed - start = DurFor(pcmLen)
      /\ DurFor(pcmLen) \in Nat
    BY <1>1, StartConsumed, DurForType
<1> DEFINE long == consumed - start > Window
           ws == IF long THEN consumed - Window ELSE start
<1>3. PICK off \in IF long THEN {Least(k, pcmLen) : k \in SamplesFor(ws - start)}
                   ELSE {0} :
         w = [start |-> ws, first |-> pcmFirst + off, len |-> pcmLen - off,
              consumed |-> consumed, dropped |-> dropped, closed |-> closed]
    BY DEF TrailingWindows
<1>4. /\ off \in Nat /\ off <= pcmLen
      /\ DurFor(off) <= ws - start /\ ws - start <= DurFor(off) + SampleTicks
    <2>1. CASE long
        <3>1. PICK k \in SamplesFor(ws - start) : off = Least(k, pcmLen)
            BY <1>3, <2>1
        <3>2. ws - start \in Nat /\ ws - start <= DurFor(pcmLen)
            BY <1>1, <1>2, <2>1
        <3>3. /\ k \in Nat /\ DurFor(k) <= ws - start
              /\ ws - start <= DurFor(k) + SampleTicks
            <4> HIDE DEF ws
            <4> QED BY <3>2, SamplesForBounds
        <3>4. off \in Nat /\ off <= pcmLen /\ off <= k /\ off \in {k, pcmLen}
            BY <1>1, <3>1, <3>3, LeastBounds
        <3>5. DurFor(off) <= DurFor(k) /\ DurFor(k) \in Nat /\ DurFor(off) \in Nat
            BY <3>3, <3>4, DurForMonotone, DurForType
        <3> QED
            <4> HIDE DEF ws
            <4> QED BY <3>2, <3>3, <3>4, <3>5, <1>2, SampleTicksAssumption
    <2>2. CASE ~long
        BY <1>1, <1>3, <2>2, DurForZero, SampleTicksAssumption
    <2> QED
        BY <2>1, <2>2
<1>5. /\ DurFor(pcmFirst + off) = start + DurFor(off)
      /\ DurFor(pcmFirst + off + 1) = start + DurFor(off) + SampleTicks
    <2>1. DurFor(pcmFirst + off) = DurFor(pcmFirst) + DurFor(off)
        BY <1>1, <1>4, DurForAdd
    <2>2. pcmFirst + off \in Nat
        BY <1>1, <1>4
    <2>3. DurFor((pcmFirst + off) + 1) = DurFor(pcmFirst + off) + DurFor(1)
        BY <2>2, DurForAdd
    <2>4. DurFor(1) = SampleTicks
        BY SampleTicksAssumption DEF DurFor
    <2> QED
        BY <2>1, <2>3, <2>4 DEF Aligned
<1>6. DurFor(off) \in Nat
    BY <1>4, DurForType
<1>7. (pcmFirst + off) + (pcmLen - off) = pcmFirst + pcmLen
    BY <1>1, <1>4
<1>8. /\ w.first = pcmFirst + off /\ w.len = pcmLen - off
      /\ w.start = ws /\ w.consumed = consumed
    BY <1>3
<1>9. ws \in Nat
    BY <1>1
<1>10. DurFor(w.first + w.len) = w.consumed
    BY <1>7, <1>8 DEF Aligned
<1>11. DurFor(w.first) <= ws /\ ws <= DurFor(w.first + 1)
    <2> HIDE DEF ws
    <2> QED BY <1>1, <1>4, <1>5, <1>6, <1>8, <1>9, SampleTicksAssumption
<1> QED
    BY <1>8, <1>10, <1>11

\* Every window is the tail of the stream it is said to be (stream_buffer.go
\* nextWindow): no timestamp is off by more than a sample.
THEOREM WindowsAreHonest == Spec => []WindowHonest
<1>1. Init => WindowHonest
    BY DEF Init, WindowHonest, WorkingOnWindow
<1>2. Core /\ WindowHonest /\ [Next]_vars => WindowHonest'
    <2> SUFFICES ASSUME Core, WindowHonest, [Next]_vars PROVE WindowHonest'
        OBVIOUS
    <2>1. CASE NextWindow
        BY <2>1, WindowIsTail DEF NextWindow, Core, WindowHonest
    <2>2. CASE win' = win \/ win' = NoWindow
        BY <2>2 DEF WindowHonest, WorkingOnWindow
    <2> QED
        BY <2>1, <2>2 DEF Next, Worker, WriteCall, Producer, CloseSendCall,
           CloseSendBuffer, CloseCall, CloseFree, Recv, ParentCancel, Wakeup,
           NextWindowBlocks, NextWindowFails, TranscribeOK, TranscribeFails,
           ClassifySegment, SlideCommitted, SendResult, SendCanceled, SendsDone,
           CloseResults, WorkerCancel, WgDone, Terminated, vars, workVars
<1> QED
    BY <1>1, <1>2, CoreInvariant, PTL DEF Spec

\* The steps that may move start, committed or win.
LEMMA QuietForAudio ==
    ASSUME [Next]_vars
    PROVE  \/ ppc = "write" /\ WriteAppend(chunk) /\ UNCHANGED <<committed, win>>
           \/ NextWindow
           \/ ClassifySegment
           \/ SlideCommitted
           \/ UNCHANGED <<start, committed>> /\ win' \in {win, NoWindow}
BY DEF Next, Worker, WriteCall, Producer, CloseSendCall, CloseSendBuffer,
   CloseCall, CloseFree, Recv, ParentCancel, Wakeup, NextWindowBlocks,
   NextWindowFails, TranscribeOK, TranscribeFails, SendResult, SendCanceled,
   SendsDone, CloseResults, WorkerCancel, WgDone, Terminated, vars, workVars,
   bufVars, WriteWait, WriteRefused, Park, HoldToPark, CloseSend,
   NextWindowWait, NextWindowCanceled, WakeWaiters, Cancel

\* In block mode an append trims nothing.
LEMMA BlockAppendKeepsStart ==
    ASSUME BufTypeOK, BlockCap > 0, NEW n \in ChunkSizes, WriteAppend(n)
    PROVE  start' = start
<1>1. DropCap = 0 /\ ~Overfull(n)
    BY ConfigFacts DEF BlockCap, DropCap, Overfull
<1>2. n \in Nat /\ pcmLen \in Nat /\ start \in Nat
    BY ChunkAssumption DEF BufTypeOK
<1>3. Least(0, pcmLen + n) = 0
    BY <1>2 DEF Least
<1> QED
    BY <1>1, <1>2, <1>3, DurForZero DEF WriteAppend, TrimFront

\* slide stops at newStart.
LEMMA SlideBound ==
    ASSUME BufInv, NEW t \in Nat, Slide(t)
    PROVE  start' \in Nat /\ (start' = start \/ start' <= t)
<1>1. pcmLen \in Nat /\ start \in Nat
    BY DEF BufInv, BufTypeOK
<1>2. CASE t <= start
    BY <1>1, <1>2 DEF Slide
<1>3. CASE ~(t <= start)
    <2>1. PICK k \in SamplesFor(t - start) : TrimFront(Least(k, pcmLen))
        BY <1>3 DEF Slide
    <2>2. k \in Nat /\ DurFor(k) <= t - start
        BY <1>1, <1>3, SamplesForBounds
    <2>3. Least(k, pcmLen) \in Nat /\ Least(k, pcmLen) <= k
        BY <1>1, <2>2, LeastBounds
    <2>4. /\ DurFor(Least(k, pcmLen)) <= DurFor(k)
          /\ DurFor(Least(k, pcmLen)) \in Nat /\ DurFor(k) \in Nat
        BY <2>2, <2>3, DurForMonotone, DurForType
    <2> QED
        BY <1>1, <2>1, <2>2, <2>4 DEF TrimFront
<1> QED
    BY <1>2, <1>3

LEMMA OnlyCommittedDiscardedStep ==
    ASSUME Core, OnlyCommittedDiscarded, [Next]_vars
    PROVE  OnlyCommittedDiscarded'
<1>1. SUFFICES ASSUME BlockCap > 0, start = 0 \/ start + Keep <= committed
               PROVE  start' = 0 \/ start' + Keep <= committed'
    BY DEF OnlyCommittedDiscarded
<1>2. {start, committed, Keep} \subseteq Nat
    BY ConfigFacts DEF Core, TypeOK, BufTypeOK
<1>3. CASE ppc = "write" /\ WriteAppend(chunk) /\ UNCHANGED <<committed, win>>
    <2>1. start' = start
        BY <1>1, <1>3, BlockAppendKeepsStart DEF Core, Marks, BufInv
    <2> QED
        BY <1>1, <1>3, <2>1
<1>4. CASE NextWindow
    BY <1>1, <1>4 DEF NextWindow, TakeWindow
<1>5. CASE ClassifySegment
    <2>1. committed' \in Nat /\ committed <= committed' /\ start' = start
        BY <1>5, ClassifyStep DEF Core, ClassifySegment, bufVars
    <2> QED
        BY <1>1, <1>2, <2>1
<1>6. CASE SlideCommitted
    <2>1. committed' = committed
        BY <1>6 DEF SlideCommitted
    <2>2. CASE committed > Keep
        <3>1. start' = start \/ (start' \in Nat /\ start' <= committed - Keep)
            BY <1>2, <1>6, <2>2, SlideBound DEF SlideCommitted, Core
        <3> QED
            BY <1>1, <1>2, <2>1, <3>1
    <2>3. CASE ~(committed > Keep)
        BY <1>1, <1>6, <2>1, <2>3 DEF SlideCommitted, bufVars
    <2> QED
        BY <2>2, <2>3
<1>7. CASE UNCHANGED <<start, committed>>
    BY <1>1, <1>7
<1> QED
    BY <1>3, <1>4, <1>5, <1>6, <1>7, QuietForAudio

\* Block mode slides only over committed audio, and leaves keep of it
\* (stream.go run).
THEOREM DiscardsCommitted == Spec => []OnlyCommittedDiscarded
<1>1. Init => OnlyCommittedDiscarded
    BY DEF Init, BufInit, OnlyCommittedDiscarded
<1>2. Core /\ OnlyCommittedDiscarded /\ [Next]_vars => OnlyCommittedDiscarded'
    BY OnlyCommittedDiscardedStep
<1> QED
    BY <1>1, <1>2, CoreInvariant, PTL DEF Spec

\* In block mode a window loses less than a chunk: the buffer was below the cap
\* before the last append, and it began at most keep before a committed end.
THEOREM BlockModeLossBounded == Spec => []BlockLossBounded
<1>1. Init => BlockLossBounded
    BY DEF Init, BlockLossBounded, WorkingOnWindow
<1>2. Core /\ OnlyCommittedDiscarded /\ BlockLossBounded /\ [Next]_vars
        => BlockLossBounded'
    <2> SUFFICES ASSUME Core, OnlyCommittedDiscarded, BlockLossBounded, [Next]_vars
                 PROVE  BlockLossBounded'
        OBVIOUS
    <2>1. /\ {start, consumed, committed, Keep, Window} \subseteq Nat
          /\ \A n \in ChunkSizes : DurFor(n) \in Nat /\ DurFor(n) > 0
        BY ConfigFacts, ChunkAssumption, DurForType, DurForPositive
           DEF Core, TypeOK, BufTypeOK
    <2>2. CASE NextWindow
        <3>1. SUFFICES ASSUME BlockCap > 0
                       PROVE  \E n \in ChunkSizes :
                                 win'.start < Greatest(0, committed - Keep) + DurFor(n)
            BY <2>2 DEF BlockLossBounded, NextWindow
        <3>2. PICK n \in ChunkSizes : consumed - start < Window + DurFor(n)
            BY <3>1, ConfigFacts DEF Core, BufInv, BlockBound, BlockCap
        <3>3. win'.start = start \/ win'.start = consumed - Window
            BY <2>2, WindowIsTail DEF NextWindow, Core
        <3>4. start <= Greatest(0, committed - Keep)
            BY <2>1, <3>1 DEF OnlyCommittedDiscarded, Greatest
        <3>5. Greatest(0, committed - Keep) \in Nat
            BY <2>1 DEF Greatest
        <3>6. win'.start < Greatest(0, committed - Keep) + DurFor(n)
            BY <2>1, <3>2, <3>3, <3>4, <3>5
        <3> QED
            BY <3>6
    <2>3. CASE ClassifySegment
        <3>1. committed' \in Nat /\ committed <= committed' /\ win' = win
            BY <2>3, ClassifyStep DEF Core, ClassifySegment
        <3>2. Greatest(0, committed - Keep) <= Greatest(0, committed' - Keep)
            BY <2>1, <3>1 DEF Greatest
        <3>3. Greatest(0, committed - Keep) \in Nat
              /\ Greatest(0, committed' - Keep) \in Nat
            BY <2>1, <3>1 DEF Greatest
        <3>4. win.start \in Nat
            BY DEF Core, TypeOK, Windows
        <3> QED
            BY <2>1, <3>1, <3>2, <3>3, <3>4 DEF BlockLossBounded, WorkingOnWindow
    <2>4. CASE UNCHANGED committed /\ win' \in {win, NoWindow}
        BY <2>4 DEF BlockLossBounded, WorkingOnWindow
    <2>5. CASE SlideCommitted
        BY <2>4, <2>5 DEF SlideCommitted
    <2> QED
        BY <2>2, <2>3, <2>4, <2>5, QuietForAudio
<1> QED
    BY <1>1, <1>2, CoreInvariant, DiscardsCommitted, PTL DEF Spec

=============================================================================
