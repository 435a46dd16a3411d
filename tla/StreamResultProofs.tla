------------------------- MODULE StreamResultProofs -------------------------
(***************************************************************************)
(* What the consumer sees, proved for every configuration and transcript:   *)
(* finals once and in order, a clean end of stream only after the flush, a  *)
(* prompt made of what was committed, times that stay in the audio; and     *)
(* that all this takes bounded memory.                                      *)
(***************************************************************************)
EXTENDS StreamProofs

-----------------------------------------------------------------------------
(* The end of the stream. *)

ExitPCs == {"closeResults", "cancel", "wgDone", "done"}

\* What CleanEOF rests on: the flush window was taken after CloseSend, when no
\* more audio comes in, and run returns without an error only once the results
\* of that window are sent, unless a callback's panic cut it short.
EndInv ==
    /\ resClosed => wpc \in ExitPCs
    /\ cutShort => wpc \in ExitPCs /\ err = "none"
    /\ wpc \in ExitPCs /\ err = "none" /\ ~cutShort =>
          closed /\ since = consumed /\ pending = <<>>
    /\ wpc \in {"infer", "classify", "send"} /\ win.closed =>
          closed /\ since = consumed
    /\ wpc \in {"next", "infer"} => pending = <<>>

\* After CloseSend the consumed mark stands still and the stream stays closed.
LEMMA ClosedIsFinal ==
    ASSUME [BufNext]_bufVars, closed
    PROVE  closed' /\ consumed' = consumed
BY DEF BufNext, WriteWait, WriteRefused, WriteAppend, Park, HoldToPark, CloseSend,
   NextWindowWait, TakeWindow, Slide, NextWindowCanceled, WakeWaiters, Cancel,
   bufVars, pcm

LEMMA EndStep ==
    ASSUME Core, EndInv, [Next]_vars
    PROVE  EndInv'
<1> USE DEF EndInv, ExitPCs
<1>1. closed => closed' /\ consumed' = consumed
    BY StepIsBufferStep, ClosedIsFinal
<1>2. CASE NextWindow
    <2>1. win'.closed = closed /\ consumed' = consumed /\ closed' = closed
        BY <1>2 DEF NextWindow, TakeWindow, TrailingWindows
    <2> QED
        BY <1>1, <1>2, <2>1 DEF NextWindow, chanVars
<1>3. CASE NextWindowFails
    BY <1>1, <1>3 DEF NextWindowFails, NextWindowCanceled, Exit, CtxErr, chanVars
<1>4. CASE TranscribeOK
    BY <1>1, <1>4 DEF TranscribeOK, chanVars
<1>5. CASE TranscribeFails
    <2>1. cutShort' <=> err' = "none"
        BY <1>5 DEF TranscribeFails, Exit, CtxErr, MayReturn, IsErrCanceled, Panics,
           Outcomes
    <2>2. wpc' = "closeResults" /\ UNCHANGED <<since, pending, resClosed, win>>
        BY <1>5 DEF TranscribeFails, Exit, chanVars
    <2> QED
        BY <1>1, <1>5, <2>1, <2>2
<1>6. CASE ClassifySegment
    BY <1>1, <1>6 DEF ClassifySegment, chanVars
<1>7. CASE SlideCommitted
    BY <1>1, <1>7 DEF SlideCommitted, chanVars
<1>8. CASE SendResult
    BY <1>1, <1>8 DEF SendResult
<1>9. CASE SendCanceled
    BY <1>1, <1>9 DEF SendCanceled, Exit, CtxErr, chanVars
<1>10. CASE SendsDone
    BY <1>1, <1>10 DEF SendsDone, chanVars
<1>11. CASE CloseResults \/ WorkerCancel \/ WgDone
    BY <1>1, <1>11 DEF CloseResults, WorkerCancel, WgDone, chanVars
<1>12. CASE UNCHANGED <<wpc, since, win, pending, err, resClosed, cutShort>>
    BY <1>1, <1>12
<1> QED
    BY <1>2, <1>3, <1>4, <1>5, <1>6, <1>7, <1>8, <1>9, <1>10, <1>11, <1>12
       DEF Next, Worker, WriteCall, Producer, CloseSendCall, CloseSendBuffer,
       CloseCall, CloseFree, Recv, ParentCancel, Wakeup, NextWindowBlocks,
       Terminated, vars, workVars, chanVars

LEMMA EndInvariant == Spec => [](Core /\ EndInv)
<1>1. Init => EndInv
    BY DEF Init, EndInv, ExitPCs, NoWindow
<1>2. Core /\ EndInv /\ [Next]_vars => (Core /\ EndInv)'
    BY CoreStep, EndStep
<1> QED
    BY <1>1, <1>2, CoreInit, PTL DEF Spec

\* Results closes without an error only after CloseSend, when a window has reached to
\* the end of what Write accepted and every result has been sent, or else because a
\* callback panicked with an ErrCanceled on a live ctx (stream.go run).
THEOREM EndsClean == Spec => []CleanEOF
<1>1. EndInv => CleanEOF
    BY DEF EndInv, CleanEOF
<1> QED
    BY <1>1, EndInvariant, PTL

-----------------------------------------------------------------------------
(* The order of results. *)

\* A queue in which no entry ends before or at a final ahead of it, entries end
\* after d, and finals end by c.
Ordered(q, d, c) ==
    /\ \A i, j \in 1..Len(q) : i < j /\ q[i].final => q[i].end < q[j].end
    /\ \A i \in 1..Len(q) : q[i].end > d /\ (q[i].final => q[i].end <= c)

LEMMA OrderedAppend ==
    ASSUME NEW q \in Seq(Result), NEW d \in Nat, NEW c \in Nat, NEW c1 \in Nat,
           NEW r \in Result,
           Ordered(q, d, c), d <= c, c < r.end, c <= c1, r.final => r.end <= c1
    PROVE  Ordered(Append(q, r), d, c1)
<1> DEFINE q1 == Append(q, r)
<1>1. /\ Len(q1) = Len(q) + 1 /\ Len(q) \in Nat
      /\ q1[Len(q) + 1] = r
      /\ \A i \in 1..Len(q) : q1[i] = q[i]
    OBVIOUS
<1>2. \A i \in 1..Len(q) : q[i] \in Result
    OBVIOUS
<1>3. r.end \in Nat /\ \A i \in 1..Len(q) : q[i].end \in Nat
    BY <1>2 DEF Result
<1> HIDE DEF q1
<1>4. \A i \in 1..Len(q1) : i \in 1..Len(q) \/ i = Len(q) + 1
    BY <1>1
<1>5. \A i \in 1..Len(q1) : q1[i].end > d /\ (q1[i].final => q1[i].end <= c1)
    BY <1>1, <1>3, <1>4 DEF Ordered
<1>6. ASSUME NEW i \in 1..Len(q1), NEW j \in 1..Len(q1), i < j, q1[i].final
      PROVE  q1[i].end < q1[j].end
    <2>1. i \in 1..Len(q)
        BY <1>1, <1>6
    <2>2. CASE j \in 1..Len(q)
        BY <1>1, <1>6, <2>1, <2>2 DEF Ordered
    <2>3. CASE j = Len(q) + 1
        BY <1>1, <1>3, <1>6, <2>1, <2>3 DEF Ordered
    <2> QED
        BY <1>4, <2>2, <2>3
<1> QED
    BY <1>5, <1>6 DEF Ordered, q1

LEMMA OrderedTail ==
    ASSUME NEW q \in Seq(Result), NEW d \in Nat, NEW c \in Nat,
           q # <<>>, Ordered(q, d, c), d <= c
    PROVE  LET d1 == IF Head(q).final THEN Head(q).end ELSE d
           IN  d1 \in Nat /\ d1 <= c /\ Ordered(Tail(q), d1, c)
<1> DEFINE d1 == IF Head(q).final THEN Head(q).end ELSE d
           t == Tail(q)
<1>1. /\ Len(q) \in Nat \ {0} /\ Len(t) = Len(q) - 1
      /\ Head(q) = q[1]
      /\ \A i \in 1..Len(t) : t[i] = q[i + 1] /\ i + 1 \in 1..Len(q)
    <2>1. Len(q) \in Nat \ {0} /\ Len(t) = Len(q) - 1 /\ Head(q) = q[1]
        OBVIOUS
    <2>2. \A i \in 1..(Len(q) - 1) : t[i] = q[i + 1]
        OBVIOUS
    <2>3. \A i \in 1..(Len(q) - 1) : i + 1 \in 1..Len(q)
        BY <2>1
    <2>4. Len(t) = Len(q) - 1
        BY <2>1
    <2> HIDE DEF t
    <2>5. \A i \in 1..Len(t) : t[i] = q[i + 1] /\ i + 1 \in 1..Len(q)
        BY <2>2, <2>3, <2>4
    <2> QED
        BY <2>1, <2>5
<1>2. \A i \in 1..Len(q) : q[i].end \in Nat
    <2>1. \A i \in 1..Len(q) : q[i] \in Result
        OBVIOUS
    <2> QED
        BY <2>1 DEF Result
<1> HIDE DEF t
<1>3. d1 \in Nat /\ d1 <= c
    BY <1>1, <1>2 DEF Ordered
<1>4. \A i \in 1..Len(t) : t[i].end > d1 /\ (t[i].final => t[i].end <= c)
    <2> SUFFICES ASSUME NEW i \in 1..Len(t)
                 PROVE  t[i].end > d1 /\ (t[i].final => t[i].end <= c)
        OBVIOUS
    <2>1. t[i] = q[i + 1] /\ i + 1 \in 1..Len(q) /\ 1 \in 1..Len(q) /\ 1 < i + 1
        BY <1>1
    <2>2. q[1].final => q[1].end < q[i + 1].end
        BY <2>1 DEF Ordered
    <2>3. q[i + 1].end > d /\ (q[i + 1].final => q[i + 1].end <= c)
        BY <2>1 DEF Ordered
    <2>4. q[1].end \in Nat /\ q[i + 1].end \in Nat
        BY <1>2, <2>1
    <2> QED
        BY <1>1, <2>1, <2>2, <2>3, <2>4
<1>5. \A i, j \in 1..Len(t) : i < j /\ t[i].final => t[i].end < t[j].end
    <2> SUFFICES ASSUME NEW i \in 1..Len(t), NEW j \in 1..Len(t), i < j, t[i].final
                 PROVE  t[i].end < t[j].end
        OBVIOUS
    <2>1. i + 1 \in 1..Len(q) /\ j + 1 \in 1..Len(q) /\ i + 1 < j + 1
        BY <1>1
    <2> QED
        BY <1>1, <2>1 DEF Ordered
<1> QED
    BY <1>3, <1>4, <1>5 DEF Ordered, t

\* The invariant: what has been delivered was committed.
OrderInv == ResultsFollowFinals /\ delivered <= committed

LEMMA OrderStep ==
    ASSUME Core, OrderInv, [Next]_vars
    PROVE  OrderInv'
<1>1. /\ results \in Seq(Result) /\ pending \in Seq(Result) /\ Queue \in Seq(Result)
      /\ delivered \in Nat /\ committed \in Nat
    BY DEF Core, TypeOK, Queue
<1>2. Ordered(Queue, delivered, committed) /\ delivered <= committed
    BY DEF OrderInv, ResultsFollowFinals, Ordered
<1>3. SUFFICES Ordered(Queue', delivered', committed') /\ delivered' <= committed'
    BY DEF OrderInv, ResultsFollowFinals, Ordered
<1>4. CASE Recv
    <2>1. results # <<>> /\ Queue # <<>> /\ Head(Queue) = Head(results)
        BY <1>1, <1>4 DEF Recv, Queue
    <2>2. Queue' = Tail(Queue) /\ UNCHANGED committed
        BY <1>1, <1>4 DEF Recv, Queue, workVars
    <2> QED
        BY <1>1, <1>2, <1>4, <2>1, <2>2, OrderedTail DEF Recv
<1>5. CASE SendResult
    <2>1. /\ pending # <<>> /\ results' = Append(results, Head(pending))
          /\ pending' = Tail(pending) /\ UNCHANGED <<delivered, committed>>
        BY <1>5 DEF SendResult
    <2>2. Queue' = Queue
        BY <1>1, <2>1 DEF Queue
    <2> QED
        BY <1>2, <2>1, <2>2
<1>6. CASE ClassifySegment
    <2> DEFINE absEnd == AbsEnd(win, Head(segs))
               v == Verdict(absEnd, committed, CommitBefore(win))
               r == [end |-> absEnd, final |-> v = "final",
                     lagging |-> win.dropped]
    <2>1. UNCHANGED <<results, delivered>> /\ committed' \in Nat
        BY <1>6, ClassifyStep DEF ClassifySegment, chanVars, Core
    <2>2. CASE v = "skip"
        BY <1>1, <1>2, <1>6, <2>1, <2>2 DEF ClassifySegment, Queue
    <2>3. CASE v # "skip"
        <3>1. pending' = Append(pending, r)
            BY <1>6, <2>3 DEF ClassifySegment
        <3>2. Queue' = Append(Queue, r)
            BY <1>1, <2>1, <3>1 DEF Queue
        <3>3. absEnd \in Nat
            <4>1. Head(segs) \in Nat /\ win.start \in Nat
                BY <1>6 DEF ClassifySegment, Core, TypeOK, Windows
            <4> QED
                BY <4>1 DEF AbsEnd
        <3>4. committed < absEnd
            BY <1>1, <2>3, <3>3 DEF Verdict
        <3>5. /\ committed' = IF v = "final" THEN absEnd ELSE committed
              /\ committed <= committed'
            BY <1>6, ClassifyStep DEF ClassifySegment, Core
        <3>6. r \in Result
            <4>1. (v = "final") \in BOOLEAN /\ win.dropped \in BOOLEAN
                BY Zenon DEF Core, TypeOK, Windows
            <4> HIDE DEF absEnd, v
            <4> QED
                BY <3>3, <4>1 DEF Result
        <3>7. r.end = absEnd /\ (r.final <=> v = "final")
            OBVIOUS
        <3> HIDE DEF absEnd, v, r
        <3>8. r.final => r.end <= committed'
            BY <3>3, <3>5, <3>7
        <3> QED
            BY <1>1, <1>2, <2>1, <3>2, <3>3, <3>4, <3>5, <3>6, <3>7, <3>8,
               OrderedAppend
    <2> QED
        BY <2>2, <2>3
<1>7. CASE UNCHANGED <<results, pending, delivered, committed>>
    BY <1>2, <1>7 DEF Queue
<1> QED
    BY <1>4, <1>5, <1>6, <1>7 DEF Next, Worker, WriteCall, Producer, CloseSendCall,
       CloseSendBuffer, CloseCall, CloseFree, ParentCancel, Wakeup,
       NextWindowBlocks, NextWindowFails, NextWindow, TranscribeOK,
       TranscribeFails, SlideCommitted, SendCanceled, SendsDone, CloseResults,
       WorkerCancel, WgDone, Terminated, vars, workVars, chanVars

\* No final is repeated, none comes out of order, and nothing follows a final
\* that ends where it already reached, whatever overlap whisper decodes again
\* (stream_window.go classifyWindow, stream.go run).
THEOREM FinalsOnceInOrder == Spec => []ResultsFollowFinals
<1>1. Init => OrderInv
    BY DEF Init, OrderInv, ResultsFollowFinals, Queue
<1>2. Core /\ OrderInv /\ [Next]_vars => OrderInv'
    BY OrderStep
<1>3. OrderInv => ResultsFollowFinals
    BY DEF OrderInv
<1> QED
    BY <1>1, <1>2, <1>3, CoreInvariant, PTL DEF Spec

-----------------------------------------------------------------------------
(* The carried-over prompt. *)

Increasing(p) == \A i \in 1..(Len(p) - 1) : p[i] < p[i + 1]

LEMMA AppendPromptKeepsTail ==
    ASSUME NEW p \in Seq(Nat), NEW t \in Nat,
           Increasing(p), p # <<>> => p[Len(p)] < t
    PROVE  LET p1 == AppendPrompt(p, t)
           IN  p1 # <<>> /\ p1[Len(p1)] = t /\ Increasing(p1)
<1> DEFINE q == Append(p, t)
<1>1. /\ q \in Seq(Nat) /\ Len(q) = Len(p) + 1 /\ Len(p) \in Nat
      /\ q[Len(p) + 1] = t /\ \A i \in 1..Len(p) : q[i] = p[i]
    OBVIOUS
<1>2. PromptCap \in Nat \ {0}
    BY StreamAssumption
<1>3. Increasing(q)
    <2> SUFFICES ASSUME NEW i \in 1..(Len(q) - 1) PROVE q[i] < q[i + 1]
        BY DEF Increasing
    <2> HIDE DEF q
    <2>1. i \in 1..Len(p)
        BY <1>1
    <2>2. CASE i = Len(p)
        <3>1. p # <<>>
            BY <2>1
        <3> QED
            BY <1>1, <2>1, <2>2, <3>1
    <2>3. CASE i # Len(p)
        <3>1. i \in 1..(Len(p) - 1) /\ i + 1 \in 1..Len(p)
            BY <1>1, <2>1, <2>3
        <3> QED
            BY <1>1, <3>1 DEF Increasing
    <2> QED
        BY <2>2, <2>3
<1>4. CASE Len(q) > PromptCap
    <2> DEFINE off == Len(q) - PromptCap
               p1 == SubSeq(q, off + 1, Len(q))
    <2>1. off \in Nat /\ Len(q) = off + PromptCap
        BY <1>1, <1>2, <1>4
    <2>2. AppendPrompt(p, t) = p1
        BY <1>4 DEF AppendPrompt
    <2> HIDE DEF q, off
    <2>3. Len(p1) = PromptCap /\ \A i \in 1..PromptCap : p1[i] = q[off + i]
        BY <1>1, <1>2, <2>1
    <2> HIDE DEF p1
    <2>4. p1 # <<>>
        BY <1>2, <2>3
    <2>5. p1[Len(p1)] = t
        <3>1. p1[PromptCap] = q[off + PromptCap]
            BY <1>2, <2>3
        <3> QED
            BY <1>1, <2>1, <2>3, <3>1 DEF q
    <2>6. ASSUME NEW i \in 1..(Len(p1) - 1) PROVE p1[i] < p1[i + 1]
        <3>1. i \in 1..PromptCap /\ i + 1 \in 1..PromptCap
            BY <1>2, <2>3
        <3>2. off + i \in 1..(Len(q) - 1)
            BY <1>2, <2>1, <2>3
        <3>3. q[off + i] < q[(off + i) + 1]
            BY <1>3, <3>2 DEF Increasing
        <3>4. (off + i) + 1 = off + (i + 1)
            BY <2>1
        <3> QED
            BY <2>3, <3>1, <3>3, <3>4
    <2> QED
        BY <2>2, <2>4, <2>5, <2>6 DEF Increasing
<1>5. CASE ~(Len(q) > PromptCap)
    <2>1. AppendPrompt(p, t) = q
        BY <1>5 DEF AppendPrompt
    <2> HIDE DEF q
    <2>2. q # <<>> /\ q[Len(q)] = t
        BY <1>1
    <2> QED
        BY <1>3, <2>1, <2>2
<1> QED
    BY <1>4, <1>5

\* The prompt whisper is given ends with the text committed last and holds
\* committed text only, in order (stream.go appendPrompt).
THEOREM PromptCarriesCommitted == Spec => []PromptIsCommitted
<1>1. Init => PromptIsCommitted
    BY DEF Init, PromptIsCommitted
<1>2. Core /\ PromptIsCommitted /\ [Next]_vars => PromptIsCommitted'
    <2> SUFFICES ASSUME Core, PromptIsCommitted, [Next]_vars
                 PROVE  PromptIsCommitted'
        OBVIOUS
    <2>1. CASE UNCHANGED <<prompt, committed>>
        BY <2>1 DEF PromptIsCommitted
    <2>2. CASE ClassifySegment
        <3> DEFINE absEnd == AbsEnd(win, Head(segs))
                   v == Verdict(absEnd, committed, CommitBefore(win))
        <3>1. CASE v # "final"
            BY <2>1, <2>2, <3>1 DEF ClassifySegment
        <3>2. CASE v = "final"
            <4>1. prompt' = AppendPrompt(prompt, absEnd) /\ committed' = absEnd
                BY <2>2, <3>2 DEF ClassifySegment
            <4>2. prompt \in Seq(Nat) /\ committed \in Nat /\ absEnd \in Nat
                <5>1. Head(segs) \in Nat /\ win.start \in Nat
                    BY <2>2 DEF ClassifySegment, Core, TypeOK, Windows
                <5> QED
                    BY <5>1 DEF AbsEnd, Core, TypeOK
            <4>3. committed < absEnd
                BY <3>2, <4>2 DEF Verdict
            <4> HIDE DEF absEnd
            <4>4. /\ prompt' # <<>> /\ prompt'[Len(prompt')] = absEnd
                  /\ Increasing(prompt')
                <5>1. Increasing(prompt)
                    BY DEF PromptIsCommitted, Increasing
                <5>2. prompt # <<>> => prompt[Len(prompt)] < absEnd
                    BY <4>3 DEF PromptIsCommitted
                <5> QED
                    BY <4>1, <4>2, <5>1, <5>2, AppendPromptKeepsTail
            <4> QED
                BY <4>1, <4>2, <4>3, <4>4 DEF PromptIsCommitted, Increasing
        <3> QED
            BY <3>1, <3>2
    <2> QED
        BY <2>1, <2>2 DEF Next, Worker, WriteCall, Producer, CloseSendCall,
           CloseSendBuffer, CloseCall, CloseFree, Recv, ParentCancel, Wakeup,
           NextWindowBlocks, NextWindowFails, NextWindow, TranscribeOK,
           TranscribeFails, SlideCommitted, SendResult, SendCanceled, SendsDone,
           CloseResults, WorkerCancel, WgDone, Terminated, vars, workVars
<1> QED
    BY <1>1, <1>2, CoreInvariant, PTL DEF Spec

-----------------------------------------------------------------------------
(* The times of the results. *)

\* The furthest time that a result of a window ending at t may carry.
Horizon(t) == t + SampleTicks + Overrun

EndsBy(q, t) == \A i \in DOMAIN q : q[i].end <= t

\* No result, final or partial, carries a time further past the audio that has
\* been in a window than whisper itself overran its input, and one sample for the
\* start of the window: what whisper reports relative to a trimmed, rounded window
\* comes out on the clock of the stream (stream.go run, stream_window.go absEnd).
TimesInAudio == EndsBy(results, Horizon(since)) /\ EndsBy(pending, Horizon(since))

TimeInv ==
    /\ TimesInAudio
    /\ wpc = "classify" =>
          \A i \in DOMAIN segs : AbsEnd(win, segs[i]) <= Horizon(since)

LEMMA EndsByAppend ==
    ASSUME NEW q \in Seq(Result), NEW r \in Result, NEW t \in Nat,
           EndsBy(q, t), r.end <= t
    PROVE  EndsBy(Append(q, r), t)
<1>1. /\ DOMAIN Append(q, r) = 1..(Len(q) + 1) /\ Len(q) \in Nat
      /\ DOMAIN q = 1..Len(q)
      /\ \A i \in 1..Len(q) : Append(q, r)[i] = q[i]
      /\ Append(q, r)[Len(q) + 1] = r
    OBVIOUS
<1>2. \A i \in 1..(Len(q) + 1) : i \in 1..Len(q) \/ i = Len(q) + 1
    BY <1>1
<1> QED
    BY <1>1, <1>2 DEF EndsBy

LEMMA EndsByTail ==
    ASSUME NEW q \in Seq(Result), q # <<>>, NEW t \in Nat, EndsBy(q, t)
    PROVE  EndsBy(Tail(q), t) /\ Head(q).end <= t /\ Head(q) \in Result
<1>1. /\ Len(q) \in Nat \ {0} /\ DOMAIN q = 1..Len(q) /\ Head(q) = q[1]
      /\ DOMAIN Tail(q) = 1..(Len(q) - 1)
      /\ \A i \in 1..(Len(q) - 1) : Tail(q)[i] = q[i + 1]
    OBVIOUS
<1>2. 1 \in 1..Len(q) /\ \A i \in 1..(Len(q) - 1) : i + 1 \in 1..Len(q)
    BY <1>1
<1> QED
    BY <1>1, <1>2 DEF EndsBy

LEMMA EndsByLater ==
    ASSUME NEW q \in Seq(Result), NEW t \in Nat, NEW u \in Nat, t <= u, EndsBy(q, t)
    PROVE  EndsBy(q, u)
<1>1. \A i \in DOMAIN q : q[i] \in Result
    OBVIOUS
<1>2. \A i \in DOMAIN q : q[i].end \in Nat
    BY <1>1 DEF Result
<1> QED
    BY <1>2 DEF EndsBy

\* Whisper's timestamps are whole steps of its grid, up to the end of what it heard.
LEMMA GridBound ==
    ASSUME NEW a \in Nat, NEW b \in Nat \ {0}, NEW k \in 1..(a \div b)
    PROVE  k * b \in Nat /\ k * b <= a
<1>1. a \div b \in Nat /\ (a \div b) * b <= a /\ k \in Nat /\ k <= a \div b
    OBVIOUS
<1>2. \A x, y, z \in Nat : x <= y => x * z <= y * z /\ x * z \in Nat /\ y * z \in Nat
    OBVIOUS
<1> QED
    BY <1>1, <1>2

\* A transcript's times, put on the clock of the stream.
LEMMA TranscriptInAudio ==
    ASSUME Core, WindowHonest, TranscribeOK
    PROVE  \A i \in DOMAIN segs' : AbsEnd(win, segs'[i]) <= Horizon(since)
<1>1. /\ win \in Windows /\ win.consumed = since
      /\ segs' \in Transcripts(win)
    BY DEF Core, TypeOK, Marks, TranscribeOK
<1>2. /\ win.start \in Nat /\ win.first \in Nat /\ win.len \in Nat /\ since \in Nat
      /\ Overrun \in Nat /\ SegTicks \in Nat \ {0} /\ SampleTicks \in Nat \ {0}
    BY <1>1, StreamAssumption, SampleTicksAssumption DEF Windows, Core, TypeOK
<1>3. win.start + DurFor(win.len) <= since + SampleTicks
    <2>1. CASE win = NoWindow
        BY <1>2, <2>1, DurForZero DEF NoWindow
    <2>2. CASE win # NoWindow
        <3>1. /\ win.start <= DurFor(win.first + 1)
              /\ DurFor(win.first + win.len) = since
            BY <1>1, <2>2 DEF WindowHonest, WorkingOnWindow
        <3>2. /\ DurFor(win.first + 1) = DurFor(win.first) + DurFor(1)
              /\ DurFor(win.first + win.len) = DurFor(win.first) + DurFor(win.len)
            BY <1>2, DurForAdd
        <3>3. /\ DurFor(win.first) \in Nat /\ DurFor(win.len) \in Nat
              /\ DurFor(1) = SampleTicks
            BY <1>2, DurForType DEF DurFor
        <3> QED
            BY <1>2, <3>1, <3>2, <3>3
    <2> QED
        BY <2>1, <2>2
<1>4. DurFor(win.len) \in Nat
    BY <1>2, DurForType
<1>5. PICK n \in 0..MaxSegs : segs' \in [1..n -> Ends(win)]
    BY <1>1 DEF Transcripts
<1> SUFFICES ASSUME NEW i \in DOMAIN segs'
             PROVE  AbsEnd(win, segs'[i]) <= Horizon(since)
    OBVIOUS
<1>6. segs'[i] \in Ends(win)
    BY <1>5
<1>7. PICK k \in 1..((DurFor(win.len) + Overrun) \div SegTicks) : segs'[i] = k * SegTicks
    BY <1>6 DEF Ends
<1>8. k * SegTicks \in Nat /\ k * SegTicks <= DurFor(win.len) + Overrun
    <2>1. DurFor(win.len) + Overrun \in Nat
        BY <1>2, <1>4
    <2> QED
        BY <1>2, <1>7, <2>1, GridBound
<1> QED
    <2> DEFINE e == k * SegTicks   d == DurFor(win.len)
    <2>1. e \in Nat /\ d \in Nat /\ e <= d + Overrun /\ segs'[i] = e
          /\ win.start + d <= since + SampleTicks
        BY <1>3, <1>4, <1>7, <1>8
    <2> HIDE DEF e, d
    <2>2. AbsEnd(win, segs'[i]) = win.start + e
        BY <2>1 DEF AbsEnd
    <2> QED
        BY <1>2, <2>1, <2>2 DEF Horizon

LEMMA TimeStep ==
    ASSUME Core, Core', WindowHonest, TimeInv, [Next]_vars
    PROVE  TimeInv'
<1>1. /\ results \in Seq(Result) /\ pending \in Seq(Result) /\ segs \in Seq(Nat)
      /\ since \in Nat /\ since' \in Nat /\ win \in Windows
      /\ Horizon(since) \in Nat /\ Horizon(since') \in Nat
    <2>1. TypeOK'
        BY DEF Core
    <2>2. since' \in Nat
        BY <2>1 DEF TypeOK
    <2>3. \A t \in Nat : Horizon(t) \in Nat
        BY StreamAssumption, SampleTicksAssumption DEF Horizon
    <2> QED
        BY <2>2, <2>3 DEF Core, TypeOK
<1>2. EndsBy(results, Horizon(since)) /\ EndsBy(pending, Horizon(since))
    BY DEF TimeInv, TimesInAudio
<1>3. CASE Recv
    <2>1. /\ EndsBy(Tail(results), Horizon(since)) /\ results' = Tail(results)
          /\ UNCHANGED <<wpc, since, win, segs, pending>>
        BY <1>1, <1>2, <1>3, EndsByTail DEF Recv, workVars
    <2> QED
        BY <1>2, <2>1 DEF TimeInv, TimesInAudio
<1>4. CASE SendResult
    <2>1. /\ EndsBy(Tail(pending), Horizon(since)) /\ Head(pending).end <= Horizon(since)
          /\ Head(pending) \in Result
        BY <1>1, <1>2, <1>4, EndsByTail DEF SendResult
    <2>2. EndsBy(Append(results, Head(pending)), Horizon(since))
        BY <1>1, <1>2, <2>1, EndsByAppend
    <2>3. /\ results' = Append(results, Head(pending)) /\ pending' = Tail(pending)
          /\ UNCHANGED <<wpc, since, win, segs>> /\ wpc = "send"
        BY <1>4 DEF SendResult
    <2> QED
        BY <2>1, <2>2, <2>3 DEF TimeInv, TimesInAudio
<1>5. CASE ClassifySegment
    <2> DEFINE absEnd == AbsEnd(win, Head(segs))
               v == Verdict(absEnd, committed, CommitBefore(win))
               r == [end |-> absEnd, final |-> v = "final", lagging |-> win.dropped]
    <2>1. /\ segs # <<>> /\ segs' = Tail(segs) /\ wpc = "classify"
          /\ UNCHANGED <<wpc, since, win, results>>
          /\ pending' = pending \/ pending' = Append(pending, r)
        BY <1>5 DEF ClassifySegment, chanVars
    <2>2. /\ Head(segs) = segs[1] /\ 1 \in DOMAIN segs
          /\ \A i \in DOMAIN Tail(segs) : i + 1 \in DOMAIN segs /\ Tail(segs)[i] = segs[i + 1]
        <3>1. /\ Len(segs) \in Nat \ {0} /\ DOMAIN segs = 1..Len(segs)
              /\ Head(segs) = segs[1]
              /\ DOMAIN Tail(segs) = 1..(Len(segs) - 1)
              /\ \A i \in 1..(Len(segs) - 1) : Tail(segs)[i] = segs[i + 1]
            BY <1>1, <2>1
        <3>2. 1 \in 1..Len(segs) /\ \A i \in 1..(Len(segs) - 1) : i + 1 \in 1..Len(segs)
            BY <3>1
        <3> QED
            BY <3>1, <3>2
    <2>3. absEnd <= Horizon(since) /\ absEnd \in Nat
        <3>1. Head(segs) \in Nat /\ win.start \in Nat
            BY <1>1, <2>1 DEF Windows
        <3>2. AbsEnd(win, segs[1]) <= Horizon(since)
            BY <2>1, <2>2 DEF TimeInv
        <3> QED
            BY <2>2, <3>1, <3>2 DEF AbsEnd
    <2>4. r \in Result /\ r.end <= Horizon(since)
        <3>1. (v = "final") \in BOOLEAN /\ win.dropped \in BOOLEAN
            BY <1>1, Zenon DEF Windows
        <3> HIDE DEF absEnd, v
        <3> QED
            BY <2>3, <3>1 DEF Result
    <2> HIDE DEF absEnd, v, r
    <2>5. EndsBy(pending', Horizon(since))
        BY <1>1, <1>2, <2>1, <2>4, EndsByAppend
    <2>6. \A i \in DOMAIN segs' : AbsEnd(win, segs'[i]) <= Horizon(since)
        BY <2>1, <2>2 DEF TimeInv
    <2> QED
        BY <1>2, <2>1, <2>5, <2>6 DEF TimeInv, TimesInAudio
<1>6. CASE TranscribeOK
    <2>1. UNCHANGED <<since, win, results, pending>>
        BY <1>6 DEF TranscribeOK, chanVars
    <2> QED
        BY <1>2, <1>6, <2>1, TranscriptInAudio DEF TimeInv, TimesInAudio
<1>7. CASE NextWindow
    <2>1. since <= since' /\ UNCHANGED <<results, pending>> /\ wpc' # "classify"
        BY <1>7 DEF NextWindow, chanVars, Core, Marks
    <2>2. Horizon(since) <= Horizon(since')
        BY <1>1, <2>1, StreamAssumption, SampleTicksAssumption DEF Horizon
    <2>3. EndsBy(results, Horizon(since')) /\ EndsBy(pending, Horizon(since'))
        BY <1>1, <1>2, <2>2, EndsByLater
    <2> QED
        BY <2>1, <2>3 DEF TimeInv, TimesInAudio
<1>8. CASE UNCHANGED <<since, results, pending>>
           /\ (wpc' = "classify" => UNCHANGED <<wpc, segs, win>>)
    BY <1>2, <1>8 DEF TimeInv, TimesInAudio
<1> QED
    BY <1>3, <1>4, <1>5, <1>6, <1>7, <1>8 DEF Next, Worker, WriteCall, Producer,
       CloseSendCall, CloseSendBuffer, CloseCall, CloseFree, ParentCancel, Wakeup,
       NextWindowBlocks, NextWindowFails, Exit, TranscribeFails, SlideCommitted,
       SendCanceled, SendsDone, CloseResults, WorkerCancel, WgDone, Terminated,
       vars, workVars, chanVars

\* However long the stream, however often the buffer was trimmed or audio was
\* dropped under the worker, no timestamp runs away from the audio (stream.go run).
THEOREM TimesStayInAudio == Spec => []TimesInAudio
<1>1. Init => TimeInv
    BY DEF Init, TimeInv, TimesInAudio, EndsBy
<1>2. Core /\ Core' /\ WindowHonest /\ TimeInv /\ [Next]_vars => TimeInv'
    BY TimeStep
<1>3. TimeInv => TimesInAudio
    BY DEF TimeInv
<1> QED
    BY <1>1, <1>2, <1>3, CoreInvariant, WindowsAreHonest, PTL DEF Spec

-----------------------------------------------------------------------------
(* What a stream holds. *)

LEMMA TranscriptLength ==
    ASSUME NEW w \in Windows, NEW ends \in Transcripts(w)
    PROVE  Len(ends) <= MaxSegs
<1>1. PICK k \in 0..MaxSegs : ends \in [1..k -> Ends(w)]
    BY DEF Transcripts
<1>2. ends \in Seq(Nat) /\ MaxSegs \in Nat
    BY TranscriptType, StreamAssumption
<1>3. DOMAIN ends = 1..Len(ends) /\ DOMAIN ends = 1..k
    BY <1>1, <1>2
<1> QED
    BY <1>1, <1>2, <1>3

\* The channel, what is on its way to it, and the prompt have their bounds.
Lengths ==
    /\ Len(results) <= ChanCap
    /\ Len(segs) + Len(pending) <= MaxSegs
    /\ Len(prompt) <= PromptCap

\* However long it runs, and whoever has stopped writing or receiving, a stream
\* holds no more than a buffer one chunk over its cap, or one sample in drop mode, a
\* full channel, the results of one transcript and a prompt of maxRunes
\* (stream_buffer.go write, stream.go newStream and appendPrompt).
MemoryBounded ==
    /\ \/ BlockCap > 0 /\ \E n \in ChunkSizes : DurFor(pcmLen) < BlockCap + DurFor(n)
       \/ DropCap > 0 /\ DurFor(pcmLen) <= DropCap + SampleTicks
    /\ Lengths

LEMMA PromptLength ==
    ASSUME NEW p \in Seq(Nat), NEW t \in Nat, Len(p) <= PromptCap
    PROVE  Len(AppendPrompt(p, t)) <= PromptCap
<1> DEFINE q == Append(p, t)
<1>1. q \in Seq(Nat) /\ Len(q) \in Nat /\ PromptCap \in Nat \ {0}
    BY StreamAssumption
<1>2. CASE Len(q) > PromptCap
    <2> HIDE DEF q
    <2>1. Len(SubSeq(q, Len(q) - PromptCap + 1, Len(q))) = PromptCap
        BY <1>1, <1>2
    <2> QED
        BY <1>1, <1>2, <2>1 DEF AppendPrompt, q
<1> QED
    BY <1>1, <1>2 DEF AppendPrompt

LEMMA LengthsStep ==
    ASSUME Core, EndInv, Lengths, [Next]_vars
    PROVE  Lengths'
<1>1. /\ results \in Seq(Result) /\ pending \in Seq(Result) /\ segs \in Seq(Nat)
      /\ prompt \in Seq(Nat) /\ win \in Windows
      /\ ChanCap \in Nat /\ MaxSegs \in Nat /\ PromptCap \in Nat
    BY StreamAssumption DEF Core, TypeOK
<1>2. Len(results) \in Nat /\ Len(pending) \in Nat /\ Len(segs) \in Nat /\ Len(prompt) \in Nat
    BY <1>1
<1> USE DEF Lengths
<1>3. CASE Recv
    <2>1. results # <<>> /\ results' = Tail(results) /\ UNCHANGED <<segs, pending, prompt>>
        BY <1>3 DEF Recv, workVars
    <2>2. Len(results') = Len(results) - 1
        BY <1>1, <2>1
    <2> QED
        BY <1>1, <1>2, <2>1, <2>2
<1>4. CASE SendResult
    <2>1. /\ pending # <<>> /\ Len(results) < ChanCap
          /\ results' = Append(results, Head(pending)) /\ pending' = Tail(pending)
          /\ UNCHANGED <<segs, prompt>>
        BY <1>4 DEF SendResult
    <2>2. Len(results') = Len(results) + 1 /\ Len(pending') = Len(pending) - 1
        <3>1. Head(pending) \in Result
            BY <1>1, <2>1
        <3> QED
            BY <1>1, <2>1, <3>1
    <2> QED
        BY <1>1, <1>2, <2>1, <2>2
<1>5. CASE TranscribeOK
    <2>1. pending = <<>> /\ Len(segs') <= MaxSegs /\ UNCHANGED <<results, pending, prompt>>
        BY <1>1, <1>5, TranscriptLength DEF TranscribeOK, EndInv, chanVars
    <2>2. Len(segs') \in Nat /\ Len(pending) = 0
        <3>1. segs' \in Seq(Nat)
            BY <1>1, <1>5, TranscriptType DEF TranscribeOK
        <3> QED
            BY <2>1, <3>1
    <2> QED
        BY <1>2, <2>1, <2>2
<1>6. CASE ClassifySegment
    <2> DEFINE absEnd == AbsEnd(win, Head(segs))
               v == Verdict(absEnd, committed, CommitBefore(win))
               r == [end |-> absEnd, final |-> v = "final", lagging |-> win.dropped]
    <2>1. /\ segs # <<>> /\ segs' = Tail(segs) /\ results' = results
          /\ pending' = pending \/ pending' = Append(pending, r)
          /\ prompt' = prompt \/ prompt' = AppendPrompt(prompt, absEnd)
        BY <1>6 DEF ClassifySegment, chanVars
    <2>2. absEnd \in Nat
        <3>1. Head(segs) \in Nat /\ win.start \in Nat
            BY <1>1, <2>1 DEF Windows
        <3> QED
            BY <3>1 DEF AbsEnd
    <2> HIDE DEF absEnd, v, r
    <2>3. Len(prompt') <= PromptCap
        BY <1>1, <2>1, <2>2, PromptLength
    <2>4. Len(segs') = Len(segs) - 1
        BY <1>1, <2>1
    <2>5. Len(Append(pending, r)) = Len(pending) + 1
        BY <1>1
    <2> QED
        BY <1>1, <1>2, <2>1, <2>3, <2>4, <2>5
<1>7. CASE UNCHANGED <<results, segs, pending, prompt>>
    BY <1>7
<1> QED
    BY <1>3, <1>4, <1>5, <1>6, <1>7 DEF Next, Worker, WriteCall, Producer,
       CloseSendCall, CloseSendBuffer, CloseCall, CloseFree, ParentCancel, Wakeup,
       NextWindowBlocks, NextWindowFails, NextWindow, TranscribeFails, SlideCommitted,
       SendCanceled, SendsDone, CloseResults, WorkerCancel, WgDone, Terminated,
       vars, workVars, chanVars

\* A stream that runs for ever runs in bounded memory, in either mode.
THEOREM StreamMemoryBounded == Spec => []MemoryBounded
<1>1. Init => Lengths
    BY StreamAssumption DEF Init, Lengths
<1>2. Core /\ EndInv /\ Lengths /\ [Next]_vars => Lengths'
    BY LengthsStep
<1>3. Core /\ Lengths => MemoryBounded
    <2> SUFFICES ASSUME Core, Lengths PROVE MemoryBounded
        OBVIOUS
    <2>1. consumed - start = DurFor(pcmLen)
        BY StartConsumed DEF Core, BufInv
    <2>2. BlockCap > 0 \/ DropCap > 0
        BY ConfigFacts DEF BlockCap, DropCap
    <2>3. BlockBound /\ DropBound
        BY DEF Core, BufInv
    <2>4. \/ BlockCap > 0 /\ \E n \in ChunkSizes : DurFor(pcmLen) < BlockCap + DurFor(n)
          \/ DropCap > 0 /\ DurFor(pcmLen) <= DropCap + SampleTicks
        BY <2>1, <2>2, <2>3 DEF BlockBound, DropBound
    <2> QED
        BY <2>4 DEF MemoryBounded
<1> QED
    BY <1>1, <1>2, <1>3, EndInvariant, PTL DEF Spec

=============================================================================
