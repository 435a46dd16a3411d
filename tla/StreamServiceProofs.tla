------------------------- MODULE StreamServiceProofs -------------------------
(***************************************************************************)
(* A Stream implements StreamService, for every configuration and every     *)
(* transcript: its initial state is one of the service, and each of its     *)
(* steps is a step of the service or leaves what the user sees alone.  What *)
(* the service guarantees is therefore true of a Stream.  At the end, what  *)
(* no step of a Stream takes back.                                          *)
(***************************************************************************)
EXTENDS StreamResultProofs

\* What the refinement rests on besides order and end of stream: once err is
\* set the worker is on its way out, and audio is dropped in drop mode only.
ServiceInv ==
    /\ err # "none" => wpc \in ExitPCs
    /\ dropped \/ win.dropped => DropCap > 0

LEMMA ServiceInvStep ==
    ASSUME Core, ServiceInv, [Next]_vars
    PROVE  ServiceInv'
<1> USE DEF ServiceInv, ExitPCs
<1>1. CASE Producer
    <2>1. wpc' = wpc /\ err' = err /\ win' = win
        BY <1>1 DEF Producer, workVars
    <2>2. dropped' => dropped \/ DropCap > 0
        BY <1>1 DEF Producer, WriteWait, HoldToPark, Park, WriteAppend,
           WriteRefused, Overfull, bufVars
    <2> QED
        BY <2>1, <2>2
<1>2. CASE NextWindow
    <2>1. win'.dropped = dropped /\ dropped' = FALSE /\ err' = err
        BY <1>2 DEF NextWindow, TakeWindow, TrailingWindows
    <2>2. err = "none"
        BY <1>2 DEF NextWindow
    <2> QED
        BY <2>1, <2>2
<1>3. CASE SendsDone
    BY <1>3 DEF SendsDone, NoWindow, bufVars
<1>4. CASE UNCHANGED <<dropped, win>> /\ (UNCHANGED <<wpc, err>> \/ wpc' \in ExitPCs)
    BY <1>4
<1>5. CASE UNCHANGED <<dropped, win, err>> /\ wpc \notin ExitPCs
    BY <1>5
<1> QED
    BY <1>1, <1>2, <1>3, <1>4, <1>5
       DEF Next, Worker, Exit, WriteCall, CloseSendCall, CloseSendBuffer, CloseSend,
       CloseCall, CloseFree, Recv, ParentCancel, Cancel, Wakeup, WakeWaiters,
       NextWindowBlocks, NextWindowWait, HoldToPark, Park, NextWindowFails,
       NextWindowCanceled, TranscribeOK, TranscribeFails, ClassifySegment,
       SlideCommitted, Slide, SendResult, SendCanceled, CloseResults,
       WorkerCancel, WgDone, Terminated, vars, bufVars, workVars

-----------------------------------------------------------------------------
\* A segment that classifyWindow emits is a result the service may decide.
LEMMA ClassifyDecides ==
    ASSUME Core, EndInv, OrderInv, ServiceInv, ClassifySegment
    PROVE  [Service!Next]_(Service!vars)
<1> DEFINE absEnd == AbsEnd(win, Head(segs))
           v == Verdict(absEnd, committed, CommitBefore(win))
           r == [end |-> absEnd, final |-> v = "final", lagging |-> win.dropped]
<1>1. /\ results \in Seq(Result) /\ pending \in Seq(Result)
      /\ {delivered, committed, since, consumed} \subseteq Nat /\ win \in Windows
    BY DEF Core, TypeOK, BufInv, BufTypeOK
<1>2. UNCHANGED <<consumed, since, closed, ctxDone, results, delivered, err, resClosed,
                  cutShort>>
    BY DEF ClassifySegment, bufVars, chanVars
<1>3. CASE v = "skip"
    <2>1. pending' = pending
        BY <1>3 DEF ClassifySegment
    <2> QED
        BY <1>2, <2>1 DEF Service!vars
<1>4. CASE v # "skip"
    <2>1. pending' = Append(pending, r)
        BY <1>4 DEF ClassifySegment
    <2>2. absEnd \in Nat
        <3>1. Head(segs) \in Nat /\ win.start \in Nat
            BY DEF ClassifySegment, Core, TypeOK, Windows
        <3> QED
            BY <3>1 DEF AbsEnd
    <2>3. committed < absEnd
        BY <1>1, <1>4, <2>2 DEF Verdict
    <2>4. r \in [end : Nat, final : BOOLEAN, lagging : BOOLEAN]
        <3>1. (v = "final") \in BOOLEAN /\ win.dropped \in BOOLEAN
            BY <1>1, Zenon DEF Windows
        <3> HIDE DEF absEnd, v
        <3> QED
            BY <2>2, <3>1
    <2>5. r.end = absEnd /\ (r.final => v = "final") /\ (r.lagging => win.dropped)
        OBVIOUS
    <2>6. v = "final" => absEnd <= since
        <3>1. win.consumed = since /\ CommitBefore(win) <= win.consumed
            BY <1>1, CommitBeforeType DEF ClassifySegment, Core, Marks
        <3>2. CommitBefore(win) \in Int
            BY <1>1, CommitBeforeType
        <3>3. v = "final" => absEnd <= CommitBefore(win)
            BY DEF Verdict
        <3> HIDE DEF absEnd, v
        <3> QED
            BY <1>1, <2>2, <3>1, <3>2, <3>3
    <2>7. err = "none" /\ ~resClosed /\ ~cutShort
        BY DEF ClassifySegment, ServiceInv, EndInv, ExitPCs
    <2> HIDE DEF absEnd, v, r
    <2>8. Queue \in Seq(Result) /\ \A i \in 1..Len(Queue) :
             Queue[i].end \in Nat /\ (Queue[i].final => Queue[i].end < absEnd)
        <3>1. Queue \in Seq(Result)
            BY <1>1 DEF Queue
        <3>2. \A i \in 1..Len(Queue) : Queue[i] \in Result
            BY <3>1
        <3>3. \A i \in 1..Len(Queue) : Queue[i].end \in Nat
            BY <3>2 DEF Result
        <3>4. \A i \in 1..Len(Queue) : Queue[i].final => Queue[i].end <= committed
            BY DEF OrderInv, ResultsFollowFinals
        <3> QED
            BY <1>1, <2>2, <2>3, <3>1, <3>3, <3>4
    <2>9. \A i \in DOMAIN results : results[i].final => results[i].end < absEnd
        <3> SUFFICES ASSUME NEW i \in DOMAIN results, results[i].final
                     PROVE  results[i].end < absEnd
            OBVIOUS
        <3>1. i \in 1..Len(Queue) /\ Queue[i] = results[i]
            BY <1>1 DEF Queue
        <3> QED
            BY <2>8, <3>1
    <2>10. \A i \in DOMAIN pending : pending[i].final => pending[i].end < absEnd
        <3> SUFFICES ASSUME NEW i \in DOMAIN pending, pending[i].final
                     PROVE  pending[i].end < absEnd
            OBVIOUS
        <3>1. Len(results) + i \in 1..Len(Queue) /\ Queue[Len(results) + i] = pending[i]
            BY <1>1 DEF Queue
        <3> QED
            BY <2>8, <3>1
    <2>11. delivered < absEnd
        BY <1>1, <2>2, <2>3 DEF OrderInv
    <2>12. Service!Decide(r)
        <3>1. Service!Running /\ Service!Follows(r)
            BY <1>1, <2>2, <2>5, <2>7, <2>9, <2>10, <2>11
               DEF Service!Running, Service!Follows
        <3> QED
            BY <1>2, <2>1, <2>4, <2>5, <2>6, <3>1 DEF Service!Decide, Service!Result, ServiceInv
    <2>13. Len(pending) + 1 \in DOMAIN pending' /\ pending'[Len(pending) + 1] = r
        BY <1>1, <2>1, <2>4 DEF Result
    <2> QED
        BY <2>12, <2>13 DEF Service!Next
<1> QED
    BY <1>3, <1>4

LEMMA StepIsServiceStep ==
    ASSUME Core, EndInv, OrderInv, ServiceInv, [Next]_vars
    PROVE  [Service!Next]_(Service!vars)
<1> USE DEF Service!vars
<1>0. {consumed, since} \subseteq Nat
    BY DEF Core, TypeOK, BufInv, BufTypeOK
<1>1. CASE Producer
    <2>1. UNCHANGED <<since, closed, ctxDone, pending, results, delivered, err, resClosed,
                      cutShort>>
        BY <1>1 DEF Producer, WriteWait, HoldToPark, Park, WriteAppend, WriteRefused,
           bufVars, workVars, chanVars
    <2>2. CASE WriteAppend(chunk)
        <3>1. chunk \in ChunkSizes /\ consumed' = consumed + DurFor(chunk)
            BY <1>1, <2>2 DEF Producer, WriteAppend, Core, Marks
        <3>2. DurFor(chunk) \in Nat /\ DurFor(chunk) > 0
            BY <3>1, ChunkAssumption, SampleTicksAssumption, DurForType DEF DurFor
        <3> QED
            BY <1>0, <2>1, <2>2, <3>1, <3>2
               DEF WriteAppend, Service!Accept, Service!Next
    <2>3. CASE UNCHANGED consumed
        BY <2>1, <2>3
    <2> QED
        BY <1>1, <2>2, <2>3 DEF Producer, WriteWait, HoldToPark, Park, WriteRefused,
           bufVars
<1>2. CASE CloseSendBuffer
    BY <1>2 DEF CloseSendBuffer, CloseSend, workVars, chanVars,
       Service!CloseInput, Service!Next
<1>3. CASE CloseCall \/ ParentCancel \/ WorkerCancel
    BY <1>3 DEF CloseCall, ParentCancel, WorkerCancel, Cancel, workVars, chanVars,
       Service!Cancel, Service!Next
<1>4. CASE NextWindow
    <2>1. err = "none" /\ ~resClosed /\ ~cutShort /\ pending = <<>> /\ ~ctxDone
        BY <1>4 DEF NextWindow, TakeWindow, ServiceInv, EndInv, ExitPCs
    <2>2. /\ since' = consumed
          /\ UNCHANGED <<consumed, closed, ctxDone, pending, results, delivered, err,
                         resClosed, cutShort>>
        BY <1>4 DEF NextWindow, TakeWindow, chanVars, bufVars
    <2> QED
        BY <2>1, <2>2, Zenon DEF Service!Hear, Service!Running, Service!Next
<1>5. CASE NextWindowFails \/ TranscribeFails \/ SendCanceled
    <2>1. UNCHANGED <<consumed, since, closed, ctxDone, pending, results, delivered,
                      resClosed>>
        BY <1>5 DEF NextWindowFails, NextWindowCanceled, TranscribeFails, SendCanceled,
           bufVars, chanVars
    <2>2. err = "none" /\ ~resClosed /\ ~cutShort
        BY <1>5 DEF NextWindowFails, TranscribeFails, SendCanceled, ServiceInv, EndInv,
           ExitPCs
    <2>3. \/ (err' = "fail" \/ (ctxDone /\ err' = "ctx")) /\ cutShort' = cutShort
          \/ ~ctxDone /\ cutShort' /\ err' = "none"
        <3>1. CASE NextWindowFails \/ SendCanceled
            BY <3>1 DEF NextWindowFails, NextWindowCanceled, SendCanceled, Exit, CtxErr,
               chanVars
        <3>2. CASE TranscribeFails
            <4>1. PICK o \in MayReturn(ctxDone) \ {"ok", "empty"} :
                     /\ err' = IF IsErrCanceled(o) THEN CtxErr ELSE "fail"
                     /\ cutShort' = (o = "panicCanceled" /\ ~ctxDone)
                BY <3>2 DEF TranscribeFails, Exit
            <4>2. ctxDone \in BOOLEAN /\ cutShort = FALSE
                BY <2>2, Zenon DEF Core, TypeOK, BufInv, BufTypeOK
            <4>3. CASE IsErrCanceled(o) /\ ctxDone
                BY <4>1, <4>2, <4>3 DEF CtxErr
            <4>4. CASE IsErrCanceled(o) /\ ~ctxDone
                <5>1. o = "panicCanceled"
                    BY <4>1, <4>4 DEF MayReturn, IsErrCanceled, Outcomes
                <5> QED
                    BY <2>2, <4>1, <4>4, <5>1 DEF CtxErr
            <4>5. CASE ~IsErrCanceled(o)
                <5>1. o # "panicCanceled"
                    BY <4>5 DEF IsErrCanceled
                <5>2. err' = "fail"
                    BY <4>1, <4>5
                <5>3. cutShort' = FALSE
                    BY <4>1, <5>1
                <5> QED
                    BY <4>2, <5>2, <5>3
            <4> QED
                BY <4>3, <4>4, <4>5
        <3> QED
            BY <1>5, <3>1, <3>2
    <2>4. CASE ~ctxDone /\ cutShort' /\ err' = "none"
        BY <2>1, <2>2, <2>4, Zenon DEF Service!BreakOff, Service!Running, Service!Next
    <2>5. CASE (err' = "fail" \/ (ctxDone /\ err' = "ctx")) /\ cutShort' = cutShort
        BY <2>1, <2>2, <2>5, Zenon DEF Service!Fail, Service!Running, Service!Next
    <2> QED
        BY <2>3, <2>4, <2>5
<1>6. CASE ClassifySegment
    BY <1>6, ClassifyDecides
<1>7. CASE SendResult
    BY <1>7 DEF SendResult, bufVars, ServiceInv, EndInv, ExitPCs,
       Service!Send, Service!Running, Service!Next
<1>8. CASE Recv
    BY <1>8 DEF Recv, bufVars, workVars, Service!Receive, Service!Next
<1>9. CASE CloseResults
    <2>1. CASE resClosed
        BY <1>9, <2>1 DEF CloseResults, bufVars, Core, TypeOK
    <2>2. CASE ~resClosed
        <3>1. err = "none" /\ ~cutShort => closed /\ since = consumed /\ pending = <<>>
            BY <1>9 DEF CloseResults, EndInv, ExitPCs
        <3> QED
            BY <1>9, <2>2, <3>1 DEF CloseResults, bufVars, Service!End, Service!Next
    <2> QED
        BY <2>1, <2>2
<1>10. CASE UNCHANGED <<consumed, since, closed, ctxDone, pending, results, delivered,
                        err, resClosed, cutShort>>
    BY <1>10
<1> QED
    BY <1>1, <1>2, <1>3, <1>4, <1>5, <1>6, <1>7, <1>8, <1>9, <1>10
       DEF Next, Worker, WriteCall, CloseSendCall, CloseFree, Wakeup, WakeWaiters,
       NextWindowBlocks, NextWindowWait, HoldToPark, Park, TranscribeOK,
       SlideCommitted, Slide, SendsDone, WgDone, Terminated, vars, bufVars,
       workVars, chanVars

\* A Stream keeps its promise to its user: audio in until CloseSend, finals that
\* stay, one end with an honest Err, save after the panic that BreakOff is
\* (stream.go, Stream and its methods).
THEOREM StreamImplementsService == Spec => ImplementsService
<1>1. Init => /\ EndInv /\ OrderInv /\ ServiceInv
              /\ Service!Init
    BY DEF Init, BufInit, EndInv, ExitPCs, NoWindow, OrderInv, ResultsFollowFinals,
       Queue, ServiceInv, Service!Init
<1>2. Core /\ EndInv /\ OrderInv /\ ServiceInv /\ [Next]_vars
         => EndInv' /\ OrderInv' /\ ServiceInv'
    BY EndStep, OrderStep, ServiceInvStep
<1>3. Core /\ EndInv /\ OrderInv /\ ServiceInv /\ [Next]_vars
         => [Service!Next]_(Service!vars)
    BY StepIsServiceStep
<1> QED
    BY <1>1, <1>2, <1>3, CoreInvariant, PTL DEF Spec, ImplementsService, Service!Spec

-----------------------------------------------------------------------------
(* What the promise is worth. *)

LEMMA TruthfulAppend ==
    ASSUME NEW q \in Seq(Service!Result), NEW r \in Service!Result,
           Service!Truthful(q), r.final => r.end <= since, r.lagging => DropCap > 0
    PROVE  /\ Append(q, r) \in Seq(Service!Result)
           /\ Service!Truthful(Append(q, r))
<1>1. /\ DOMAIN Append(q, r) = 1..(Len(q) + 1) /\ Len(q) \in Nat
      /\ DOMAIN q = 1..Len(q)
      /\ \A i \in 1..Len(q) : Append(q, r)[i] = q[i]
      /\ Append(q, r)[Len(q) + 1] = r
      /\ Append(q, r) \in Seq(Service!Result)
    OBVIOUS
<1>2. \A i \in 1..(Len(q) + 1) : i \in 1..Len(q) \/ i = Len(q) + 1
    BY <1>1
<1> QED
    BY <1>1, <1>2 DEF Service!Truthful

LEMMA TruthfulTail ==
    ASSUME NEW q \in Seq(Service!Result), q # <<>>, Service!Truthful(q)
    PROVE  /\ Tail(q) \in Seq(Service!Result) /\ Service!Truthful(Tail(q))
           /\ Head(q) \in Service!Result /\ Len(Tail(q)) = Len(q) - 1
           /\ Head(q).final => Head(q).end <= since
           /\ Head(q).lagging => DropCap > 0
<1>1. /\ Len(q) \in Nat \ {0} /\ DOMAIN q = 1..Len(q) /\ Head(q) = q[1]
      /\ DOMAIN Tail(q) = 1..(Len(q) - 1) /\ Len(Tail(q)) = Len(q) - 1
      /\ \A i \in 1..(Len(q) - 1) : Tail(q)[i] = q[i + 1]
      /\ Tail(q) \in Seq(Service!Result) /\ Head(q) \in Service!Result
    OBVIOUS
<1>2. 1 \in 1..Len(q) /\ \A i \in 1..(Len(q) - 1) : i + 1 \in 1..Len(q)
    BY <1>1
<1> QED
    BY <1>1, <1>2 DEF Service!Truthful

LEMMA TruthfulLater ==
    ASSUME NEW q \in Seq(Service!Result), Service!Truthful(q), since \in Nat,
           NEW t \in Nat, since <= t
    PROVE  \A i \in DOMAIN q : /\ q[i].final => q[i].end <= t
                               /\ q[i].lagging => DropCap > 0
<1>1. \A i \in DOMAIN q : q[i] \in Service!Result
    OBVIOUS
<1>2. \A i \in DOMAIN q : q[i].end \in Nat
    BY <1>1 DEF Service!Result
<1> QED
    BY <1>2 DEF Service!Truthful

LEMMA ReliableStep ==
    ASSUME Service!TypeOK, Service!Reliable, [Service!Next]_(Service!vars)
    PROVE  Service!TypeOK' /\ Service!Reliable'
<1>1. /\ consumed \in Nat /\ since \in Nat /\ delivered \in Nat
      /\ pending \in Seq(Service!Result) /\ results \in Seq(Service!Result)
      /\ closed \in BOOLEAN /\ ctxDone \in BOOLEAN /\ resClosed \in BOOLEAN
      /\ err \in {"none", "ctx", "fail"} /\ cutShort \in BOOLEAN
    BY DEF Service!TypeOK
<1>2. /\ delivered <= since /\ since <= consumed /\ Len(results) <= ChanCap
      /\ Service!Truthful(results) /\ Service!Truthful(pending)
      /\ err = "ctx" => ctxDone
      /\ cutShort => err = "none"
      /\ resClosed /\ err = "none" /\ ~cutShort =>
            closed /\ since = consumed /\ pending = <<>>
    BY DEF Service!Reliable
<1> USE DEF Service!TypeOK, Service!Reliable
<1>3. CASE Service!Accept
    BY <1>1, <1>2, <1>3 DEF Service!Accept, Service!Truthful
<1>4. CASE Service!CloseInput \/ Service!Cancel
    <2>1. /\ UNCHANGED <<consumed, since, pending, results, delivered, err, resClosed,
                         cutShort>>
          /\ closed' \in BOOLEAN /\ (closed => closed')
          /\ ctxDone' \in BOOLEAN /\ (ctxDone => ctxDone')
        BY <1>1, <1>4 DEF Service!CloseInput, Service!Cancel
    <2>2. Service!Truthful(results)' /\ Service!Truthful(pending)'
        BY <1>2, <2>1 DEF Service!Truthful
    <2> QED
        BY <1>1, <1>2, <2>1, <2>2
<1>5. CASE Service!Hear
    <2>1. /\ since' = consumed /\ ~resClosed /\ pending = <<>>
          /\ UNCHANGED <<consumed, closed, ctxDone, pending, results, delivered, err,
                         resClosed, cutShort>>
        BY <1>5 DEF Service!Hear, Service!Running
    <2>2. Service!Truthful(results)' /\ Service!Truthful(pending)'
        <3>1. \A i \in DOMAIN results : /\ results[i].final => results[i].end <= since'
                                        /\ results[i].lagging => DropCap > 0
            BY <1>1, <1>2, <2>1, TruthfulLater
        <3> QED
            BY <2>1, <3>1 DEF Service!Truthful
    <2> QED
        BY <1>1, <1>2, <2>1, <2>2
<1>6. CASE \E i \in DOMAIN pending' : Service!Decide(pending'[i])
    <2>1. PICK r \in Service!Result : Service!Decide(r)
        BY <1>6 DEF Service!Decide
    <2>2. /\ pending' = Append(pending, r) /\ err = "none" /\ ~resClosed
          /\ r.final => r.end <= since
          /\ r.lagging => DropCap > 0
          /\ UNCHANGED <<consumed, since, closed, ctxDone, results, delivered, err,
                         resClosed, cutShort>>
        BY <2>1 DEF Service!Decide, Service!Running
    <2>3. Append(pending, r) \in Seq(Service!Result) /\ Service!Truthful(Append(pending, r))
        BY <1>1, <1>2, <2>2, TruthfulAppend
    <2> QED
        BY <1>1, <1>2, <2>2, <2>3 DEF Service!Truthful
<1>7. CASE Service!Send
    <2>1. /\ pending # <<>> /\ Len(results) < ChanCap /\ err = "none" /\ ~resClosed
          /\ results' = Append(results, Head(pending)) /\ pending' = Tail(pending)
          /\ UNCHANGED <<consumed, since, closed, ctxDone, delivered, err, resClosed,
                         cutShort>>
        BY <1>7 DEF Service!Send, Service!Running
    <2>2. /\ Tail(pending) \in Seq(Service!Result) /\ Service!Truthful(Tail(pending))
          /\ Head(pending) \in Service!Result
          /\ Head(pending).final => Head(pending).end <= since
          /\ Head(pending).lagging => DropCap > 0
        BY <1>1, <1>2, <2>1, TruthfulTail
    <2>3. /\ Append(results, Head(pending)) \in Seq(Service!Result)
          /\ Service!Truthful(Append(results, Head(pending)))
        BY <1>1, <1>2, <2>2, TruthfulAppend
    <2>4. Len(results') <= ChanCap
        <3>1. Len(results') = Len(results) + 1 /\ Len(results) \in Nat /\ ChanCap \in Nat
            BY <1>1, <2>1, <2>2, StreamAssumption
        <3> QED
            BY <2>1, <3>1
    <2> QED
        BY <1>1, <1>2, <2>1, <2>2, <2>3, <2>4 DEF Service!Truthful
<1>8. CASE Service!Receive
    <2>1. /\ results # <<>> /\ results' = Tail(results)
          /\ delivered' = IF Head(results).final THEN Head(results).end ELSE delivered
          /\ UNCHANGED <<consumed, since, closed, ctxDone, pending, err, resClosed,
                         cutShort>>
        BY <1>8 DEF Service!Receive
    <2>2. /\ Tail(results) \in Seq(Service!Result) /\ Service!Truthful(Tail(results))
          /\ Head(results) \in Service!Result /\ Len(Tail(results)) = Len(results) - 1
          /\ Head(results).final => Head(results).end <= since
        BY <1>1, <1>2, <2>1, TruthfulTail
    <2>3. delivered' \in Nat /\ delivered' <= since
        BY <1>1, <1>2, <2>1, <2>2 DEF Service!Result
    <2>4. Len(results') <= ChanCap
        <3>1. Len(results) \in Nat /\ ChanCap \in Nat
            BY <1>1, StreamAssumption
        <3> QED
            BY <1>2, <2>1, <2>2, <3>1
    <2> QED
        BY <1>1, <1>2, <2>1, <2>2, <2>3, <2>4 DEF Service!Truthful
<1>9. CASE Service!Fail
    BY <1>1, <1>2, <1>9 DEF Service!Fail, Service!Running, Service!Truthful
<1>10. CASE Service!End
    BY <1>1, <1>2, <1>10 DEF Service!End, Service!Truthful
<1>12. CASE Service!BreakOff
    <2>1. /\ err = "none" /\ ~resClosed /\ cutShort' = TRUE
          /\ UNCHANGED <<consumed, since, closed, ctxDone, pending, results, delivered,
                         err, resClosed>>
        BY <1>12 DEF Service!BreakOff, Service!Running
    <2>2. Service!Truthful(results)' /\ Service!Truthful(pending)'
        BY <1>2, <2>1 DEF Service!Truthful
    <2> QED
        BY <1>1, <1>2, <2>1, <2>2
<1>11. CASE UNCHANGED Service!vars
    BY <1>1, <1>2, <1>11 DEF Service!vars, Service!Truthful
<1> QED
    BY <1>3, <1>4, <1>5, <1>6, <1>7, <1>8, <1>9, <1>10, <1>11, <1>12 DEF Service!Next

\* The promise is worth having: any program that keeps StreamService, a Stream
\* among them, is Reliable (stream.go Results and Err, as a user reads them whose
\* callbacks do not panic with an ErrCanceled).
THEOREM StreamIsReliable == Spec => []Service!Reliable
<1>1. Service!Init => Service!TypeOK /\ Service!Reliable
    <2> SUFFICES ASSUME Service!Init PROVE Service!TypeOK /\ Service!Reliable
        OBVIOUS
    <2>1. ChanCap \in Nat /\ <<>> \in Seq(Service!Result) /\ Len(<<>>) = 0
        BY StreamAssumption
    <2>2. results = <<>> /\ pending = <<>>
        BY DEF Service!Init
    <2>3. Service!Truthful(results) /\ Service!Truthful(pending)
        BY <2>2 DEF Service!Truthful
    <2>4. Service!TypeOK
        <3>1. /\ closed \in BOOLEAN /\ ctxDone \in BOOLEAN /\ resClosed \in BOOLEAN
              /\ err \in {"none", "ctx", "fail"} /\ cutShort \in BOOLEAN
            BY Zenon DEF Service!Init
        <3>2. {consumed, since, delivered} \subseteq Nat
            BY DEF Service!Init
        <3> QED
            BY <2>1, <2>2, <3>1, <3>2 DEF Service!TypeOK
    <2>5. Len(results) <= ChanCap
        BY <2>1, <2>2
    <2>6. /\ delivered <= since /\ since <= consumed
          /\ err # "ctx" /\ ~resClosed /\ ~cutShort
        BY DEF Service!Init
    <2> QED
        BY <2>3, <2>4, <2>5, <2>6 DEF Service!Reliable
<1>2. Service!TypeOK /\ Service!Reliable /\ [Service!Next]_(Service!vars)
          => (Service!TypeOK /\ Service!Reliable)'
    BY ReliableStep
<1>3. Service!Spec => []Service!Reliable
    BY <1>1, <1>2, PTL DEF Service!Spec
<1> QED
    BY <1>3, StreamImplementsService, PTL DEF ImplementsService

-----------------------------------------------------------------------------
(* What is never taken back. *)

\* The channel is closed by the step that says so, and by no other.
ChannelInv == resClosed <=> wpc \in {"cancel", "wgDone", "done"}

AtMostReceived ==
    \/ results' = results
    \/ results # <<>> /\ results' = Tail(results)

\* No step of anybody takes anything back: not audio that was consumed or slid
\* over, not a commit, not a delivery, not CloseSend, a cancel, the end or the
\* error.  Once Results is closed it is only received from, so that it is closed
\* once and nothing is sent after it, and Err no longer changes, so that who has
\* seen the close reads it without a lock (stream.go run, setErr and Err).
NothingTakenBack ==
    [][/\ start <= start' /\ consumed <= consumed'
       /\ since <= since' /\ committed <= committed' /\ delivered <= delivered'
       /\ closed => closed' /\ consumed' = consumed
       /\ ctxDone => ctxDone'
       /\ err # "none" => err' = err
       /\ CloseResults => ~resClosed
       /\ resClosed => resClosed' /\ err' = err /\ AtMostReceived]_vars

\* err is set, and Results closed, on the way out of run only.
LEMMA EndKeeps ==
    ASSUME Core, ServiceInv, ChannelInv, [Next]_vars
    PROVE  /\ ChannelInv'
           /\ err # "none" => err' = err
           /\ CloseResults => ~resClosed
           /\ resClosed => resClosed' /\ err' = err /\ AtMostReceived
<1> USE DEF ChannelInv, ServiceInv, ExitPCs, AtMostReceived
<1>0. CloseResults => ~resClosed
    BY DEF CloseResults
<1>1. CASE Recv
    BY <1>0, <1>1 DEF Recv, workVars
<1>2. CASE CloseResults
    BY <1>0, <1>2 DEF CloseResults
<1>3. CASE WorkerCancel \/ WgDone
    BY <1>0, <1>3 DEF WorkerCancel, WgDone, chanVars
<1>4. CASE SendResult
    BY <1>0, <1>4 DEF SendResult
<1>5. CASE wpc \in {"next", "infer", "classify", "send"}
           /\ wpc' \in {"next", "infer", "classify", "send", "closeResults"}
           /\ UNCHANGED <<results, resClosed>>
    BY <1>0, <1>5
<1>6. CASE UNCHANGED <<workVars, results, resClosed>>
    BY <1>0, <1>6 DEF workVars
<1> QED
    BY <1>1, <1>2, <1>3, <1>4, <1>5, <1>6 DEF Next, Worker, WriteCall, Producer,
       CloseSendCall, CloseSendBuffer, CloseCall, CloseFree, ParentCancel, Wakeup,
       NextWindowBlocks, NextWindowFails, NextWindow, TranscribeOK, TranscribeFails,
       ClassifySegment, SlideCommitted, SendCanceled, SendsDone, Exit, Terminated,
       vars, workVars, chanVars

LEMMA MarksAdvance ==
    ASSUME Core, OrderInv, [Next]_vars
    PROVE  /\ start <= start' /\ consumed <= consumed'
           /\ since <= since' /\ committed <= committed' /\ delivered <= delivered'
<1>1. /\ since \in Nat /\ committed \in Nat /\ delivered \in Nat /\ since <= consumed
      /\ results \in Seq(Result)
    BY DEF Core, TypeOK, Marks
<1>2. start <= start' /\ consumed <= consumed'
    BY StepIsBufferStep, StartGrows, ConsumedGrows DEF Core, BufInv
<1>3. CASE NextWindow
    BY <1>1, <1>2, <1>3 DEF NextWindow, chanVars
<1>4. CASE ClassifySegment
    BY <1>1, <1>2, <1>4, ClassifyStep DEF ClassifySegment, chanVars, Core
<1>5. CASE Recv
    <2>1. UNCHANGED <<since, committed>>
        BY <1>5 DEF Recv, workVars
    <2>2. delivered <= delivered'
        <3>1. CASE Head(results).final
            <4>1. 1 \in 1..Len(Queue) /\ Queue[1] = Head(results)
                BY <1>1, <1>5 DEF Recv, Queue, Core, TypeOK
            <4>2. Queue[1].end > delivered
                BY <4>1 DEF OrderInv, ResultsFollowFinals
            <4>3. Head(results) \in Result
                BY <1>1, <1>5 DEF Recv
            <4> QED
                BY <1>1, <1>5, <3>1, <4>1, <4>2, <4>3 DEF Recv, Result
        <3>2. CASE ~Head(results).final
            BY <1>1, <1>5, <3>2 DEF Recv
        <3> QED
            BY <3>1, <3>2
    <2> QED
        BY <1>1, <1>2, <2>1, <2>2
<1>6. CASE UNCHANGED <<since, committed, delivered>>
    BY <1>1, <1>2, <1>6
<1> QED
    BY <1>3, <1>4, <1>5, <1>6 DEF Next, Worker, WriteCall, Producer, CloseSendCall,
       CloseSendBuffer, CloseCall, CloseFree, ParentCancel, Wakeup,
       NextWindowBlocks, NextWindowFails, TranscribeOK, TranscribeFails,
       SlideCommitted, SendResult, SendCanceled, SendsDone, CloseResults,
       WorkerCancel, WgDone, Terminated, vars, workVars, chanVars

\* A cancelled ctx stays cancelled.
LEMMA CancelIsFinal ==
    ASSUME [BufNext]_bufVars, ctxDone
    PROVE  ctxDone'
BY DEF BufNext, WriteWait, WriteRefused, WriteAppend, Park, HoldToPark, CloseSend,
   NextWindowWait, TakeWindow, Slide, NextWindowCanceled, WakeWaiters, Cancel,
   bufVars

\* Marks and ends only go forward, in any interleaving (stream.go, stream_buffer.go).
THEOREM OnlyForward == Spec => NothingTakenBack
<1>1. Init => EndInv /\ OrderInv /\ ServiceInv /\ ChannelInv
    BY DEF Init, BufInit, EndInv, ExitPCs, NoWindow, OrderInv, ResultsFollowFinals,
       Queue, ServiceInv, ChannelInv
<1>2. Core /\ EndInv /\ OrderInv /\ ServiceInv /\ ChannelInv /\ [Next]_vars
         => EndInv' /\ OrderInv' /\ ServiceInv' /\ ChannelInv'
    BY EndStep, OrderStep, ServiceInvStep, EndKeeps
<1>3. Core /\ OrderInv /\ ServiceInv /\ ChannelInv /\ [Next]_vars
         => /\ start <= start' /\ consumed <= consumed'
            /\ since <= since' /\ committed <= committed' /\ delivered <= delivered'
            /\ closed => closed' /\ consumed' = consumed
            /\ ctxDone => ctxDone'
            /\ err # "none" => err' = err
            /\ CloseResults => ~resClosed
            /\ resClosed => resClosed' /\ err' = err /\ AtMostReceived
    BY StepIsBufferStep, ClosedIsFinal, CancelIsFinal, MarksAdvance, EndKeeps
<1> QED
    BY <1>1, <1>2, <1>3, CoreInvariant, PTL DEF Spec, NothingTakenBack

=============================================================================
