------------------------ MODULE StreamProgressProofs ------------------------
(***************************************************************************)
(* The safety half of progress, for every setting and any audio: no wakeup  *)
(* is lost, an ending stream only ever nears its end, and, given a whisper  *)
(* that commits and room in the window, writer and worker do not wait for   *)
(* each other.                                                              *)
(***************************************************************************)
EXTENDS StreamResultProofs

\* How far behind the end of a window start may be left: a commit that is less than
\* CommitLag behind commitBefore, which is Keep behind the end; the overlap that the
\* slide keeps; a sample.
Backlog == 2 * Keep + CommitLag + SampleTicks

\* Speech of which every segment, with the pause behind it, is shorter than CommitLag
\* (so that one ends within CommitLag of commitBefore), in a window with room for the
\* backlog that leaves and a step.  With the defaults (0.7 s, 10 s, 0.2 s) that is
\* speech in segments of up to 8.9 s.
Roomy ==
    /\ CommitLag > 0
    /\ Step + Backlog <= Window + 1

\* start is as close behind the end of the last window as a slide brings it.
Slid == since < start + Backlog

\* The window's commits reach its end, or it is too short to have any.
Committed ==
    \/ since < committed + Keep + CommitLag
    \/ since < win.start + Keep + CommitLag

\* A segment that will commit that far is still to be classified.
WillCommit ==
    \E i \in DOMAIN segs :
        /\ AbsEnd(win, segs[i]) <= since - Keep
        /\ since - Keep < AbsEnd(win, segs[i]) + CommitLag

Open == wpc \in {"infer", "classify", "send"} /\ ~win.closed

RoomInv ==
    /\ wpc = "next" => Slid
    /\ Open => win.start <= start \/ since = win.start + Window
    /\ Open /\ wpc = "classify" => Committed \/ WillCommit
    /\ Open /\ wpc = "send" => Slid

\* No wakeup is lost; the worker waits nowhere but in nextWindow, and the wakeup
\* goroutine broadcasts only after a cancel.
ParkInv ==
    /\ NoLostWakeup
    /\ Waits("worker") => wpc = "next"
    /\ wakeup = "done" => ctxDone

-----------------------------------------------------------------------------
(* The buffer. *)

\* slide brings start to within a sample of newStart, or of the end of the audio.
LEMMA SlideReaches ==
    ASSUME BufInv, NEW t \in Nat, Slide(t)
    PROVE  t <= start' + SampleTicks \/ start' = consumed
<1>1. pcmLen \in Nat /\ start \in Nat /\ SampleTicks \in Nat
    BY SampleTicksAssumption DEF BufInv, BufTypeOK
<1>2. CASE t <= start
    BY <1>1, <1>2 DEF Slide
<1>3. CASE ~(t <= start)
    <2>1. PICK k \in SamplesFor(t - start) : TrimFront(Least(k, pcmLen))
        BY <1>3 DEF Slide
    <2>2. k \in Nat /\ t - start <= DurFor(k) + SampleTicks
        BY <1>1, <1>3, SamplesForBounds
    <2>3. Least(k, pcmLen) \in {k, pcmLen}
        BY <1>1, <2>2, LeastBounds
    <2>4. consumed = start + DurFor(pcmLen)
        BY StartConsumed, DurForType, <1>1 DEF BufInv, BufTypeOK
    <2>5. CASE Least(k, pcmLen) = k
        BY <1>1, <2>1, <2>2, <2>5, DurForType DEF TrimFront
    <2>6. CASE Least(k, pcmLen) = pcmLen
        BY <2>1, <2>4, <2>6 DEF TrimFront
    <2> QED
        BY <2>3, <2>5, <2>6
<1> QED
    BY <1>2, <1>3

\* A window without samples is one of an empty buffer.
LEMMA EmptyWindow ==
    ASSUME BufInv, NEW w \in TrailingWindows, ~(w.len > 0)
    PROVE  start = consumed
<1>1. /\ DurFor(w.first) <= w.start /\ DurFor(w.first + w.len) = w.consumed
      /\ w.start = start \/ w.start = consumed - Window
    BY WindowIsTail
<1>2. w \in Windows /\ w.consumed = consumed
    BY WindowType DEF BufInv
<1>3. w.len = 0 /\ w.first + 0 = w.first
    BY <1>2 DEF Windows
<1>4. consumed <= w.start
    BY <1>1, <1>2, <1>3
<1>5. {start, consumed, Window} \subseteq Nat /\ Window > 0
    BY ConfigFacts DEF BufInv, BufTypeOK
<1>6. start <= consumed
    BY StartConsumed DEF BufInv, BufTypeOK
<1> QED
    BY <1>1, <1>4, <1>5, <1>6

-----------------------------------------------------------------------------
(* Who waits, and why. *)

LEMMA ParkInit == Init => ParkInv
BY DEF Init, BufInit, ParkInv, NoLostWakeup, Waits

\* Who decides to wait has to; who ends the reason of a wait wakes everybody.
LEMMA ParkStep ==
    ASSUME Core, ParkInv, [Next]_vars
    PROVE  ParkInv'
<1> USE DEF ParkInv, NoLostWakeup, Waits, WakeupToCome
<1>1. CASE Producer
    <2>1. UNCHANGED <<since, wpc, wakeup>>
        BY <1>1 DEF Producer, workVars
    <2>2. CASE WriteWait
        BY <2>1, <2>2 DEF WriteWait, HoldToPark, CanLock, MustWait, Ready, pcm
    <2>3. CASE Park("producer")
        BY <2>1, <2>3 DEF Park, MustWait, Ready, pcm
    <2>4. CASE WriteAppend(chunk)
        BY <2>1, <2>4 DEF WriteAppend, CanLock, Broadcast
    <2>5. CASE WriteRefused
        BY <2>1, <2>5 DEF WriteRefused, bufVars, pcm, MustWait, Ready
    <2> QED
        BY <1>1, <2>2, <2>3, <2>4, <2>5 DEF Producer
<1>2. CASE CloseSendBuffer
    BY <1>2 DEF CloseSendBuffer, CloseSend, Broadcast, workVars
<1>3. CASE Wakeup
    BY <1>3 DEF Wakeup, WakeWaiters, Broadcast, workVars
<1>4. CASE CloseCall \/ ParentCancel \/ WorkerCancel
    <2>1. Cancel /\ UNCHANGED wakeup /\ (UNCHANGED wpc \/ wpc = "cancel")
        BY <1>4 DEF CloseCall, ParentCancel, WorkerCancel, workVars
    <2>2. wakeup \in {"running", "done"}
        BY DEF Core, TypeOK
    <2> QED
        BY <2>1, <2>2 DEF Cancel, MustWait
<1>5. CASE NextWindowBlocks
    <2>1. UNCHANGED <<since, wpc, wakeup>> /\ wpc = "next"
        BY <1>5 DEF NextWindowBlocks, workVars
    <2>2. CASE NextWindowWait(since)
        BY <2>1, <2>2 DEF NextWindowWait, HoldToPark, CanLock, MustWait, Ready, pcm
    <2>3. CASE Park("worker")
        BY <2>1, <2>3 DEF Park, MustWait, Ready, pcm
    <2> QED
        BY <1>5, <2>2, <2>3 DEF NextWindowBlocks
<1>6. CASE NextWindowFails
    BY <1>6 DEF NextWindowFails, NextWindowCanceled, CanLock, bufVars, pcm, MustWait, Ready
<1>7. CASE NextWindow
    BY <1>7 DEF NextWindow, TakeWindow, CanLock, pcm, MustWait, Ready
<1>8. CASE SlideCommitted
    <2>1. wpc = "classify" /\ wpc' = "send" /\ UNCHANGED <<wakeup, since>>
        BY <1>8 DEF SlideCommitted
    <2>2. CASE UNCHANGED bufVars
        BY <2>1, <2>2 DEF bufVars, pcm, MustWait, Ready
    <2>3. CASE Slide(committed - Keep)
        BY <2>1, <2>3 DEF Slide, Broadcast, pcm, MustWait, Ready
    <2> QED
        BY <1>8, <2>2, <2>3 DEF SlideCommitted
<1>9. CASE UNCHANGED <<bufVars, wakeup>> /\ (UNCHANGED <<wpc, since>> \/ wpc # "next")
    BY <1>9 DEF bufVars, pcm, MustWait, Ready
<1> QED
    BY <1>1, <1>2, <1>3, <1>4, <1>5, <1>6, <1>7, <1>8, <1>9 DEF Next, Worker, WriteCall,
       CloseSendCall, CloseFree, Recv, TranscribeOK, TranscribeFails, ClassifySegment,
       SendResult, SendCanceled, SendsDone, CloseResults, WgDone, Terminated, vars, workVars

LEMMA ParkInvariant == Spec => [](Core /\ ParkInv)
<1>1. Core /\ ParkInv /\ [Next]_vars => (Core /\ ParkInv)'
    BY CoreStep, ParkStep
<1> QED
    BY <1>1, CoreInit, ParkInit, PTL DEF Spec

\* NO LOST WAKEUP.  For every configuration, whoever is parked has to be, or the
\* broadcast after a cancel is on its way, although ctx is cancelled without the
\* mutex (stream_buffer.go newStreamBuffer, write, closeSend, nextWindow, slide).
THEOREM WakeupsAreNotLost == Spec => []NoLostWakeup
<1>1. ParkInv => NoLostWakeup
    BY DEF ParkInv
<1> QED
    BY <1>1, ParkInvariant, PTL

-----------------------------------------------------------------------------
(* The room a window leaves. *)

LEMMA Types ==
    ASSUME Core
    PROVE  /\ Step \in Nat /\ Window \in Nat /\ Keep \in Nat
           /\ CommitLag \in Nat /\ SampleTicks \in Nat
           /\ Step > 0 /\ SampleTicks > 0
           /\ start \in Nat /\ consumed \in Nat /\ since \in Nat /\ committed \in Nat
           /\ win \in Windows /\ win.start \in Nat /\ segs \in Seq(Nat)
           /\ start <= consumed /\ committed <= since /\ since <= consumed
<1>1. CommitLag \in Nat /\ SampleTicks \in Nat \ {0}
    BY StreamAssumption, SampleTicksAssumption
<1>2. start <= consumed
    BY StartConsumed DEF Core, BufInv
<1> QED
    BY <1>1, <1>2, ConfigFacts DEF Core, Marks, TypeOK, BufTypeOK, Windows

LEMMA BacklogFacts ==
    ASSUME Core
    PROVE  Backlog \in Nat /\ Backlog = Keep + (Keep + (CommitLag + SampleTicks))
<1>1. 2 * Keep = Keep + Keep
    BY Types
<1> QED
    BY <1>1, Types DEF Backlog

LEMMA Reach ==
    ASSUME NEW x \in Nat, NEW a \in Nat, NEW c \in Nat, NEW k \in Nat, NEW s \in Nat
    PROVE  /\ x - k < a + s /\ a <= c => x < c + k + s
           /\ \A b \in Nat : x < a + k + s /\ k + s <= b /\ a <= c => x < c + b
OBVIOUS

LEMMA NoRoomLeft ==
    ASSUME NEW x \in Nat, NEW c \in Nat, NEW t \in Nat,
           NEW p \in Nat, NEW w \in Nat, NEW b \in Nat,
           t < x + b, c < t + p, x + w <= c, p + b <= w + 1
    PROVE  FALSE
OBVIOUS

LEMMA RoomInit == Init => RoomInv
<1> SUFFICES ASSUME Init PROVE RoomInv
    OBVIOUS
<1>1. Backlog \in Nat /\ Backlog > 0
    BY CoreInit, BacklogFacts, Types
<1> QED
    BY <1>1 DEF Init, BufInit, RoomInv, Open, Slid

\* A window is taken; one without samples leaves nothing behind it.
LEMMA TakeLeavesRoom ==
    ASSUME Core, NextWindow
    PROVE  RoomInv'
<1>1. /\ win' \in TrailingWindows /\ since' = consumed
      /\ start' = start /\ consumed' = consumed
      /\ wpc' = IF win'.len > 0 THEN "infer" ELSE IF closed THEN "closeResults" ELSE "next"
    BY DEF NextWindow, TakeWindow, pcm
<1>2. win'.start = start \/ win'.start = consumed - Window
    BY <1>1, WindowIsTail DEF Core
<1>3. ~(win'.len > 0) => start = consumed
    BY <1>1, EmptyWindow DEF Core
<1>4. /\ start \in Nat /\ consumed \in Nat /\ Window \in Nat
      /\ Backlog \in Nat /\ Backlog > 0
    BY Types, BacklogFacts
<1>5. wpc' \notin {"classify", "send"}
    BY <1>1
<1>6. wpc' = "next" => ~(win'.len > 0)
    BY <1>1
<1>7. start = consumed => Slid'
    <2>1. consumed < consumed + Backlog
        BY <1>4
    <2> QED
        BY <1>1, <2>1 DEF Slid, Backlog
<1>8. win'.start <= start' \/ since' = win'.start + Window
    <2>1. CASE win'.start = start
        BY <1>1, <1>4, <2>1
    <2>2. CASE win'.start = consumed - Window
        BY <1>1, <1>4, <2>2
    <2> QED
        BY <1>2, <2>1, <2>2
<1> QED
    BY <1>3, <1>5, <1>6, <1>7, <1>8 DEF RoomInv, Open

\* whisper ends a segment near commitBefore.
LEMMA TranscriptCommits ==
    ASSUME Core, RoomInv, Roomy, TranscribeOK
    PROVE  RoomInv'
<1>1. /\ wpc = "infer" /\ wpc' = "classify" /\ segs' \in Transcripts(win)
      /\ UNCHANGED <<start, since, win, committed>>
    BY DEF TranscribeOK, bufVars, pcm
<1>2. EndsNearCommit(win, segs')
    BY <1>1 DEF Transcripts, Roomy
<1>3. ~win.closed => CommitBefore(win) = since - Keep
    BY <1>1 DEF Core, Marks, CommitBefore
<1>4. ASSUME ~win.closed PROVE (Committed \/ WillCommit)'
    <2>1. CASE CommitBefore(win) - win.start < CommitLag
        BY <1>1, <1>3, <1>4, <2>1, Types DEF Committed
    <2>2. ASSUME NEW i \in DOMAIN segs',
                 AbsEnd(win, segs'[i]) <= CommitBefore(win),
                 AbsEnd(win, segs'[i]) > CommitBefore(win) - CommitLag
          PROVE  WillCommit'
        <3>1. segs' \in Seq(Nat)
            BY <1>1, TranscriptType, Types
        <3>2. AbsEnd(win, segs'[i]) \in Nat
            BY <3>1, <2>2, Types DEF AbsEnd
        <3> QED
            BY <1>1, <1>3, <1>4, <2>2, <3>2, Types DEF WillCommit, AbsEnd
    <2> QED
        BY <1>2, <2>1, <2>2 DEF EndsNearCommit
<1> QED
    BY <1>1, <1>4 DEF RoomInv, Open

\* What one turn of classifyWindow makes of the commit that is to come.
LEMMA ClassifyCommits ==
    ASSUME Core, RoomInv, ClassifySegment
    PROVE  RoomInv'
<1>1. /\ wpc = "classify" /\ segs # <<>> /\ segs' = Tail(segs)
      /\ UNCHANGED <<wpc, start, since, win>>
    BY DEF ClassifySegment, bufVars, pcm
<1>2. committed' \in Nat /\ committed <= committed'
    BY ClassifyStep DEF Core
<1>3. ~win.closed => CommitBefore(win) = since - Keep
    BY <1>1 DEF Core, Marks, CommitBefore
<1>4. ASSUME ~win.closed PROVE (Committed \/ WillCommit)'
    <2>1. CASE Committed
        BY <1>1, <1>2, <2>1, Types DEF Committed
    <2>2. ASSUME NEW i \in DOMAIN segs,
                 AbsEnd(win, segs[i]) <= since - Keep,
                 since - Keep < AbsEnd(win, segs[i]) + CommitLag
          PROVE  (Committed \/ WillCommit)'
        <3>1. segs \in Seq(Nat) /\ DOMAIN segs = 1..Len(segs) /\ i \in 1..Len(segs)
            BY <2>2, Types
        <3>2. CASE i = 1
            <4>1. Head(segs) = segs[i]
                BY <1>1, <3>1, <3>2
            <4>2. AbsEnd(win, segs[i]) \in Nat
                <5>1. segs[i] \in Nat
                    BY <3>1
                <5>2. win.start \in Nat
                    BY Types
                <5> QED
                    BY <5>1, <5>2 DEF AbsEnd
            <4> DEFINE a == AbsEnd(win, segs[i])
            <4>3. a <= committed'
                <5>1. committed' = IF Verdict(a, committed, CommitBefore(win)) = "final"
                                   THEN a ELSE committed
                    BY <4>1 DEF ClassifySegment
                <5>2. a <= CommitBefore(win)
                    BY <1>3, <1>4, <2>2
                <5> HIDE DEF a
                <5>3. CASE a <= committed
                    BY <1>2, <4>2, <5>3, Types DEF a
                <5>4. CASE ~(a <= committed)
                    BY <4>2, <5>1, <5>2, <5>4 DEF Verdict, a
                <5> QED
                    BY <5>3, <5>4
            <4>4. since - Keep < a + CommitLag /\ a \in Nat
                BY <2>2, <4>2
            <4> HIDE DEF a
            <4>5. since < committed' + Keep + CommitLag
                BY <1>2, <4>3, <4>4, Types, Reach
            <4> QED
                BY <1>1, <4>5 DEF Committed
        <3>3. CASE i # 1
            <4>1. i - 1 \in 1..Len(segs')  /\ segs'[i - 1] = segs[i]
                BY <1>1, <3>1, <3>3
            <4>2. DOMAIN segs' = 1..Len(segs')
                BY <1>1, <3>1
            <4> QED
                BY <1>1, <2>2, <4>1, <4>2 DEF WillCommit, AbsEnd
        <3> QED
            BY <3>2, <3>3
    <2> QED
        BY <1>1, <1>4, <2>1, <2>2 DEF RoomInv, Open, WillCommit
<1> QED
    BY <1>1, <1>4 DEF RoomInv, Open

\* The slide after the last segment.
LEMMA SlideLeavesRoom ==
    ASSUME Core, RoomInv, Roomy, SlideCommitted
    PROVE  RoomInv'
<1>1. /\ wpc = "classify" /\ segs = <<>> /\ wpc' = "send"
      /\ UNCHANGED <<consumed, since, win, committed>>
    BY DEF SlideCommitted, Slide, bufVars, pcm
<1>2. start' \in Nat /\ start <= start'
    <2>1. committed > Keep => committed - Keep \in 0..consumed
        BY Types
    <2>2. [BufNext]_bufVars
        BY <2>1 DEF SlideCommitted, BufNext
    <2> QED
        BY <2>2, StartGrows DEF Core
<1>3. ASSUME ~win.closed PROVE Slid'
    <2>1. Committed
        BY <1>1, <1>3 DEF RoomInv, Open, WillCommit
    <2>2. CASE since < win.start + Keep + CommitLag
        <3>1. win.start <= start
            <4>1. win.start <= start \/ since = win.start + Window
                BY <1>1, <1>3 DEF RoomInv, Open
            <4>2. Keep + CommitLag < Window
                BY Types, BacklogFacts DEF Roomy
            <4>3. since # win.start + Window
                BY <2>2, <4>2, Types
            <4> QED
                BY <4>1, <4>3
        <3>2. since < start + Keep + CommitLag
            BY <2>2, <3>1, Types
        <3>3. Keep + CommitLag <= Backlog
            BY Types, BacklogFacts
        <3>4. since < start' + Backlog
            BY <1>2, <3>2, <3>3, Types, BacklogFacts, Reach
        <3> QED
            BY <1>1, <3>4 DEF Slid
    <2>3. CASE since < committed + Keep + CommitLag
        <3>1. committed <= start' + Keep + SampleTicks \/ start' = consumed
            <4>1. CASE committed > Keep
                <5>1. committed - Keep \in Nat /\ Slide(committed - Keep)
                    BY <4>1, Types DEF SlideCommitted
                <5>2. \/ committed - Keep <= start' + SampleTicks
                      \/ start' = consumed
                    BY <5>1, SlideReaches DEF Core
                <5> QED
                    BY <1>2, <5>2, Types
            <4>2. CASE ~(committed > Keep)
                BY <1>2, <4>2, Types
            <4> QED
                BY <4>1, <4>2
        <3>2. CASE committed <= start' + Keep + SampleTicks
            <4> DEFINE c == start' + Keep + SampleTicks
            <4>0. c \in Nat
                BY <1>2, Types
            <4> HIDE DEF c
            <4>1. since < c + Keep + CommitLag
                <5>1. committed <= c
                    BY <3>2 DEF c
                <5> QED
                    BY <2>3, <4>0, <5>1, Types
            <4>2. c + Keep + CommitLag = start' + (Keep + (Keep + (CommitLag + SampleTicks)))
                BY <1>2, Types DEF c
            <4> QED
                BY <1>1, <4>1, <4>2, BacklogFacts DEF Slid
        <3>3. CASE start' = consumed
            <4>1. Backlog > 0
                BY BacklogFacts, Types
            <4> QED
                BY <1>1, <3>3, <4>1, BacklogFacts, Types DEF Slid
        <3> QED
            BY <3>1, <3>2, <3>3
    <2> QED
        BY <2>1, <2>2, <2>3 DEF Committed
<1>4. ~win.closed => win.start <= start' \/ since = win.start + Window
    BY <1>1, <1>2, Types DEF RoomInv, Open
<1> QED
    BY <1>1, <1>3, <1>4 DEF RoomInv, Open

LEMMA RoomStep ==
    ASSUME Core, RoomInv, Roomy, [Next]_vars
    PROVE  RoomInv'
<1>1. start' \in Nat /\ start <= start'
    BY StepIsBufferStep, StartGrows DEF Core
<1>2. CASE NextWindow
    BY <1>2, TakeLeavesRoom
<1>3. CASE TranscribeOK
    BY <1>3, TranscriptCommits
<1>4. CASE ClassifySegment
    BY <1>4, ClassifyCommits
<1>5. CASE SlideCommitted
    BY <1>5, SlideLeavesRoom
<1>6. CASE SendsDone
    <2>1. UNCHANGED <<start, since>> /\ wpc = "send"
          /\ wpc' = IF win.closed THEN "closeResults" ELSE "next"
        BY <1>6 DEF SendsDone, bufVars, pcm
    <2> QED
        BY <2>1 DEF RoomInv, Open, Slid
<1>7. CASE UNCHANGED <<wpc, since, win, segs, committed>>
    <2>1. Slid => Slid'
        BY <1>1, <1>7, Types, BacklogFacts DEF Slid
    <2>2. Committed \/ WillCommit => (Committed \/ WillCommit)'
        BY <1>7 DEF Committed, WillCommit, AbsEnd
    <2>3. win.start <= start => win.start <= start'
        BY <1>1, Types
    <2> QED
        BY <1>7, <2>1, <2>2, <2>3 DEF RoomInv, Open
<1>8. CASE wpc' \in {"closeResults", "cancel", "wgDone", "done"}
    BY <1>8 DEF RoomInv, Open
<1> QED
    BY <1>2, <1>3, <1>4, <1>5, <1>6, <1>7, <1>8 DEF Next, Worker, WriteCall, Producer,
       CloseSendCall, CloseSendBuffer, CloseCall, CloseFree, Recv, ParentCancel, Wakeup,
       NextWindowBlocks, NextWindowFails, TranscribeFails, Exit, SendResult, SendCanceled,
       CloseResults, WorkerCancel, WgDone, Terminated, vars, workVars

\* NO STANDOFF.  While no segment is longer than what a window has room for besides a
\* step and two overlaps, writer and worker are both parked only after a cancel, for
\* every length of segment and every setting.  Longer segments, or silence, can stop
\* both: StreamClaims shows it (stream.go newStream's comment on blockCap).
THEOREM NeverStandOff == Roomy => (Spec => []NoStandoff)
<1> DEFINE IInv == Core /\ RoomInv /\ ParkInv
<1> SUFFICES ASSUME Roomy PROVE Spec => []NoStandoff
    OBVIOUS
<1>1. Init => IInv
    BY CoreInit, RoomInit, ParkInit
<1>2. IInv /\ [Next]_vars => IInv'
    <2> SUFFICES ASSUME IInv, [Next]_vars PROVE IInv'
        OBVIOUS
    <2> QED
        BY CoreStep, RoomStep, ParkStep
<1>3. IInv => NoStandoff
    <2> SUFFICES ASSUME IInv, Goroutines \subseteq waiters, ~ctxDone PROVE FALSE
        BY DEF NoStandoff, Core, TypeOK, BufTypeOK
    <2>1. consumed - start >= Window /\ wpc = "next" /\ consumed - since < Step
        <3>1. MustWait /\ ~Ready(since) /\ wpc = "next"
            BY DEF ParkInv, NoLostWakeup, Waits, WakeupToCome, Goroutines
        <3> QED
            BY <3>1, Types DEF MustWait, Ready, BlockCap
    <2>2. since < start + Backlog
        BY <2>1 DEF RoomInv, Slid
    <2>3. Step + Backlog <= Window + 1
        BY DEF Roomy
    <2>4. consumed < since + Step /\ start + Window <= consumed
        BY <2>1, Types
    <2>5. /\ start \in Nat /\ consumed \in Nat /\ since \in Nat
          /\ Step \in Nat /\ Window \in Nat /\ Backlog \in Nat
        BY Types, BacklogFacts
    <2> QED
        BY <2>2, <2>3, <2>4, <2>5, NoRoomLeft
<1> HIDE DEF IInv
<1> QED
    BY <1>1, <1>2, <1>3, PTL DEF Spec

-----------------------------------------------------------------------------
(* An ending stream nears its end. *)

\* StepsLeft, place by place.
LEMMA StepsLeftAt ==
    ASSUME NEW n, NEW m, NEW last, NEW t
    PROVE  LET more == IF last THEN 0 ELSE 4 + 2 * MaxSegs
           IN  /\ StepsLeft("next", n, m, last, t) = LoopLeft + t
               /\ StepsLeft("infer", n, m, last, t) = 6 + 2 * MaxSegs + more
               /\ StepsLeft("classify", n, m, last, t) = 5 + 2 * n + m + more
               /\ StepsLeft("send", n, m, last, t) = 4 + m + more
               /\ StepsLeft("closeResults", n, m, last, t) = 3
               /\ StepsLeft("cancel", n, m, last, t) = 2
               /\ StepsLeft("wgDone", n, m, last, t) = 1
               /\ StepsLeft("done", n, m, last, t) = 0
BY DEF StepsLeft

LEMMA WorkLeftType ==
    ASSUME Core
    PROVE  WorkLeft \in Nat
<1> DEFINE l == Len(segs)   p == Len(pending)   t == ToWake("worker")
           more == IF win.closed THEN 0 ELSE 4 + 2 * MaxSegs
<1>1. l \in Nat /\ p \in Nat /\ t \in Nat /\ MaxSegs \in Nat /\ wpc \in WorkerPCs
    BY StreamAssumption DEF Core, TypeOK, ToWake
<1>2. LoopLeft \in Nat /\ 2 * MaxSegs \in Nat /\ 2 * l \in Nat /\ more \in Nat
    BY <1>1 DEF LoopLeft
<1>3. /\ wpc = "next" => WorkLeft = LoopLeft + t
      /\ wpc = "infer" => WorkLeft = 6 + 2 * MaxSegs + more
      /\ wpc = "classify" => WorkLeft = 5 + 2 * l + p + more
      /\ wpc = "send" => WorkLeft = 4 + p + more
      /\ wpc = "closeResults" => WorkLeft = 3
      /\ wpc = "cancel" => WorkLeft = 2
      /\ wpc = "wgDone" => WorkLeft = 1
      /\ wpc = "done" => WorkLeft = 0
    BY StepsLeftAt DEF WorkLeft
<1> HIDE DEF l, p, t, more
<1> QED
    BY <1>1, <1>2, <1>3 DEF WorkerPCs

\* Nobody but the worker brings the worker closer to Wait.
LEMMA OthersWake ==
    ASSUME Core, [Next]_vars, ~Worker
    PROVE  ToWake("worker")' <= ToWake("worker") /\ UNCHANGED <<wpc, segs, pending, win>>
<1> USE DEF ToWake
<1>1. CASE Producer
    <2>1. UNCHANGED <<wpc, segs, pending, win>>
        BY <1>1 DEF Producer, workVars
    <2>2. CASE WriteWait \/ Park("producer")
        BY <2>1, <2>2 DEF WriteWait, HoldToPark, CanLock, Park
    <2>3. CASE WriteAppend(chunk) \/ WriteRefused
        BY <2>1, <2>3 DEF WriteAppend, WriteRefused, Broadcast, bufVars
    <2> QED
        BY <1>1, <2>2, <2>3 DEF Producer
<1>2. CASE CloseSendBuffer \/ Wakeup
    BY <1>2 DEF CloseSendBuffer, CloseSend, Wakeup, WakeWaiters, Broadcast, workVars
<1>3. CASE CloseCall \/ ParentCancel
    BY <1>3 DEF CloseCall, ParentCancel, Cancel, workVars
<1>4. CASE UNCHANGED <<bufVars, workVars>>
    BY <1>4 DEF bufVars, workVars
<1> QED
    BY <1>1, <1>2, <1>3, <1>4 DEF Next, WriteCall, CloseSendCall, CloseFree, Recv,
       Terminated, vars

\* Each step of the worker brings it nearer to its return.
LEMMA WorkerAdvances ==
    ASSUME Core, EndInv, ParkInv, Ending, Worker
    PROVE  WorkLeft' < WorkLeft /\ WorkLeft' <= WorkLeft
<1> DEFINE l == Len(segs)   p == Len(pending)   t == ToWake("worker")
<1>1. /\ l \in Nat /\ p \in Nat /\ t \in Nat /\ MaxSegs \in Nat
      /\ segs \in Seq(Nat) /\ pending \in Seq(Result) /\ win \in Windows
    BY StreamAssumption DEF Core, TypeOK, ToWake
<1>2. /\ 2 * MaxSegs = MaxSegs + MaxSegs /\ LoopLeft = 7 + (MaxSegs + MaxSegs)
      /\ 2 * l = l + l
    BY <1>1 DEF LoopLeft
<1>3. t' \in Nat
    BY DEF ToWake
<1> DEFINE more(last) == IF last THEN 0 ELSE 4 + (MaxSegs + MaxSegs)
<1>4. more(win.closed) \in Nat
    BY <1>1
<1>5. /\ wpc = "next" => WorkLeft = 7 + (MaxSegs + MaxSegs) + t
      /\ wpc = "infer" => WorkLeft = 6 + (MaxSegs + MaxSegs) + more(win.closed)
      /\ wpc = "classify" => WorkLeft = 5 + (l + l) + p + more(win.closed)
      /\ wpc = "send" => WorkLeft = 4 + p + more(win.closed)
      /\ wpc = "closeResults" => WorkLeft = 3
      /\ wpc = "cancel" => WorkLeft = 2
      /\ wpc = "wgDone" => WorkLeft = 1
    BY <1>2, StepsLeftAt DEF WorkLeft
<1>6. /\ wpc' = "next" => WorkLeft' = 7 + (MaxSegs + MaxSegs) + t'
      /\ wpc' = "infer" => WorkLeft' = 6 + (MaxSegs + MaxSegs) + more(win'.closed)
      /\ wpc' = "classify" => WorkLeft' = 5 + 2 * Len(segs') + Len(pending') + more(win'.closed)
      /\ wpc' = "send" => WorkLeft' = 4 + Len(pending') + more(win'.closed)
      /\ wpc' = "closeResults" => WorkLeft' = 3
      /\ wpc' = "cancel" => WorkLeft' = 2
      /\ wpc' = "wgDone" => WorkLeft' = 1
      /\ wpc' = "done" => WorkLeft' = 0
    BY <1>2, StepsLeftAt DEF WorkLeft
<1>7. CASE NextWindowBlocks
    <2>1. ~NextWindowWait(since)
        BY DEF NextWindowWait, Ready, Ending
    <2>2. wpc = "next" /\ Park("worker") /\ UNCHANGED wpc
        BY <1>7, <2>1 DEF NextWindowBlocks, workVars
    <2>3. t = 2 /\ t' = 1
        BY <2>2 DEF Park, ToWake
    <2> QED
        BY <1>1, <1>5, <1>6, <2>2, <2>3
<1>8. CASE NextWindowFails
    <2>1. wpc = "next" /\ wpc' = "closeResults"
        BY <1>8 DEF NextWindowFails, Exit
    <2> QED
        BY <1>1, <1>5, <1>6, <2>1
<1>9. CASE NextWindow
    <2>1. wpc = "next" /\ closed /\ wpc' \in {"infer", "closeResults"}
        BY <1>9 DEF NextWindow, TakeWindow, Ending
    <2>2. win'.closed = closed
        BY <1>9 DEF NextWindow, TrailingWindows
    <2>3. more(win'.closed) = 0
        BY <2>1, <2>2
    <2> QED
        BY <1>1, <1>5, <1>6, <2>1, <2>3
<1>10. CASE TranscribeOK
    <2>1. /\ wpc = "infer" /\ wpc' = "classify" /\ segs' \in Transcripts(win)
          /\ UNCHANGED <<win, pending>>
        BY <1>10 DEF TranscribeOK
    <2>2. segs' \in Seq(Nat) /\ Len(segs') \in Nat /\ Len(segs') <= MaxSegs
        BY <1>1, <2>1, TranscriptType, TranscriptLength
    <2>3. Len(pending') = 0
        BY <2>1 DEF EndInv
    <2>4. 2 * Len(segs') = Len(segs') + Len(segs')
        BY <2>2
    <2>5. more(win'.closed) = more(win.closed)
        BY <2>1
    <2> HIDE DEF more
    <2> QED
        BY <1>1, <1>4, <1>5, <1>6, <2>1, <2>2, <2>3, <2>4, <2>5
<1>11. CASE TranscribeFails \/ SendCanceled
    <2>1. wpc \in {"infer", "send"} /\ wpc' = "closeResults"
        BY <1>11 DEF TranscribeFails, SendCanceled, Exit
    <2> HIDE DEF more
    <2> QED
        BY <1>1, <1>4, <1>5, <1>6, <2>1
<1>12. CASE ClassifySegment
    <2>1. /\ wpc = "classify" /\ wpc' = "classify" /\ segs # <<>> /\ segs' = Tail(segs)
          /\ UNCHANGED win /\ pending' \in Seq(Result)
        BY <1>12, ClassifyStep DEF ClassifySegment, Core
    <2>2. Len(segs') = l - 1 /\ l > 0 /\ 2 * Len(segs') = (l - 1) + (l - 1)
        BY <1>1, <2>1
    <2>3. Len(pending') \in {p, p + 1}
        BY <1>1, <1>12 DEF ClassifySegment
    <2>4. more(win'.closed) = more(win.closed)
        BY <2>1
    <2> HIDE DEF more, l, p
    <2> QED
        BY <1>1, <1>4, <1>5, <1>6, <2>1, <2>2, <2>3, <2>4
<1>13. CASE SlideCommitted
    <2>1. /\ wpc = "classify" /\ wpc' = "send" /\ segs = <<>>
          /\ UNCHANGED <<win, pending>>
        BY <1>13 DEF SlideCommitted
    <2>2. l = 0 /\ Len(pending') = p /\ more(win'.closed) = more(win.closed)
        BY <2>1
    <2> HIDE DEF more, l, p
    <2> QED
        BY <1>1, <1>4, <1>5, <1>6, <2>1, <2>2
<1>14. CASE SendResult
    <2>1. /\ wpc = "send" /\ wpc' = "send" /\ pending # <<>> /\ pending' = Tail(pending)
          /\ UNCHANGED win
        BY <1>14 DEF SendResult
    <2>2. Len(pending') = p - 1 /\ more(win'.closed) = more(win.closed)
        BY <1>1, <2>1
    <2> HIDE DEF more, l, p
    <2> QED
        BY <1>1, <1>4, <1>5, <1>6, <2>1, <2>2
<1>15. CASE SendsDone
    <2>1. /\ wpc = "send" /\ pending = <<>> /\ UNCHANGED bufVars
          /\ wpc' = IF win.closed THEN "closeResults" ELSE "next"
        BY <1>15 DEF SendsDone
    <2>2. p = 0
        BY <2>1
    <2>3. t' = 0
        BY <2>1 DEF ParkInv, Waits, ToWake, bufVars
    <2> HIDE DEF l, p, t
    <2> QED
        BY <1>1, <1>5, <1>6, <2>1, <2>2, <2>3
<1>16. CASE CloseResults \/ WorkerCancel \/ WgDone
    BY <1>5, <1>6, <1>16 DEF CloseResults, WorkerCancel, WgDone
<1> QED
    BY <1>7, <1>8, <1>9, <1>10, <1>11, <1>12, <1>13, <1>14, <1>15, <1>16 DEF Worker

\* After a cancel a Write that is under way nears its return, and none is begun.
LEMMA WriterAdvances ==
    ASSUME [Next]_vars, ctxDone
    PROVE  /\ ctxDone' /\ WriteLeft' <= WriteLeft
           /\ Producer => WriteLeft' < WriteLeft
<1> USE DEF WriteLeft, ToWake
<1>1. CASE Producer
    <2>1. Park("producer") \/ WriteRefused
        BY <1>1 DEF Producer, WriteWait, MustWait, WriteAppend
    <2>2. CASE Park("producer")
        <3>1. UNCHANGED ppc
            BY <1>1, <2>2 DEF Producer, WriteAppend, WriteRefused, CanLock, Park, WriteReturns,
               prodVars
        <3> QED
            BY <1>1, <2>2, <3>1 DEF Producer, Park
    <2>3. CASE WriteRefused
        <3>1. ~Park("producer") /\ ~WriteWait
            BY <2>3 DEF WriteRefused, CanLock, Park, WriteWait, MustWait
        <3>2. ppc = "write" /\ ppc' = "idle"
            BY <1>1, <3>1 DEF Producer, WriteReturns
        <3>3. mu # "producer" /\ ctxDone'
            BY <2>3 DEF WriteRefused, CanLock, bufVars
        <3> QED
            BY <3>2, <3>3
    <2> QED
        BY <2>1, <2>2, <2>3
<1>2. CASE ~Producer
    <2> SUFFICES ctxDone' /\ WriteLeft' <= WriteLeft
        BY <1>2
    <2>1. ~\E n \in ChunkSizes : WriteCall(n)
        BY DEF WriteCall
    <2>2. CASE CloseSendBuffer \/ Wakeup
        <3>1. CASE CloseSendBuffer
            <4>1. ppc' = ppc /\ mu' = mu /\ ctxDone' = ctxDone /\ waiters' = {}
                BY <3>1 DEF CloseSendBuffer, CloseSend, Broadcast, prodVars
            <4> QED
                BY <4>1
        <3>2. CASE Wakeup
            <4>1. ppc' = ppc /\ mu' = mu /\ ctxDone' = ctxDone /\ waiters' = {}
                BY <3>2 DEF Wakeup, WakeWaiters, Broadcast, prodVars
            <4> QED
                BY <4>1
        <3> QED
            BY <2>2, <3>1, <3>2
    <2>3. CASE CloseCall \/ ParentCancel \/ WorkerCancel
        BY <2>3 DEF CloseCall, ParentCancel, WorkerCancel, Cancel, prodVars
    <2>4. CASE NextWindowBlocks
        BY <2>4 DEF NextWindowBlocks, NextWindowWait, Park, prodVars
    <2>5. CASE NextWindow
        BY <2>5 DEF NextWindow, TakeWindow, prodVars
    <2>6. CASE SlideCommitted
        <3>1. ppc' = ppc /\ mu' = mu /\ ctxDone' = ctxDone
            BY <2>6 DEF SlideCommitted, Slide, bufVars, prodVars
        <3>2. waiters' = waiters \/ waiters' = {}
            BY <2>6 DEF SlideCommitted, Slide, Broadcast, bufVars
        <3> QED
            BY <3>1, <3>2
    <2>7. CASE UNCHANGED <<bufVars, prodVars>>
        BY <2>7 DEF bufVars, prodVars
    <2> QED
        BY <1>2, <2>1, <2>2, <2>3, <2>4, <2>5, <2>6, <2>7 DEF Next, Worker, CloseSendCall,
           CloseFree, Recv, NextWindowFails, NextWindowCanceled, TranscribeOK,
           TranscribeFails, ClassifySegment, SendResult, SendCanceled, SendsDone,
           CloseResults, WgDone, Terminated, vars
<1> QED
    BY <1>1, <1>2

\* ENDING ADVANCES.  From CloseSend or a cancel on, each step of the worker brings it
\* nearer to its return and nobody's sets it back; the same for a Write from a cancel
\* on.  It is the variant argument of CloseReturns, FlushEnds and
\* CancelUnblocksWrite: all that is left to fairness is that steps are taken
\* (stream.go run and Close, stream_buffer.go write).
THEOREM EndingOnlyAdvances == Spec => EndingAdvances
<1> DEFINE IInv == Core /\ EndInv /\ ParkInv
           A == /\ Ending => Ending' /\ WorkLeft' <= WorkLeft
                /\ Ending /\ Worker => WorkLeft' < WorkLeft
                /\ ctxDone => ctxDone' /\ WriteLeft' <= WriteLeft
                /\ ctxDone /\ Producer => WriteLeft' < WriteLeft
<1>1. Spec => []IInv
    BY EndInvariant, ParkInvariant, PTL
<1>2. IInv /\ [Next]_vars => [A]_vars
    <2> SUFFICES ASSUME IInv, [Next]_vars PROVE A
        OBVIOUS
    <2>1. Ending => Ending'
        BY StepIsBufferStep, ClosedIsFinal, WriterAdvances DEF Ending
    <2>2. CASE Worker
        <3>1. Ending => WorkLeft' < WorkLeft /\ WorkLeft' <= WorkLeft
            BY <2>2, WorkerAdvances
        <3> QED
            BY <2>1, <3>1, WriterAdvances
    <2>3. CASE ~Worker
        <3>1. WorkLeft' <= WorkLeft
            <4>1. /\ ToWake("worker")' <= ToWake("worker")
                  /\ wpc' = wpc /\ Len(segs)' = Len(segs) /\ Len(pending)' = Len(pending)
                  /\ win'.closed = win.closed
                BY <2>3, OthersWake
            <4>2. CASE wpc = "next"
                <5>1. /\ WorkLeft = LoopLeft + ToWake("worker")
                      /\ WorkLeft' = LoopLeft + ToWake("worker")'
                    BY <4>1, <4>2, StepsLeftAt DEF WorkLeft
                <5>2. LoopLeft \in Nat /\ ToWake("worker") \in Nat /\ ToWake("worker")' \in Nat
                    BY StreamAssumption DEF LoopLeft, ToWake
                <5> QED
                    BY <4>1, <5>1, <5>2
            <4>3. CASE wpc # "next"
                <5>1. WorkLeft' = WorkLeft
                    BY <4>1, <4>3 DEF WorkLeft, StepsLeft
                <5> QED
                    BY <5>1, WorkLeftType
            <4> QED
                BY <4>2, <4>3
        <3> QED
            BY <2>1, <2>3, <3>1, WriterAdvances
    <2> QED
        BY <2>2, <2>3
<1>3. Spec => [][A]_vars
    <2> HIDE DEF IInv, A
    <2> QED
        BY <1>1, <1>2, PTL DEF Spec
<1> QED
    BY <1>3 DEF EndingAdvances

=============================================================================
