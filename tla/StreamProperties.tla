-------------------------- MODULE StreamProperties --------------------------
(***************************************************************************)
(* What makes a Stream correct: safety invariants, the fairness its         *)
(* goroutines have, and what must eventually happen under it.               *)
(***************************************************************************)
EXTENDS Stream

WorkingOnWindow == win # NoWindow

\* The audio handed to whisper is what it is said to be: the first sample of a
\* window is less than two sample boundaries from the windowStart every
\* timestamp of the run is added to (stream_buffer.go nextWindow, stream.go run),
\* and the window reaches to consumed, so no sample is lost at its end.
WindowHonest ==
    WorkingOnWindow =>
        /\ DurFor(win.first) <= win.start /\ win.start <= DurFor(win.first + 1)
        /\ DurFor(win.first + win.len) = win.consumed

\* Block mode discards, by slide, only audio at least keep before the end of
\* what has been committed (stream.go run, "slide").
OnlyCommittedDiscarded == BlockCap > 0 => start = 0 \/ start + Keep <= committed

\* Block mode: a window may begin past the overlap and so lose audio, because
\* Write appends a whole chunk once the buffer is below the cap; what it loses
\* is less than one chunk (stream_buffer.go write and nextWindow).
BlockLossBounded ==
    (BlockCap > 0 /\ WorkingOnWindow) =>
        \E n \in ChunkSizes :
            win.start < Greatest(0, committed - Keep) + DurFor(n)

Queue == results \o pending

\* Finals are emitted once and in order, and nothing that is emitted after a
\* final, final or partial, ends where that final already reached.  Once is by the
\* time of the end, as in the code: what begins before that final ended is not held
\* back (stream_window.go classifyWindow over successive overlapping windows).
ResultsFollowFinals ==
    /\ \A i, j \in 1..Len(Queue) :
          i < j /\ Queue[i].final => Queue[i].end < Queue[j].end
    /\ \A i \in 1..Len(Queue) :
          /\ Queue[i].end > delivered
          /\ Queue[i].final => Queue[i].end <= committed

\* A stream that ends without error ends because CloseSend was called, a window has
\* reached to the end of what Write accepted, nothing is accepted later, and every
\* result was sent.  The one exception is a callback that panics with an ErrCanceled
\* on a live ctx: no other error, cancel or race is taken for a clean end (stream.go
\* run's flush and its test for ErrCanceled, stream_buffer.go write).
CleanEOF ==
    resClosed /\ err = "none" /\ ~cutShort =>
        closed /\ since = consumed /\ pending = <<>>

\* The whisper state is not freed under a running inference (stream.go Close).
NoFreeWhileInferring == sessionFreed => wpc = "done"

\* The prompt of the next window is the tail of what was committed: finals only,
\* in order, up to the last one (stream.go appendPrompt).
PromptIsCommitted ==
    /\ committed > 0 <=> prompt # <<>>
    /\ prompt # <<>> => prompt[Len(prompt)] = committed
    /\ \A i \in 1..(Len(prompt) - 1) : prompt[i] < prompt[i + 1]

\* Writer and worker do not wait for each other: they are both parked only
\* after a cancel, when the wakeup goroutine is on its way (stream.go newStream's
\* comment on blockCap).  It takes speech whose segments are short enough
\* (CommitLag) for a window with room for one, a step and two overlaps.
NoStandoff == Goroutines \subseteq waiters => ctxDone

\* g is in b.cond.Wait, or has found that it has to and is on the way there.
Waits(g) == g \in waiters \/ mu = g

WakeupToCome == ctxDone /\ wakeup = "running"

\* No wakeup is lost: whoever waits still has to, or the broadcast that follows a
\* cancel is still to come.  ctx is cancelled without the mutex, one condition
\* variable serves two conditions, and five steps can end a wait
\* (stream_buffer.go write, closeSend, nextWindow, slide, newStreamBuffer).
NoLostWakeup ==
    /\ Waits("producer") => MustWait \/ WakeupToCome
    /\ Waits("worker") => (~Ready(since) /\ ~ctxDone) \/ WakeupToCome

Ending == closed \/ ctxDone

\* From the head of run's loop to its return, through one last window.
LoopLeft == 7 + 2 * MaxSegs

\* The most steps of its own that the worker is from its return, with so many
\* segments to classify, results to send and steps until it is out of Wait.
StepsLeft(pc, toClassify, toSend, last, toWake) ==
    LET window == [infer    |-> 6 + 2 * MaxSegs,
                   classify |-> 5 + 2 * toClassify + toSend,
                   send     |-> 4 + toSend]
        exit   == [closeResults |-> 3, cancel |-> 2, wgDone |-> 1, done |-> 0]
    IN  IF pc = "next" THEN LoopLeft + toWake
        ELSE IF pc \in DOMAIN window
             THEN window[pc] + (IF last THEN 0 ELSE 4 + 2 * MaxSegs)
             ELSE exit[pc]

\* 2 on the way into Wait, 1 in it, 0 out of it.
ToWake(g) == IF mu = g THEN 2 ELSE IF g \in waiters THEN 1 ELSE 0

WorkLeft == StepsLeft(wpc, Len(segs), Len(pending), win.closed, ToWake("worker"))

WriteLeft == IF ppc = "write" THEN 1 + ToWake("producer") ELSE 0

\* Once CloseSend or a cancel has come the worker only ever nears its return: no
\* step of anybody sets it back, so it begins at most one more window and blocks
\* at most once more; the same holds for a Write after a cancel (stream.go run,
\* Close, stream_buffer.go write).
EndingAdvances ==
    [][/\ Ending => Ending' /\ WorkLeft' <= WorkLeft
       /\ Ending /\ Worker => WorkLeft' < WorkLeft
       /\ ctxDone => ctxDone' /\ WriteLeft' <= WriteLeft
       /\ ctxDone /\ Producer => WriteLeft' < WriteLeft]_vars

\* Every step of the stream uses the buffer as a buffer is used.
BufferUsedLegally == BufSpec

\* What a Stream promises its user (StreamService): the marks are those of the
\* buffer, the results due are those run() has still to send.
Service == INSTANCE StreamService WITH
    Capacity <- ChanCap, Lossy <- DropCap > 0,
    accepted <- consumed, heard <- since,
    inputClosed <- closed, canceled <- ctxDone,
    due <- pending, channel <- results, received <- delivered,
    err <- err, cutShort <- cutShort, ended <- resClosed

\* A Stream keeps the promise, whatever whisper returns, however its goroutines
\* interleave and whenever it is closed or cancelled (stream.go, Results, Err).
ImplementsService == Service!Spec

-----------------------------------------------------------------------------
(* A goroutine that can take a step takes one.  Whether anybody calls Write, *)
(* CloseSend, Close or cancel is the callers' choice.  FairSpec leaves the    *)
(* consumer free to stop receiving; DrainedSpec is Results' documented use.   *)
Fairness ==
    /\ WF_vars(Worker)
    /\ WF_vars(Producer)
    /\ WF_vars(CloseSendBuffer)
    /\ WF_vars(CloseFree)
    /\ WF_vars(Wakeup)

FairSpec == Spec /\ Fairness

DrainedSpec == FairSpec /\ WF_vars(Recv)

\* Close returns, whatever the worker was doing and though nobody receives
\* (stream.go Close and the select of run).
CloseReturns == cpc = "wait" ~> cpc = "done"

\* A Write that is blocked when ctx is cancelled returns (stream_buffer.go
\* newStreamBuffer's goroutine; a wakeup that could be lost would break this).
CancelUnblocksWrite == ctxDone /\ ppc = "write" ~> ppc = "idle"

\* The wakeup goroutine does not outlive the worker (docs/BUGS.md B-2).
NoGoroutineLeak == wpc = "done" ~> wakeup = "done"

\* After CloseSend a drained stream closes Results (stream.go CloseSend).
FlushEnds == closed ~> resClosed

\* A Write that blocks is let go again, without cancel or CloseSend.
WriteReturnsEventually == ppc = "write" ~> ppc = "idle"

=============================================================================
