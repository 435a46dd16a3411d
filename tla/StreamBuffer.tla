---------------------------- MODULE StreamBuffer ----------------------------
(***************************************************************************)
(* The monitor between Write and the worker (stream_buffer.go): the PCM     *)
(* buffer, its mutex and its condition variable.                            *)
(*                                                                          *)
(* The samples are numbered from the start of the stream, so the slice pcm  *)
(* is the index of its first sample and its length.  sync.Cond is the set   *)
(* of parked goroutines, which Broadcast empties.  Finding that one has to  *)
(* wait and parking are two steps with mu held in between, because ctx, on  *)
(* which both wait loops depend, is cancelled without mu.  Every other      *)
(* critical section is one step.                                            *)
(***************************************************************************)
EXTENDS SampleClock, StreamConfig

CONSTANT ChunkSizes     \* the lengths of the slices Write is called with

ASSUME ChunkAssumption == ChunkSizes \subseteq Nat \ {0} /\ ChunkSizes # {}

VARIABLES pcmFirst, pcmLen,     \* b.pcm: its first sample and its length
          start, consumed,      \* b.start, b.consumed
          dropped, closed,      \* b.dropped, b.closed
          ctxDone,              \* b.ctx.Err() != nil
          mu,                   \* who holds b.mu across two steps, or "free"
          waiters               \* the goroutines parked in b.cond.Wait

pcm == <<pcmFirst, pcmLen>>
bufVars == <<pcm, start, consumed, dropped, closed, ctxDone, mu, waiters>>

Goroutines == {"producer", "worker"}

BufTypeOK ==
    /\ {pcmFirst, pcmLen, start, consumed} \subseteq Nat
    /\ {dropped, closed, ctxDone} \subseteq BOOLEAN
    /\ mu \in Goroutines \cup {"free"}
    /\ waiters \subseteq Goroutines

BufInit ==
    /\ pcmFirst = 0 /\ pcmLen = 0 /\ start = 0 /\ consumed = 0
    /\ dropped = FALSE /\ closed = FALSE /\ ctxDone = FALSE
    /\ mu = "free" /\ waiters = {}

-----------------------------------------------------------------------------
\* g enters its critical section: mu is free and g is not parked.
CanLock(g) == mu = "free" /\ g \notin waiters

\* b.cond.Wait: park and release mu.
Park(g) ==
    /\ mu = g
    /\ mu' = "free"
    /\ waiters' = waiters \cup {g}
    /\ UNCHANGED <<pcm, start, consumed, dropped, closed, ctxDone>>

\* A wait loop's condition holds: keep mu, Park comes next.
HoldToPark(g) ==
    /\ CanLock(g)
    /\ mu' = g
    /\ UNCHANGED <<pcm, start, consumed, dropped, closed, ctxDone, waiters>>

\* Fault: Signal for Broadcast.
BroadcastMutant ==
    IF waiters = {} THEN UNCHANGED waiters
    ELSE \E g \in waiters : waiters' = waiters \ {g}

Broadcast == waiters' = {}

\* Fault: the slice is re-sliced the wrong way.
TrimFrontMutant(n) ==
    /\ pcmFirst' = pcmFirst - n
    /\ start' = start + DurFor(n)

\* What trimming n samples off the front does to pcm and start.
TrimFront(n) ==
    /\ pcmFirst' = pcmFirst + n
    /\ start' = start + DurFor(n)

-----------------------------------------------------------------------------
\* Fault: the loop tests > for >=.
MustWaitMutant ==
    /\ BlockCap > 0
    /\ consumed - start > BlockCap
    /\ ~closed /\ ~ctxDone

\* write: the loop condition, the two refusals and the append with its trim.
MustWait ==
    /\ BlockCap > 0
    /\ consumed - start >= BlockCap
    /\ ~closed /\ ~ctxDone

WriteWait == MustWait /\ HoldToPark("producer")

WriteRefused == CanLock("producer") /\ (closed \/ ctxDone) /\ UNCHANGED bufVars

\* Fault: the drop cap is checked before the append.
OverfullMutant(n) == DropCap > 0 /\ consumed - start > DropCap

Overfull(n) == DropCap > 0 /\ consumed + DurFor(n) - start > DropCap

\* Fault: closed is not checked again once mu is held.
WriteAppendAfterClose(n) ==
    /\ CanLock("producer")
    /\ ~MustWait /\ ~ctxDone
    /\ consumed' = consumed + DurFor(n)
    /\ pcmLen' = pcmLen + n
    /\ Broadcast
    /\ UNCHANGED <<pcmFirst, start, dropped, closed, ctxDone, mu>>

\* Fault: the append does not broadcast.
WriteAppendSilent(n) ==
    /\ CanLock("producer")
    /\ ~MustWait /\ ~closed /\ ~ctxDone
    /\ consumed' = consumed + DurFor(n)
    /\ pcmLen' = pcmLen + n
    /\ UNCHANGED <<pcmFirst, start, dropped, closed, ctxDone, mu, waiters>>

WriteAppend(n) ==
    /\ CanLock("producer")
    /\ ~MustWait /\ ~closed /\ ~ctxDone
    /\ consumed' = consumed + DurFor(n)
    /\ \E k \in IF Overfull(n)
                THEN SamplesFor(consumed + DurFor(n) - start - DropCap)
                ELSE {0} :
          LET trim == Least(k, pcmLen + n)
          IN  TrimFront(trim) /\ pcmLen' = pcmLen + n - trim
    /\ dropped' = (dropped \/ Overfull(n))
    /\ Broadcast
    /\ UNCHANGED <<closed, ctxDone, mu>>

CloseSend ==
    /\ mu = "free"
    /\ closed' = TRUE
    /\ Broadcast
    /\ UNCHANGED <<pcm, start, consumed, dropped, ctxDone, mu>>

\* Fault: start jumps to newStart though whole samples are trimmed.
SlideToNewStart(newStart) ==
    /\ mu = "free"
    /\ IF newStart <= start
       THEN UNCHANGED <<pcm, start, waiters>>
       ELSE /\ \E k \in SamplesFor(newStart - start) :
                  pcmFirst' = pcmFirst + k /\ pcmLen' = pcmLen - k
            /\ start' = newStart
            /\ Broadcast
    /\ UNCHANGED <<consumed, dropped, closed, ctxDone, mu>>

\* Fault: slide makes room and does not broadcast it.
SlideSilent(newStart) ==
    /\ mu = "free"
    /\ IF newStart <= start
       THEN UNCHANGED <<pcm, start>>
       ELSE \E k \in SamplesFor(newStart - start) :
                LET trim == Least(k, pcmLen)
                IN  TrimFront(trim) /\ pcmLen' = pcmLen - trim
    /\ UNCHANGED <<consumed, dropped, closed, ctxDone, mu, waiters>>

\* slide: drop the audio before newStart.
Slide(newStart) ==
    /\ mu = "free"
    /\ IF newStart <= start
       THEN UNCHANGED <<pcm, start, waiters>>
       ELSE /\ \E k \in SamplesFor(newStart - start) :
                  LET trim == Least(k, pcmLen)
                  IN  TrimFront(trim) /\ pcmLen' = pcmLen - trim
            /\ Broadcast
    /\ UNCHANGED <<consumed, dropped, closed, ctxDone, mu>>

-----------------------------------------------------------------------------
\* Fault: closeSend does not make the last window ready.
ReadyMutant(since) == consumed - since >= Step

\* nextWindow: wait, give up on a cancelled ctx, or return a window.
Ready(since) == closed \/ consumed - since >= Step

NextWindowWait(since) == ~ctxDone /\ ~Ready(since) /\ HoldToPark("worker")

NextWindowCanceled == CanLock("worker") /\ ctxDone /\ UNCHANGED bufVars

\* Fault: the whole buffer is copied, and said to begin at ws.
TrailingWindowsMutant ==
    {[start |-> IF consumed - start > Window THEN consumed - Window ELSE start,
      first |-> pcmFirst, len |-> pcmLen,
      consumed |-> consumed, dropped |-> dropped, closed |-> closed]}

\* The values nextWindow may return: the copied audio is samples first ..
\* first + len - 1, said to begin at start.
TrailingWindows ==
    LET long == consumed - start > Window
        ws   == IF long THEN consumed - Window ELSE start
        offs == IF long THEN {Least(k, pcmLen) : k \in SamplesFor(ws - start)}
                        ELSE {0}
    IN  {[start |-> ws, first |-> pcmFirst + off, len |-> pcmLen - off,
          consumed |-> consumed, dropped |-> dropped, closed |-> closed] :
             off \in offs}

TakeWindow(since) ==
    /\ CanLock("worker")
    /\ ~ctxDone /\ Ready(since)
    /\ dropped' = FALSE
    /\ UNCHANGED <<pcm, start, consumed, closed, ctxDone, mu, waiters>>

\* Fault: the broadcast is sent without mu, and may come before the Wait.
WakeWaitersUnlocked ==
    /\ ctxDone
    /\ Broadcast
    /\ UNCHANGED <<pcm, start, consumed, dropped, closed, ctxDone, mu>>

\* The goroutine newStreamBuffer starts, once ctx.Done() is closed.
WakeWaiters ==
    /\ ctxDone
    /\ mu = "free"
    /\ Broadcast
    /\ UNCHANGED <<pcm, start, consumed, dropped, closed, ctxDone, mu>>

\* Any call of the cancel function, or the end of the parent context.
Cancel ==
    /\ ctxDone' = TRUE
    /\ UNCHANGED <<pcm, start, consumed, dropped, closed, mu, waiters>>

-----------------------------------------------------------------------------
\* The buffer under every legal use: a worker passes a mark it has been given
\* and slides to a time that has been consumed.
BufNext ==
    \/ WriteWait
    \/ WriteRefused
    \/ \E n \in ChunkSizes : WriteAppend(n)
    \/ \E g \in Goroutines : Park(g)
    \/ CloseSend
    \/ \E t \in 0..consumed : NextWindowWait(t) \/ TakeWindow(t) \/ Slide(t)
    \/ NextWindowCanceled
    \/ WakeWaiters
    \/ Cancel

BufSpec == BufInit /\ [][BufNext]_bufVars

\* The buffer holds exactly the samples between its two marks, start and
\* consumed; a trim that moved one without the other would shift every
\* timestamp the stream reports from then on.
Aligned ==
    /\ start = DurFor(pcmFirst)
    /\ consumed = DurFor(pcmFirst + pcmLen)

\* Block mode: Write checks the cap before it appends, so the buffer may exceed
\* blockCap, but by less than one chunk.
BlockBound ==
    BlockCap > 0 => \E n \in ChunkSizes : consumed - start < BlockCap + DurFor(n)

\* Drop mode: after the trim, which may fall short by a sample, the buffer
\* exceeds dropCap by at most one sample.
DropBound == DropCap > 0 => consumed - start <= DropCap + SampleTicks

\* A goroutine that is about to park is not parked already.
HolderRuns == mu \notin waiters

BufInv == BufTypeOK /\ Aligned /\ BlockBound /\ DropBound /\ HolderRuns

=============================================================================
