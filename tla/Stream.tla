------------------------------- MODULE Stream -------------------------------
(***************************************************************************)
(* A streaming session (stream.go, stream_window.go) over its buffer: the   *)
(* worker goroutine run(), one goroutine in Write, one in CloseSend, one in *)
(* Close, the consumer of Results, the buffer's wakeup goroutine and the    *)
(* parent context.                                                          *)
(*                                                                          *)
(* A segment is the time its text ends at, which is all classifyWindow      *)
(* decides by; its start, text and tokens travel with it.  whisper itself   *)
(* is external: Session.Transcribe returns one of Transcripts(w), or an     *)
(* error that TranscribeOutcomes allows.                                    *)
(***************************************************************************)
EXTENDS StreamBuffer, TranscribeOutcomes, Sequences

CONSTANTS SegTicks,     \* the resolution of whisper's timestamps (10 ms)
          Overrun,      \* how far past the audio whisper may end a segment
          MaxSegs,      \* the most segments of one transcript
          CommitLag,    \* whisper always ends a segment less than this before
                        \* commitBefore; 0: wherever it likes
          ChanCap,      \* the capacity of the results channel (16)
          PromptCap,    \* appendPrompt's maxRunes, in segments
          OwnSession,   \* ownSession: created by Model.NewStream
          MaxAudio      \* bound: the samples Write is given in all

ASSUME StreamAssumption ==
    /\ {SegTicks, ChanCap, PromptCap} \subseteq Nat \ {0}
    /\ {Overrun, MaxSegs, CommitLag, MaxAudio} \subseteq Nat
    /\ OwnSession \in BOOLEAN

VARIABLES
    ppc, chunk,         \* the producer in Write, the samples it was given
    spc,                \* the goroutine in CloseSend
    cpc, sessionFreed,  \* the goroutine in Close; session.Close was called
    wakeup,             \* the buffer's wakeup goroutine
    wpc,                \* the worker
    since, win,         \* run's since, and the window it is working on
    segs, pending,      \* segments still to classify, results still to send
    committed, prompt,  \* st.committed and st.prompt
    err,                \* st.err
    results, resClosed, \* the channel: what it holds, whether it is closed
    delivered,          \* history: the end of the last final received
    cutShort            \* history: run returned for a panic, without an error

prodVars == <<ppc, chunk>>
sendVars == <<spc>>
closeVars == <<cpc, sessionFreed>>
workVars == <<wpc, since, win, segs, pending, committed, prompt, err>>
chanVars == <<results, resClosed, delivered, cutShort>>
vars == <<bufVars, prodVars, sendVars, closeVars, wakeup, workVars, chanVars>>

Windows == [start : Nat, first : Nat, len : Nat, consumed : Nat,
            dropped : BOOLEAN, closed : BOOLEAN]

NoWindow == [start |-> 0, first |-> 0, len |-> 0, consumed |-> 0,
             dropped |-> FALSE, closed |-> FALSE]

Result == [end : Nat, final : BOOLEAN, lagging : BOOLEAN]

WorkerPCs == {"next", "infer", "classify", "send",
              "closeResults", "cancel", "wgDone", "done"}

TypeOK ==
    /\ BufTypeOK
    /\ ppc \in {"idle", "write"} /\ chunk \in ChunkSizes \cup {0}
    /\ spc \in {"idle", "closeSend", "done"}
    /\ cpc \in {"idle", "wait", "done"} /\ sessionFreed \in BOOLEAN
    /\ wakeup \in {"running", "done"}
    /\ wpc \in WorkerPCs
    /\ since \in Nat /\ win \in Windows
    /\ segs \in Seq(Nat) /\ pending \in Seq(Result)
    /\ committed \in Nat /\ prompt \in Seq(Nat)
    /\ err \in {"none", "ctx", "fail"}
    /\ results \in Seq(Result) /\ resClosed \in BOOLEAN /\ delivered \in Nat
    /\ cutShort \in BOOLEAN

\* newStream: a running worker over an empty buffer.
Init ==
    /\ BufInit
    /\ ppc = "idle" /\ chunk = 0 /\ spc = "idle"
    /\ cpc = "idle" /\ sessionFreed = FALSE
    /\ wakeup = "running"
    /\ wpc = "next" /\ since = 0 /\ win = NoWindow
    /\ segs = <<>> /\ pending = <<>> /\ committed = 0 /\ prompt = <<>>
    /\ err = "none"
    /\ results = <<>> /\ resClosed = FALSE /\ delivered = 0 /\ cutShort = FALSE

-----------------------------------------------------------------------------
(* The callers. *)

\* Write, up to the buffer's mutex.
WriteCall(n) ==
    /\ ppc = "idle" /\ ~ctxDone
    /\ consumed + DurFor(n) <= DurFor(MaxAudio)
    /\ ppc' = "write" /\ chunk' = n
    /\ UNCHANGED <<bufVars, sendVars, closeVars, wakeup, workVars, chanVars>>

WriteReturns == ppc' = "idle" /\ chunk' = 0

Producer ==
    /\ ppc = "write"
    /\ \/ (WriteWait \/ Park("producer")) /\ UNCHANGED prodVars
       \/ (WriteAppend(chunk) \/ WriteRefused) /\ WriteReturns
    /\ UNCHANGED <<sendVars, closeVars, wakeup, workVars, chanVars>>

\* CloseSend: ctx is checked before, not under, the mutex.
CloseSendCall ==
    /\ spc = "idle" /\ ~ctxDone
    /\ spc' = "closeSend"
    /\ UNCHANGED <<bufVars, prodVars, closeVars, wakeup, workVars, chanVars>>

\* Fault: closed is set without mu and nobody is woken.
CloseSendUnlocked ==
    /\ spc = "closeSend"
    /\ closed' = TRUE
    /\ spc' = "done"
    /\ UNCHANGED <<pcm, start, consumed, dropped, ctxDone, mu, waiters, prodVars,
                   closeVars, wakeup, workVars, chanVars>>

CloseSendBuffer ==
    /\ spc = "closeSend"
    /\ CloseSend
    /\ spc' = "done"
    /\ UNCHANGED <<prodVars, closeVars, wakeup, workVars, chanVars>>

\* Close: cancel, wait for the worker, free an owned session.
CloseCall ==
    /\ cpc = "idle"
    /\ Cancel
    /\ cpc' = "wait"
    /\ UNCHANGED <<prodVars, sendVars, sessionFreed, wakeup, workVars, chanVars>>

\* Fault: Close does not wait for the worker.
CloseFreeMutant ==
    /\ cpc = "wait"
    /\ cpc' = "done" /\ sessionFreed' = OwnSession
    /\ UNCHANGED <<bufVars, prodVars, sendVars, wakeup, workVars, chanVars>>

CloseFree ==
    /\ cpc = "wait" /\ wpc = "done"
    /\ cpc' = "done" /\ sessionFreed' = OwnSession
    /\ UNCHANGED <<bufVars, prodVars, sendVars, wakeup, workVars, chanVars>>

\* The consumer's receive; the end of a final is remembered.
Recv ==
    /\ results # <<>>
    /\ results' = Tail(results)
    /\ delivered' = IF Head(results).final THEN Head(results).end ELSE delivered
    /\ UNCHANGED <<bufVars, prodVars, sendVars, closeVars, wakeup, workVars, resClosed,
                   cutShort>>

ParentCancel ==
    /\ ~ctxDone
    /\ Cancel
    /\ UNCHANGED <<prodVars, sendVars, closeVars, wakeup, workVars, chanVars>>

Wakeup ==
    /\ wakeup = "running"
    /\ WakeWaiters
    /\ wakeup' = "done"
    /\ UNCHANGED <<prodVars, sendVars, closeVars, workVars, chanVars>>

-----------------------------------------------------------------------------
(* The worker. *)

\* Return from run(): setErr, then the deferred calls, last first.
Exit(e) == wpc' = "closeResults" /\ err' = e

\* st.ctx.Err(), which is nil for as long as ctx is not done.
CtxErr == IF ctxDone THEN "ctx" ELSE "none"

NextWindowBlocks ==
    /\ wpc = "next"
    /\ NextWindowWait(since) \/ Park("worker")
    /\ UNCHANGED <<prodVars, sendVars, closeVars, wakeup, workVars, chanVars>>

NextWindowFails ==
    /\ wpc = "next"
    /\ NextWindowCanceled
    /\ Exit(CtxErr)
    /\ UNCHANGED <<prodVars, sendVars, closeVars, wakeup, since, win, segs,
                   pending, committed, prompt, chanVars>>

\* A window arrives: transcribe it, or end (closed) or go on if it is empty.
NextWindow ==
    /\ wpc = "next"
    /\ TakeWindow(since)
    /\ win' \in TrailingWindows
    /\ since' = consumed
    /\ wpc' = IF win'.len > 0 THEN "infer"
              ELSE IF closed THEN "closeResults" ELSE "next"
    /\ UNCHANGED <<prodVars, sendVars, closeVars, wakeup, segs, pending,
                   committed, prompt, err, chanVars>>

\* consumed - keep, or on the flush all of what was consumed.
CommitBefore(w) == IF w.closed THEN w.consumed ELSE w.consumed - Keep

AbsEnd(w, end) == w.start + end

\* What whisper may make of w.len samples: ends relative to the window, in no
\* assumed order.  CommitLag asks for one that is less than this before
\* commitBefore, if the window reaches that far: speech in segments that are, with
\* the pause behind each, no longer.
Ends(w) == {k * SegTicks : k \in 1..((DurFor(w.len) + Overrun) \div SegTicks)}

EndsNearCommit(w, ends) ==
    \/ CommitBefore(w) - w.start < CommitLag
    \/ \E i \in DOMAIN ends :
          /\ AbsEnd(w, ends[i]) <= CommitBefore(w)
          /\ AbsEnd(w, ends[i]) > CommitBefore(w) - CommitLag

Transcripts(w) ==
    {ends \in UNION {[1..k -> Ends(w)] : k \in 0..MaxSegs} :
        CommitLag > 0 => EndsNearCommit(w, ends)}

TranscribeOK ==
    /\ wpc = "infer"
    /\ segs' \in Transcripts(win)
    /\ wpc' = "classify"
    /\ UNCHANGED <<bufVars, prodVars, sendVars, closeVars, wakeup, since, win,
                   pending, committed, prompt, err, chanVars>>

\* Fault: every error is stored as the ctx error.
TranscribeFailsMutant ==
    /\ wpc = "infer"
    /\ Exit("ctx")
    /\ UNCHANGED <<bufVars, prodVars, sendVars, closeVars, wakeup, since, win,
                   segs, pending, committed, prompt, chanVars>>

\* Transcribe fails (never for want of samples: a window has some).  For what is
\* an ErrCanceled the worker stores st.ctx.Err(), not the error it was given; after
\* the panic of a callback that may be nil.
TranscribeFails ==
    /\ wpc = "infer"
    /\ \E o \in MayReturn(ctxDone) \ {"ok", "empty"} :
          /\ Exit(IF IsErrCanceled(o) THEN CtxErr ELSE "fail")
          /\ cutShort' = (o = "panicCanceled" /\ ~ctxDone)
    /\ UNCHANGED <<bufVars, prodVars, sendVars, closeVars, wakeup, since, win, segs,
                   pending, committed, prompt, results, resClosed, delivered>>

\* Fault: the cap keeps the head of the prompt.
AppendPromptMutant(p, text) ==
    IF Len(p) >= PromptCap THEN p ELSE Append(p, text)

\* appendPrompt keeps the last PromptCap units of text.
AppendPrompt(p, text) ==
    LET q == Append(p, text)
    IN  IF Len(q) > PromptCap THEN SubSeq(q, Len(q) - PromptCap + 1, Len(q)) ELSE q

\* Fault: a segment that ends where the last final did is not an overlap.
VerdictMutant(absEnd, com, commitBefore) ==
    IF absEnd < com THEN "skip"
    ELSE IF absEnd <= commitBefore THEN "final" ELSE "partial"

\* What classifyWindow makes of a segment that ends at absEnd.
Verdict(absEnd, com, commitBefore) ==
    IF absEnd <= com THEN "skip"
    ELSE IF absEnd <= commitBefore THEN "final" ELSE "partial"

\* One turn of classifyWindow's loop.  Its committed and promptAdd become the
\* stream's at once: only the worker reads those.
ClassifySegment ==
    /\ wpc = "classify" /\ segs # <<>>
    /\ LET absEnd == AbsEnd(win, Head(segs))
           v == Verdict(absEnd, committed, CommitBefore(win))
       IN  /\ pending' = IF v = "skip" THEN pending
                         ELSE Append(pending, [end |-> absEnd, final |-> v = "final",
                                               lagging |-> win.dropped])
           /\ committed' = IF v = "final" THEN absEnd ELSE committed
           /\ prompt' = IF v = "final" THEN AppendPrompt(prompt, absEnd) ELSE prompt
    /\ segs' = Tail(segs)
    /\ UNCHANGED <<bufVars, prodVars, sendVars, closeVars, wakeup, wpc, since,
                   win, err, chanVars>>

\* Fault: no overlap is kept.
SlideCommittedMutant ==
    /\ wpc = "classify" /\ segs = <<>>
    /\ IF committed > Keep THEN Slide(committed) ELSE UNCHANGED bufVars
    /\ wpc' = "send"
    /\ UNCHANGED <<prodVars, sendVars, closeVars, wakeup, since, win, segs,
                   pending, committed, prompt, err, chanVars>>

\* The window is classified: discard the audio it committed, keep an overlap.
SlideCommitted ==
    /\ wpc = "classify" /\ segs = <<>>
    /\ IF committed > Keep THEN Slide(committed - Keep) ELSE UNCHANGED bufVars
    /\ wpc' = "send"
    /\ UNCHANGED <<prodVars, sendVars, closeVars, wakeup, since, win, segs,
                   pending, committed, prompt, err, chanVars>>

\* The select: send the next result, or see the cancelled ctx.
SendResult ==
    /\ wpc = "send" /\ pending # <<>>
    /\ Len(results) < ChanCap
    /\ results' = Append(results, Head(pending))
    /\ pending' = Tail(pending)
    /\ UNCHANGED <<bufVars, prodVars, sendVars, closeVars, wakeup, wpc, since, win,
                   segs, committed, prompt, err, resClosed, delivered, cutShort>>

\* Fault: a send without the select.
SendCanceledMutant == FALSE

SendCanceled ==
    /\ wpc = "send" /\ pending # <<>>
    /\ ctxDone
    /\ Exit(CtxErr)
    /\ UNCHANGED <<bufVars, prodVars, sendVars, closeVars, wakeup, since, win,
                   segs, pending, committed, prompt, chanVars>>

\* Fault: run does not return after the flush.
SendsDoneMutant ==
    /\ wpc = "send" /\ pending = <<>>
    /\ wpc' = "next" /\ win' = NoWindow
    /\ UNCHANGED <<bufVars, prodVars, sendVars, closeVars, wakeup, since, segs,
                   pending, committed, prompt, err, chanVars>>

\* All sent: the flush was the last window, any other is followed by the next.
SendsDone ==
    /\ wpc = "send" /\ pending = <<>>
    /\ wpc' = IF win.closed THEN "closeResults" ELSE "next"
    /\ win' = IF win.closed THEN win ELSE NoWindow
    /\ UNCHANGED <<bufVars, prodVars, sendVars, closeVars, wakeup, since, segs,
                   pending, committed, prompt, err, chanVars>>

\* The deferred calls: close(results), cancel, wg.Done.
CloseResults ==
    /\ wpc = "closeResults"
    /\ wpc' = "cancel" /\ resClosed' = TRUE
    /\ UNCHANGED <<bufVars, prodVars, sendVars, closeVars, wakeup, since, win, segs,
                   pending, committed, prompt, err, results, delivered, cutShort>>

\* Fault: run() does not cancel its ctx.
WorkerCancelMutant ==
    /\ wpc = "cancel"
    /\ wpc' = "wgDone"
    /\ UNCHANGED <<bufVars, prodVars, sendVars, closeVars, wakeup, since, win, segs,
                   pending, committed, prompt, err, chanVars>>

WorkerCancel ==
    /\ wpc = "cancel"
    /\ Cancel
    /\ wpc' = "wgDone"
    /\ UNCHANGED <<prodVars, sendVars, closeVars, wakeup, since, win, segs,
                   pending, committed, prompt, err, chanVars>>

WgDone ==
    /\ wpc = "wgDone"
    /\ wpc' = "done"
    /\ UNCHANGED <<bufVars, prodVars, sendVars, closeVars, wakeup, since, win, segs,
                   pending, committed, prompt, err, chanVars>>

Worker ==
    \/ NextWindowBlocks \/ NextWindowFails \/ NextWindow
    \/ TranscribeOK \/ TranscribeFails
    \/ ClassifySegment \/ SlideCommitted
    \/ SendResult \/ SendCanceled \/ SendsDone
    \/ CloseResults \/ WorkerCancel \/ WgDone

\* Every goroutine has returned.
Terminated ==
    /\ wpc = "done" /\ cpc = "done" /\ wakeup = "done"
    /\ ppc = "idle" /\ spc # "closeSend" /\ results = <<>>
    /\ UNCHANGED vars

Next ==
    \/ \E n \in ChunkSizes : WriteCall(n)
    \/ Producer
    \/ CloseSendCall \/ CloseSendBuffer
    \/ CloseCall \/ CloseFree
    \/ Recv
    \/ ParentCancel \/ Wakeup
    \/ Worker
    \/ Terminated

Spec == Init /\ [][Next]_vars

=============================================================================
