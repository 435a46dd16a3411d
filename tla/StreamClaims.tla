---------------------------- MODULE StreamClaims ----------------------------
(***************************************************************************)
(* What the repository says of a Stream and the code does not keep.  Each   *)
(* is checked by a run of its own that finds a counterexample.              *)
(***************************************************************************)
EXTENDS StreamProperties

\* "capping at `window` keeps uncommitted audio ... lossless" (stream.go) and
\* README's "lossless backpressure": in block mode every sample Write accepts is
\* in some window, so the first sample whisper is shown is no later than the end of
\* the window before.  A chunk that takes the buffer past the window breaks it:
\* nextWindow cuts the front off, and no result says so.
Lossless ==
    [][BlockCap > 0 /\ wpc = "next" /\ wpc' = "infer" => DurFor(win'.first) <= since]_vars

\* "the worker committing + sliding unblocks it" (the streaming design's block
\* mode): a writer that waits for room is not waited for by the worker.  When
\* whisper commits too little, for one segment over the whole window, slide makes
\* no room and the worker waits for step more audio.
WriterAndWorkerNotBothParked == NoStandoff

\* "Lagging: audio was dropped before this result" and the design's "Lagging on
\* the next emitted result": a drop that no result has reported is still to be
\* reported.  A window that yields no result takes the mark with it.
DropReported ==
    [][wpc = "classify" /\ wpc' = "send" /\ win.dropped
          => pending # <<>> \/ dropped']_vars

\* "flush: commit the tail too" (stream.go): every result of the last window is
\* final.  A segment that whisper ends after the last sample is emitted as
\* partial, and never committed.
FlushCommitsTail ==
    win.closed => \A i \in 1..Len(pending) : pending[i].final

=============================================================================
