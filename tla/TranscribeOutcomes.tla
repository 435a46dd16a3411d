------------------------- MODULE TranscribeOutcomes -------------------------
(***************************************************************************)
(* What a Transcribe call may return to its caller (session.go, errors.go): *)
(* the one thing the stream's worker and the inference core have to agree   *)
(* on.  Inference shows that its calls keep to it, Stream relies on it.     *)
(***************************************************************************)

\* A transcript, or the error: what a callback panicked with, ErrCanceled,
\* ErrTranscribe, ErrClosed, ErrEmptyAudio.  panicToError wraps the value of a panic
\* (%w), so the error of one that panics with an ErrCanceled, say that of a call the
\* callback made, is an ErrCanceled too for errors.Is: "panicCanceled".
Panics == {"panic", "panicCanceled"}

Outcomes == Panics \cup {"ok", "canceled", "failed", "closed", "empty"}

\* errors.Is(err, ErrCanceled).
IsErrCanceled(o) == o \in {"canceled", "panicCanceled"}

\* Transcribe itself says ErrCanceled only when the caller's own ctx is done; what a
\* callback panics with may be anything at any time.
MayReturn(done) == IF done THEN Outcomes ELSE Outcomes \ {"canceled"}

=============================================================================
