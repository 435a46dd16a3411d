# Verification of go-whisper.cpp

TLA+ models of the Go binding over whisper.cpp, the TLC runs that check them on
small instances, and TLAPS proofs of the safety properties for every value of
the constants. Paths below are relative to the repository (`src/`).

## 1. The system

| Component | Source | State | Operations |
|---|---|---|---|
| Stream buffer | `stream_buffer.go` | `pcm`, `start`, `consumed`, `closed`, `dropped` under `mu`, a condition variable, a wakeup goroutine | `write`, `closeSend`, `nextWindow`, `slide` |
| Stream | `stream.go` | worker goroutine, `results` (capacity 16), `err`, `committed`, `prompt`, `closeOnce`, ctx | `NewStream`, `Write`, `CloseSend`, `Results`, `Err`, `Close`, `run` |
| Window classification | `stream_window.go` | none (pure) | `classifyWindow` |
| Stream settings | `stream_options.go` | a record | options, `validate` |
| Inference core | `session.go` | `Model.mu`, per call: abort flag, bridge, watcher goroutine, C strings | `NewSession`, `Close`, `Transcribe` (Model and Session), `runFull` |
| Callback bridge | `callback.go`, `errors.go` | `aborted`, `panicErr` (atomics) | segment, progress and abort trampolines, `storePanic` |
| Model | `whisper.go` | `ptr` | `New`, `Close`, language queries |
| Result marshalling | `result.go` | none | `marshalResult` |
| C shim | `binding.cpp`, `binding.h` | none of its own | `whisper_bind_*` |
| Options | `options.go` | `modelOptions`, `transcribeOptions` | functional options over defaults; `buildCParams`, `build_params` |
| Log routing | `log.go` | a once | slog forwarding |
| WAV decoder | `wav/wav.go`, `wav/resample.go` | loop-local: format, gotFmt | `ReadWAV`, `decodeSamples`, `resampleLinear` |
| Diarizer | `diarize/diarize.go`, `diarize/options.go` | native handle | `New` with options, `Diarize`, `SampleRate`, `Close` |
| Speaker labelling | `diarize/merge.go` | none (pure) | `Label`, `overlap` |
| Examples | `examples/*/main.go` | handles and deferred Closes | `run` |
| Build and link files | `link_*.go`, scripts | - | - |

**Interactions.** `Write` and the worker share the buffer as a monitor: one
condition variable, two kinds of waiter (no room; not enough new audio), and a
goroutine that broadcasts when ctx is done. The worker calls
`Session.Transcribe` with the window and the carried-over prompt, classifies the
segments, slides the buffer over what is committed and sends to `results`. Its
deferred calls run in the order close(results), cancel, wg.Done; `Close` cancels,
waits for them and frees an owned session. Inside `Transcribe`, whisper runs on
its own threads and calls back into Go through a handle: callbacks may panic, the
abort callback polls a flag that a watcher goroutine sets when ctx is done.
`Model.Transcribe` holds `Model.mu` from before the run until the result is
copied out of the state that all such calls share.

**What is hard.** The wait/broadcast protocol between writer, worker and cancel;
backpressure (can writer and worker wait for each other?); overlapping windows
whose segments differ from run to run (is a final repeated? is audio lost?); two
clocks, durations and samples, converted through float64; shutdown from any
state with a consumer that has gone; a session freed under a running inference;
cancellation that races the result; a panic on a foreign thread. The list, line
by line, is `hazards` in `PROJECT.json`.

**What correctness means**, per component:

- buffer: `start`/`consumed` are the times of the first and last buffered
  sample; bounded in both modes; nothing accepted after `closeSend`; no lost
  wakeup;
- stream: timestamps of a window match its audio, only committed audio slides
  out, finals once and in order, the prompt is the committed tail, a clean end
  means everything accepted was processed, `Close` and cancel always get through,
  no goroutine is left behind;
- inference: a call reads its own transcript, on live memory; outcome and cause
  agree; cancellation always ends a call; nobody waits for the mutex for ever;
- options: the last one to name a strategy decides, options that exclude each other
  undo each other, defaults reach whisper intact;
- programs: whatever step fails, what was opened is closed;
- pure parts (classification, labelling, resampling): agreement with a
  declarative reference.

## 2. Modules

| Module | Models | Notes |
|---|---|---|
| `SampleClock` | `durFor`, `samplesFor` | duration = ticks; one sample = `SampleTicks` |
| `StreamConfig` | `streamConfig`, `validate`, the two caps of `newStream` | `validate`'s conditions are assumptions |
| `StreamBuffer` | `stream_buffer.go` | usable alone: `BufSpec`, any caller |
| `Stream` | `stream.go`, `stream_window.go` | extends the buffer with every goroutine of a stream |
| `StreamProperties` | - | invariants, fairness, liveness |
| `StreamClaims` | - | statements of the repository that the code does not keep |
| `StreamService` | what a stream promises its user | abstract; `Stream` implements it |
| `StreamBufferProofs`, `StreamProofs`, `StreamResultProofs`, `StreamProgressProofs`, `StreamServiceProofs` | - | theorems about the above |
| `TranscribeOutcomes` | `errors.go`, what `runFull` may return | shared by `Stream`, `OneShot` and the core |
| `TranscribeService` | what `Transcribe` promises its callers | abstract; `Inference` implements it |
| `Inference` | `session.go`, `callback.go`, lifetimes of `whisper.go` | with its properties and fairness |
| `MCInference` | - | the calls and sessions of the runs |
| `InferenceProofs` | - | theorems about `Inference` |
| `Options` | the loop over functional options | an option is the assignments of its closure |
| `TranscribeOptions` | `options.go`, `buildCParams`, `build_params` | pure |
| `Diarizer` | `diarize/options.go`, clustering, `overlap` | pure |
| `OneShot` | the one-shot programs of `examples/`, with `New`, `Diarize`, `Label` | composes the three above |
| `MCOneShot`, `OneShotProofs` | - | the lists, spans and turns of the run; theorems about `OneShot` |
| `Wav` | `wav/wav.go`, `wav/resample.go` | a reader over a file of chunks |
| `MCWav`, `WavProofs` | - | the files of the run; theorems about `Wav` |

### 2.1 The buffer and the stream

A goroutine is a program counter: `ppc` (Write), `spc` (CloseSend), `cpc` (Close),
`wpc` (the worker), `wakeup`. One action is one critical section, one channel
operation or one call. `waiters` is the set of goroutines inside `cond.Wait`;
`Park` enters it, `Broadcast` empties it, and `mu` is explicit only where it
is held across something that can interleave: between a goroutine's decision to
wait and its wait (`HoldToPark`), while ctx may be cancelled without the mutex.
That window is where a wakeup would be lost if the wakeup goroutine did not take
the mutex, and the mutant `WakeWaitersUnlocked` shows the model sees it.

Abstractions:

- audio is the position of its samples: `pcm` is a first sample and a length;
- a segment is its end time, the only part `classifyWindow` decides by. Its
  start, text and tokens travel with it. A prompt is the sequence of the end
  times of the segments in it, and `maxRunes` counts segments (`PromptCap`);
- `samplesFor(d)` is computed in float64. It never rounds up but may come out a
  sample short at an exact multiple of a sample (1001 samples is one), so
  `SamplesFor` is the set of both outcomes;
- `classifyWindow` runs one loop iteration per step (its only effects are on
  the worker's own variables), which lets it interleave with Write and Close;
- the worker takes its window (`TakeWindow`) in one step with the test that it is
  ready, as the code does under the mutex;
- whisper is external: `Transcripts(w)` is every sequence of at most `MaxSegs`
  segments, in no assumed order, with ends on the `SegTicks` grid up to `Overrun`
  past the audio. `CommitLag` > 0 restricts it to transcripts with an end less than
  that before `commitBefore` (speech whose segments, with the pause behind each,
  are no longer); only the run and the theorem about standoff assume it;
- one goroutine each calls `Write`, `CloseSend` and `Close`. An empty `Write`
  changes nothing and is omitted. A write on a closed or cancelled stream returns
  through `WriteRefused`.

**The promise.** `StreamService` is a stream without buffer, windows, prompt and
goroutines: audio is accepted up to `CloseInput`, a window hears what was
accepted, results are decided in an order in which nothing final is taken back
and nothing final is past what was heard, and the channel closes once, without an
error only if all the audio was heard and every result sent, with the ctx error
only after a cancel. `StreamProperties` maps the marks of the buffer and the
worker's variables to it (`Service`); `ImplementsService` is the refinement.

There is one exception, and it is the code's. For whatever `errors.Is` takes for an
`ErrCanceled` the worker stores `st.ctx.Err()`, not the error it was given. `runFull`
itself says `ErrCanceled` only of a done ctx, but `panicToError` wraps a panicking
callback's error value, which may be the `ErrCanceled` of a nested call that was
cancelled: `TranscribeOutcomes` has it as `panicCanceled`. With a live ctx it stores
nil, and `Results` closes with a nil `Err` although audio was left out. The history
variable `cutShort` remembers that this has happened; in `StreamService` it is the
action `BreakOff`. `CleanEOF` and `Reliable` show that it is the only way there.

### 2.2 The inference core

A call is one `Transcribe`; `SessionOf[c]` is its session or `NoSession`, the
model's internal state. `pc[c]` goes idle, lock (model calls), start, infer,
returned, copy, defers, done. `Start` is `runFull` up to the C call; `Decide` the
checks after it (`Verdicts`; after a panic the error may or may not be an
`ErrCanceled` to `errors.Is`); `Copy` reads the segments that the whisper state holds by then
(or none: `whisper_bind_get_result` returns NULL when memory runs out, and
`marshalResult` makes an empty `Result` of that); `Return` is the deferred calls. The watcher is
a goroutine of its own. While a call is in `infer`, whisper may run a callback
that panics (`CallbackPanics`), poll the abort flag (`AbortPoll`), or return with
any code (`WhisperReturns`): a call that is cancelled may still return 0, and the
flag may be set between the return and the check.

Calls share contexts (`CtxOf`): one cancel reaches all of them. A callback may call
`Transcribe` itself (`CallbackTranscribes`, `MadeBy`), which keeps whisper, and
the thread the callback runs on, waiting (`Runs`); a nested call makes no further
one. A call on a model from a callback of a call on the same model would wait for
the mutex its own caller holds; `NestingAssumption` excludes it, as the code
cannot do better.

`TranscribeService` is the promise to callers: a call returns once, with its own
transcript (or an empty one) or one error, `ErrCanceled` only if its ctx is done,
and no transcript if the ctx was done before the call. `Inference!Service` maps
the calls to it, and `TranscribeOutcomes` is the part of it `Stream` and `OneShot`
rely on.

`storePanic` stores the panic and then sets the flag, on a thread whisper joins
before it returns: nobody reads the pair in between, so it is one step. `New` is
the initial state. The callers keep the documented discipline (one call at a time
on a session; `Close` when no call is under way), written in the guards of
`Transcribe`, `CloseSession` and `CloseModel`.

### 2.3 The WAV reader

A file is a sequence of chunks (kind, size, format) with the offset at which each
begins (`FileAssumption`: they follow one another, padding bytes included), of which
only the first `cut` bytes exist. `pos` is what `ReadWAV` has read; each
action is one turn of its loop, with its reads, checks and errors in order. A
header read where no chunk begins would be an unknown chunk, so a reader that
lost its place would go on and `AtChunk` would fail. Sample values are left out;
the resampler is modelled by its taps, the pairs of input samples that each
output sample is interpolated between. `int(float64(i) * ratio)` may be one short
where the product is a whole number, so `Index` is the set of both outcomes. A
format of 0 Hz with `WithResample` is passed through unchanged, and the
properties about resampling leave it out.

### 2.4 The one-shot programs

`OneShot` is `run()` of the three one-shot examples as a list of steps (`Program`):
load a model, read audio, transcribe, build a diarizer, diarize, label. Every step
may fail and return; what was opened is closed by the deferred calls, last first.
A step that takes options goes over them one by one (`ApplyOption`), from the
defaults; the lists are any (`OptionLists`), not only those the examples pass.
Options are functions from the fields they set to values. What whisper is run with
is `build_params(buildCParams(settings))`, and `StrategyAsAsked`, `SaneParams` and
`ClusteringAsAsked` are about what comes out at that end, where a closure that
forgets a field shows; `whisperDefaults` are the defaults of
whisper.cpp that matter (its thread count is a number of the machine, here 4).
Fractions are tenths. `Label` runs one comparison per step against `LabelOf`, the
declarative reference. File names, texts and the values of callbacks are left out.

## 3. Runs

| Run | Question | Bounds |
|---|---|---|
| `stream_block` | safety in block mode: types, only committed audio slides out, loss below one chunk, order of results, clean end, session lifetime, prompt, use of the buffer, the promise of `StreamService` | window 6 ticks, step 4, keep 1, chunks 1 and 3, 6 samples, a prompt of two segments |
| `stream_drop` | drop mode: the bound, and with trims in `write` and in `nextWindow` the alignment of `start` with the samples and honest windows | step 2, window 5, drop 6, chunks 1 and 2, 5 samples |
| `stream_shutdown` | no wakeup is lost; after CloseSend or a cancel nobody is set back; `Close` returns, cancel frees a blocked `Write`, no goroutine left, whatever the consumer does | window 4, one chunk size, 4 samples |
| `stream_progress` | no stand-off, the flush ends, every `Write` returns, with a drained channel and speech in short segments | step 2, window 9, keep 1, `CommitLag` 4, 6 samples |
| `claim_*` | see section 5: TLC finds each violated | as needed for the counterexample |
| `inference` | own transcript, no use after free, honest outcomes, nobody waits in a circle, the promise of `TranscribeService` | two model calls (symmetric), one session call that a callback may make |
| `wav` | types and end of file, chunk boundaries, exactly the decodable files, resampling taps and length | up to three of nine chunks, cut at every byte, rates 3, 4, 6 for `SampleRate` 4 |
| `inference_ends` | cancel and panic end a call, waiters for the mutex get in, watchers end | two model calls and a session call, all three on one context, nesting |
| `oneshot` | options take effect down to what whisper and sherpa are given, labels by greatest overlap, nothing left open | two options per list (three for a diarizer), two segments and two turns on three instants |

`SampleTicks` is 2: with 1 a duration would always be a whole number of samples
and truncation never show. `keep` is 1 tick, half a sample, for the same reason.
A channel of one result and a prompt of one or two segments meet their limits at
once; two let the order inside a prompt show. `CommitLag` 4 is two steps of whisper's
timestamps and exactly what a window of 9 has room for (a step of 2, two overlaps of
1, a sample of 2): segments of up to two timestamps, so one may straddle
`commitBefore`. With a `CommitLag` of 7, or none, TLC finds the standoff.
In `stream_block` a chunk of three samples is as long as the window: it overshoots
the cap from any fill; 6 samples are enough for a window, a slide, a second
window over the overlap, a blocked `Write` and a flush. In `stream_drop` the
buffer is longer than the window, so both trims happen, also during an inference.
A fmt chunk of odd size, one too short, formats with no channel, below and above
the rate, and data that does and does not divide into frames make every branch
of the reader happen; three chunks let a second format follow the first.
Two model calls contend for the mutex; the third runs beside them, or inside a
callback of one of them, and outlives a closed session or model. In `inference`
the two model calls are interchangeable (same session, context and makers), so
the symmetry is sound; `inference_ends` checks liveness and uses none. Two options
are enough for one to override or to leave alone the other, three for a count and
a threshold around a third; on three instants spans can be empty, touch, overlap
by one or two, and tie. `MaxAudio`, `MaxSegs`, `ChunkSizes` and the number of
calls are the only bounds. Deadlock is checked in every run (`Terminated` and
`Finished` are the ends; `Exited` and `Returned` of the sequential models).

**Fairness.** Weak fairness per goroutine: what the Go scheduler gives a goroutine
that can run. The worker's fairness includes the end of an inference in
`Stream`, which is what `CancelEndsCall` of `Inference` establishes for a
cancelled one, and whisper's own termination otherwise. Callers are not fair:
nobody need call `Write`, `CloseSend`, `Close` or cancel. `DrainedSpec` adds the
receiver and is used only for `stream_progress`, following the comment of
`Results` ("MUST drain"); `stream_shutdown` does without. `Inference!FairSpec` has
no fairness for `WhisperReturns`: whisper need never end by itself, it polls.

## 4. Proofs

For all values of the constants (`ConfigAssumption`, `SampleTicksAssumption`,
`StreamAssumption`, `InferenceAssumption`, `NestingAssumption`, `WavAssumption`,
`FileAssumption`, `OneShotAssumption`, `OptionAssumption`, `StrategyAssumption`,
`ThresholdAssumption`, and nothing else), any number of samples, any transcript:

- **Buffer.** `BufInv` = types, alignment, the bound of each mode is inductive for
  `BufSpec` (`BufferCorrect`). The hard parts are the trim and the slide, where
  `start` moves by a duration and `pcm` by a truncated count: `AlignedTrim`,
  `SlideStep`.
- **Stream.** `Core` = `TypeOK` /\ `BufInv` /\ `Marks` is inductive. `Marks`
  (committed <= since <= consumed, the window in work ends at since) is what
  keeps the argument of `slide` inside the audio. `StepIsBufferStep` shows that
  every step is a step of `BufSpec` or leaves it alone (`BufferUse`, a refinement),
  so the buffer's theorem carries over.
- On top of `Core`, each with its own strengthening: `SessionOutlivesWorker`,
  `WindowsAreHonest`, `DiscardsCommitted`, `BlockModeLossBounded`, `EndsClean`
  (`EndInv`: the flush window was taken after closed, and nothing is consumed
  since; that the window reached the end of the audio does not say that every sample
  was in some window, see `claim_lossless`), `FinalsOnceInOrder` (the queue of channel and pending results is
  ordered above what was delivered), `PromptCarriesCommitted`.
- **Times and memory.** `TimesStayInAudio`: no result that is sent or about to be
  ends past the audio that has been in a window by more than whisper overran its
  input (`Overrun`) and one sample, so the two clocks do not drift apart however
  long the stream. `TimeInv` carries the bound from the transcript through
  `AbsEnd` and `classifyWindow` to the channel. `StreamMemoryBounded`: buffer,
  channel, results in hand and prompt are bounded whoever stops, for a stream of
  any length.
- **Inference.** `Inv` adds to the properties who holds the mutex, that a session
  has one call, that what a call found open stays open, and where each flag
  comes from (`Provenance`). `TranscriptIsOwn`, `NoInferenceAfterFree`,
  `OutcomesAreHonest`, `CanceledStaysCanceled`, `InferenceTyping` follow.
- **Refinements.** `StreamImplementsService`: each of the stream's steps is a step of
  `StreamService` or a stutter, under `Core` and the invariants of the results
  and of the clean end. `TranscribeImplementsService` does the same for the calls;
  the step that matters is `Return`, where the invariant has to know why the outcome
  may be what it is, and that a ctx once done stays done.
- **What a service guarantees.** `StreamIsReliable`: the invariant `Reliable` of
  `StreamService` (finals lie in audio that was heard, Err is the ctx error of a
  cancelled stream only, an end without error, `BreakOff` apart, follows the end of
  input and a window that reached it, and leaves nothing to send) is proved there and carried over by the refinement. `OnlyForward`: no step takes back
  a mark, a commit, a delivery, the end of input, a cancel or the error; `Results`
  is closed once, nothing is sent after it, and `Err` is fixed by then, which is
  what lets it be read after the close. `ChannelInv` and the three step lemmas
  above it are the argument.
- **Standoff.** `NeverStandOff`: `NoStandoff` for every setting and any audio, given
  `Roomy`: whisper always ends a segment less than `CommitLag` before `commitBefore`,
  or the window does not reach that far, and `Step + Backlog <= Window + 1`, where
  `Backlog == 2*Keep + CommitLag + SampleTicks`. `CommitLag` is any length: the
  theorem says how long segments may be for a given window. With the defaults (step
  0.7 s, window 10 s, keep 0.2 s) that is speech whose segments, each with the pause
  behind it, are up to 8.9 s long, and a whisper that splits it so in every window.
  It is an assumption about the speech, not about the code: a longer segment, or
  silence that yields no segment, can stop writer and worker, and `claim_standoff`
  shows that. `RoomInv` follows the commit from the transcript through each turn of
  `classifyWindow` to the slide, so that when the worker asks for the next window
  `start` is less than `Backlog` behind the end of the last; `ParkInv` says that what
  made a goroutine wait is still so while it is parked. A full buffer then holds a
  step of new audio, and the worker does not wait. `stream_progress` has exactly the
  room the theorem asks for.
- **Wakeups.** `WakeupsAreNotLost`: a goroutine in `cond.Wait` waits for something
  that is still missing, or a broadcast is certain to come. It is `ParkInv` again: a
  decision to wait is taken and kept under `mu`, and whatever could undo its
  reason takes `mu` too or, like a cancel, is followed by the wakeup goroutine.
- **Ends.** `EndingOnlyAdvances` is the variant under `FlushEnds`, `CloseReturns`
  and `CancelUnblocksWrite`: after CloseSend or a cancel a natural number bounds
  the steps left to the worker (at most one more window, its segments, its sends,
  one more wait), falls with each of its own steps and rises with nobody's; after
  a cancel another does so for `Write`. What is left to TLC is that the steps are taken.
- **Waiting in `Transcribe`.** `NobodyWaitsInCircles`: behind every call under way
  there is one that can go on, through at most three waits, for the mutex, for a
  callback, for the mutex. `WaitInv` is what it needs: the holder of the mutex
  is a model call between Lock and Return, a nested call has a caller inside whisper
  that no callback made, and only model calls lock. `CancelReachesWhisper`: while
  whisper runs the flag is set or the watcher is there to set it. `CallsAdvance`:
  the steps left to a call and its watcher fall with each of theirs and rise with
  nobody's: nothing is retried, locked or started twice.
- **One-shot programs.** `OptionInv` says what the prefix of options applied so far
  has made of each field. From it, through the closures of the options,
  `buildCParams` and `build_params`: `OneShotStrategy` (whisper runs the strategy and
  count that the last of `WithBeamSearch` and `WithGreedy` asks for) and
  `OneShotSaneParams`;
  `OneShotLabelsByOverlap` by the loop invariant of `Label` (the first turn of
  greatest overlap among those seen), for any number of segments and turns;
  `OneShotNothingLeaked` (what is open is what is deferred); `OneShotClusters`
  (sherpa clusters by the last of count and threshold, for lists of any length);
  `OneShotTypeCorrect`.
- **WAV.** `ReaderTyping`; `ResamplingInRange` and `ResamplingKeepsDuration` for every
  length and rate (`ResampledBrackets`, `ResampledDuration`, from bounds on
  integer division). `ReaderInv` ties the output to the frames decoded.
  `ReaderAtChunks` and `ReaderDecodes` for files of any length: `ScanInv` says what
  the reader knows at chunk k (none before it is data, the format in force is that
  of the last fmt chunk), and `DataAhead` that a decodable file still has its data
  in front of it, so that every error is one of a file without a `Decodable` pair.
  That offsets increase is proved by least counterexample (`LeastNumber`).
  `ReaderEnds`: each turn reads on, at least a header, or ends; no file, a chunk of
  size zero included, keeps the reader in its loop.

Every invariant and every action property that a run checks is stated by a theorem.
Model-checked only: the liveness properties (`FlushEnds`, `WriteReturnsEventually`,
`CloseReturns`, `CancelUnblocksWrite`, `NoGoroutineLeak` and those of
`inference_ends`). They rest on fairness and ENABLED, which are out of the prover's
reach; the variants and the absence of standoff, lost wakeup and circular wait are
the part of them that is proved.

## 5. Where the code and its documentation disagree

Each is a run that TLC violates:

1. `claim_lossless`: block mode is described as lossless. `write` tests the cap
   before it appends, so a chunk can take the buffer past the window and
   `nextWindow` cuts audio that no run has seen: the first sample of the window
   (`first`, after the rounding of its offset) lies past the end of the last. What holds instead is
   `BlockLossBounded` (proved): less than one chunk per window.
2. `claim_standoff`: "the worker committing + sliding unblocks" the writer. When
   whisper commits nothing (one long segment), writer and worker wait for each
   other until `Close`. `NoStandoff` holds for shorter segments (section 4).
3. `claim_drop_reported`: `Lagging` on the next result after a drop. The mark is
   taken by the window; if that yields no result, the drop is never reported.
4. `claim_flush`: "flush: commit the tail too". A segment that ends past the last
   sample stays partial.

Two more that no run shows by itself:

- `Err` promises the terminal error, "nil on clean EOF" (`stream.go:106`, and line 79
  of the streaming design). After a callback's panic with an error that wraps
  `ErrCanceled`, on a ctx that is not done, `stream.go:171-172` stores a nil error:
  `errors.go:32` wraps with `%w`, so `errors.Is` holds. `Results` closes, `Err` is
  nil, and the audio from that window on was never transcribed. The models have this step
  (`TranscribeFails`, `cutShort`, `BreakOff`); `CleanEOF` without its `~cutShort` is
  violated by it.
- Line 116 of the streaming design
  (`docs/superpowers/specs/2026-06-02-go-whisper-streaming-design.md`) makes a
  segment final if it ends by `consumed - keep` and begins at or after `committed`.
  `classifyWindow` tests the end only (`stream_window.go:21-25`): a segment that
  begins before `committed` and ends after it is emitted as final, with text an
  earlier final may already have had. The model has ends only, so "once" in
  `ResultsFollowFinals` and `FinalsOnceInOrder` is by end time: no final ends where or before
  another has ended. It says nothing of text that two finals share.

Other observations: `Err` is the ctx error rather than `ErrCanceled` when the cancel meets the worker
outside an inference; `Write` returns `ErrStreamClosed` only after `CloseSend`, not
after `Close`, and `CloseSend` never, although its comment names both; `binding.h` documents -100 for an
aborted inference, which the shim never returns (the abort flag decides instead);
`LabeledSegment` speaks of the dominant speaker, while `Label` takes the speaker
of the one turn with most overlap, so many short turns of another speaker do
not add up; "whichever is applied last wins" holds for `WithNumSpeakers(n)` with n > 0
(a later `WithNumSpeakers(0)` leaves the threshold in force); a call of a stream's
`Close` from a segment callback of that stream waits for itself; a result whose
copy runs out of memory is an empty transcript without an error; a stream that owns its session frees it only in `Close`,
though `Results` reads as if draining were enough; a user's
`WithInitialPrompt` replaces the carried-over prompt; `Model.Transcribe` tests
`ptr` before it takes the mutex (harmless under the discipline of section 2.2); a
segment callback that calls `Model.Transcribe` on its own model waits for itself;
with `dropMaxBuffer` above the window, `nextWindow`'s trim is not marked.

## 6. Not modelled

The stream option functions (one assignment each: `Options` shows what the loop
over them does), language queries and log routing: straight-line code over no
state. The fields of segments and tokens in `marshalResult` and
`whisper_bind_get_result`: a copy. The `stream` example, whose calls are those of
`Stream`'s producer and consumer. Build and link files have no behaviour of their
own. Data that no property depends on: text, tokens, probabilities, sample values,
file names. Callers that break the documented discipline of `Close`, or transcribe
on a model from its own callback: the code promises them nothing.

## 7. Plan

Done, in order of importance: the buffer, the stream over it, their safety
proofs, the inference core and its proofs, the WAV reader, the promises that
stream and core keep and the proofs that they do, the options, the diarizer and
the one-shot programs, the scan of a WAV file, the absence of a standoff, of lost
wakeups and of circular waits, the variants behind every end, the bounds on times
and memory. Next:

1. The stream example as a caller of `StreamService`.
2. How far `NeverStandOff`'s room can be lowered: it is sufficient, not shown to be
   necessary (in the run's configuration TLC finds no standoff with 5 and 6 either).
3. Segments with a start, and what of their text two finals may share.
