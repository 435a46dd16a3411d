----------------------------- MODULE Inference -----------------------------
(***************************************************************************)
(* Transcribe calls over one Model and its Sessions (session.go, whisper.go,*)
(* callback.go, the abort flag of errors.go): who may use which whisper     *)
(* state when, how a context is cancelled, how a panic in a callback comes  *)
(* out, and what a call returns.                                            *)
(*                                                                          *)
(* A call is one Transcribe, on the session SessionOf[c] or, NoSession, on  *)
(* the model's internal state.  whisper is external: while a call is in     *)
(* "infer" it runs callbacks, polls the abort callback, and returns.  A     *)
(* callback may call Transcribe itself, and keeps whisper waiting for it.   *)
(* The callers keep the documented discipline: one call at a time on a      *)
(* session, Close when no call is under way, and no call on the model from  *)
(* a callback of a call on the model.                                       *)
(***************************************************************************)
EXTENDS Naturals, TranscribeOutcomes

CONSTANTS Calls, Sessions, NoSession, NoCall,
          SessionOf,        \* the session of each call, or NoSession
          CtxOf,            \* the context each call is given
          MadeBy            \* the calls a callback of which may make it; NoCall
                            \* stands for the program outside callbacks

ASSUME InferenceAssumption ==
    /\ NoSession \notin Sessions /\ NoCall \notin Calls
    /\ SessionOf \in [Calls -> Sessions \cup {NoSession}]
    /\ MadeBy \in [Calls -> SUBSET (Calls \cup {NoCall})]

\* A call on the model from a callback of a call on the model would wait for the
\* mutex that its own caller holds.
ASSUME NestingAssumption ==
    \A c, d \in Calls :
        c \in MadeBy[d] => SessionOf[c] # NoSession \/ SessionOf[d] # NoSession

VARIABLES
    ptr,            \* m.ptr is not nil
    state,          \* per session: "none" before NewSession, "live", "nil"
    mu,             \* the call that holds m.mu, or NoCall
    pc,             \* per call: where it is
    ctxDone,        \* per call: its ctx is done
    aborted,        \* per call: the abortFlag of its bridge
    panicked,       \* per call: bridge.panicErr is set
    watcher,        \* per call: the cancellation watcher goroutine
    rc,             \* per call: whisper_bind_full returned 0
    outcome,        \* per call: what Transcribe returns
    transcript,     \* per call: whose run its Result was copied from, or NoCall
    caller,         \* per call under way: the call whose callback made it, or NoCall
    lateStart,      \* history, per call: ctx was done before the call
    lastRun         \* history, per whisper state: the call that wrote it last

modelVars == <<ptr, state, mu>>
callVars == <<pc, ctxDone, aborted, panicked, watcher, rc, outcome, transcript, caller>>
historyVars == <<lateStart, lastRun>>
vars == <<modelVars, callVars, historyVars>>

PCs == {"idle", "lock", "start", "infer", "returned", "copy", "defers", "done"}

TypeOK ==
    /\ ptr \in BOOLEAN /\ state \in [Sessions -> {"none", "live", "nil"}]
    /\ mu \in Calls \cup {NoCall}
    /\ pc \in [Calls -> PCs] /\ outcome \in [Calls -> Outcomes \cup {"none"}]
    /\ transcript \in [Calls -> Calls \cup {NoCall}]
    /\ caller \in [Calls -> Calls \cup {NoCall}]
    /\ watcher \in [Calls -> {"none", "waiting", "done"}]
    /\ ctxDone \in [Calls -> BOOLEAN] /\ aborted \in [Calls -> BOOLEAN]
    /\ panicked \in [Calls -> BOOLEAN] /\ rc \in [Calls -> BOOLEAN]
    /\ lateStart \in [Calls -> BOOLEAN]
    /\ lastRun \in [Sessions \cup {NoSession} -> Calls \cup {NoCall}]
    /\ \A c \in Calls : pc[c] = "done" => outcome[c] # "none"

Init ==
    /\ ptr = TRUE /\ state = [s \in Sessions |-> "none"] /\ mu = NoCall
    /\ pc = [c \in Calls |-> "idle"] /\ outcome = [c \in Calls |-> "none"]
    /\ watcher = [c \in Calls |-> "none"]
    /\ ctxDone = [c \in Calls |-> FALSE] /\ aborted = [c \in Calls |-> FALSE]
    /\ panicked = [c \in Calls |-> FALSE] /\ rc = [c \in Calls |-> FALSE]
    /\ transcript = [c \in Calls |-> NoCall] /\ caller = [c \in Calls |-> NoCall]
    /\ lateStart = [c \in Calls |-> FALSE]
    /\ lastRun = [s \in Sessions \cup {NoSession} |-> NoCall]

-----------------------------------------------------------------------------
(* Models and sessions. *)

OnModel(c) == SessionOf[c] = NoSession

UnderWay(c) == pc[c] \notin {"idle", "done"}

\* NewSession on an open model; on a closed one it fails and changes nothing.
NewSession(s) ==
    /\ state[s] = "none" /\ ptr
    /\ state' = [state EXCEPT ![s] = "live"]
    /\ UNCHANGED <<ptr, mu, callVars, historyVars>>

CloseSession(s) ==
    /\ state[s] = "live"
    /\ \A c \in Calls : SessionOf[c] = s => ~UnderWay(c)
    /\ state' = [state EXCEPT ![s] = "nil"]
    /\ UNCHANGED <<ptr, mu, callVars, historyVars>>

CloseModel ==
    /\ ptr
    /\ \A c \in Calls : ~UnderWay(c)
    /\ ptr' = FALSE
    /\ UNCHANGED <<state, mu, callVars, historyVars>>

-----------------------------------------------------------------------------
(* A call. *)

SameCtx(c) == {d \in Calls : CtxOf[d] = CtxOf[c]}

\* A context is cancelled, for all its calls.  Nobody reads one whose calls are over.
CancelCtx(c) ==
    /\ ~ctxDone[c] /\ \E d \in SameCtx(c) : pc[d] # "done"
    /\ ctxDone' = [d \in Calls |-> ctxDone[d] \/ d \in SameCtx(c)]
    /\ UNCHANGED <<modelVars, pc, aborted, panicked, watcher, rc, outcome, transcript,
                   caller, historyVars>>

\* Fault: Session.Transcribe does not look at s.model.ptr.
OpenMutant(c) == IF OnModel(c) THEN ptr ELSE state[SessionOf[c]] = "live"

\* What the nil checks of the two Transcribe methods let through.
Open(c) == ptr /\ (OnModel(c) \/ state[SessionOf[c]] = "live")

\* Call c is made, in a callback of the call from or outside of any.
TranscribeFrom(from, c) ==
    /\ pc[c] = "idle" /\ from \in MadeBy[c]
    /\ ~OnModel(c) => /\ state[SessionOf[c]] # "none"
                      /\ \A d \in Calls : SessionOf[d] = SessionOf[c] => ~UnderWay(d)
    /\ pc' = [pc EXCEPT ![c] = IF ~Open(c) THEN "done"
                               ELSE IF OnModel(c) THEN "lock" ELSE "start"]
    /\ outcome' = [outcome EXCEPT ![c] = IF Open(c) THEN "none" ELSE "closed"]
    /\ lateStart' = [lateStart EXCEPT ![c] = ctxDone[c]]
    /\ caller' = [caller EXCEPT ![c] = IF Open(c) THEN from ELSE NoCall]
    /\ UNCHANGED <<modelVars, ctxDone, aborted, panicked, watcher, rc, transcript,
                   lastRun>>

Transcribe(c) == TranscribeFrom(NoCall, c)

\* A callback of c is in a Transcribe of its own.
InCallback(c) == \E d \in Calls : caller[d] = c

\* whisper runs callbacks on the thread of the call: it goes on between them.
Runs(c) == pc[c] = "infer" /\ ~InCallback(c)

\* A callback of c transcribes; the callbacks of that call make none themselves.
CallbackTranscribes(c, d) ==
    /\ Runs(c) /\ caller[c] = NoCall
    /\ TranscribeFrom(c, d)

\* Fault: m.mu does not exclude anybody.
LockMutant(c) ==
    /\ pc[c] = "lock"
    /\ mu' = c
    /\ pc' = [pc EXCEPT ![c] = "start"]
    /\ UNCHANGED <<ptr, state, ctxDone, aborted, panicked, watcher, rc, outcome,
                   transcript, caller, historyVars>>

\* Model.Transcribe is serialised by m.mu.
Lock(c) ==
    /\ pc[c] = "lock" /\ mu = NoCall
    /\ mu' = c
    /\ pc' = [pc EXCEPT ![c] = "start"]
    /\ UNCHANGED <<ptr, state, ctxDone, aborted, panicked, watcher, rc, outcome,
                   transcript, caller, historyVars>>

\* runFull refuses empty audio before it acquires anything.
StartEmpty(c) ==
    /\ pc[c] = "start"
    /\ pc' = [pc EXCEPT ![c] = "defers"]
    /\ outcome' = [outcome EXCEPT ![c] = "empty"]
    /\ UNCHANGED <<modelVars, ctxDone, aborted, panicked, watcher, rc, transcript,
                   caller, historyVars>>

\* Fault: the ctx is left to the watcher alone.
StartMutant(c) ==
    /\ pc[c] = "start"
    /\ pc' = [pc EXCEPT ![c] = "infer"]
    /\ watcher' = [watcher EXCEPT ![c] = "waiting"]
    /\ lastRun' = [lastRun EXCEPT ![SessionOf[c]] = c]
    /\ UNCHANGED <<modelVars, ctxDone, aborted, panicked, rc, outcome, transcript,
                   caller, lateStart>>

\* runFull up to the C call: the flag, the bridge, the watcher, the parameters.
Start(c) ==
    /\ pc[c] = "start"
    /\ aborted' = [aborted EXCEPT ![c] = ctxDone[c]]
    /\ watcher' = [watcher EXCEPT ![c] = "waiting"]
    /\ lastRun' = [lastRun EXCEPT ![SessionOf[c]] = c]
    /\ pc' = [pc EXCEPT ![c] = "infer"]
    /\ UNCHANGED <<modelVars, ctxDone, panicked, rc, outcome, transcript, caller,
                   lateStart>>

\* Fault: stop is never closed.
WatchMutant(c) ==
    /\ watcher[c] = "waiting"
    /\ ctxDone[c] /\ aborted' = [aborted EXCEPT ![c] = TRUE]
    /\ watcher' = [watcher EXCEPT ![c] = "done"]
    /\ UNCHANGED <<modelVars, pc, ctxDone, panicked, rc, outcome, transcript,
                   caller, historyVars>>

\* Fault: only stop is waited for.
WatchDeaf(c) ==
    /\ watcher[c] = "waiting" /\ pc[c] = "done"
    /\ watcher' = [watcher EXCEPT ![c] = "done"]
    /\ UNCHANGED <<modelVars, pc, ctxDone, aborted, panicked, rc, outcome,
                   transcript, caller, historyVars>>

\* The watcher goroutine: ctx.Done, or stop once runFull has returned.
Watch(c) ==
    /\ watcher[c] = "waiting"
    /\ \/ ctxDone[c] /\ aborted' = [aborted EXCEPT ![c] = TRUE]
       \/ pc[c] = "done" /\ UNCHANGED aborted
    /\ watcher' = [watcher EXCEPT ![c] = "done"]
    /\ UNCHANGED <<modelVars, pc, ctxDone, panicked, rc, outcome, transcript,
                   caller, historyVars>>

\* Fault: a panic is recorded and the inference is left to run.
CallbackPanicsMutant(c) ==
    /\ Runs(c)
    /\ panicked' = [panicked EXCEPT ![c] = TRUE]
    /\ UNCHANGED <<modelVars, pc, ctxDone, aborted, watcher, rc, outcome,
                   transcript, caller, historyVars>>

\* A segment or progress callback panics: storePanic, on a whisper thread.
CallbackPanics(c) ==
    /\ Runs(c)
    /\ panicked' = [panicked EXCEPT ![c] = TRUE]
    /\ aborted' = [aborted EXCEPT ![c] = TRUE]
    /\ UNCHANGED <<modelVars, pc, ctxDone, watcher, rc, outcome, transcript, caller,
                   historyVars>>

\* goWhisperAbort finds the flag set and whisper gives up.
AbortPoll(c) ==
    /\ Runs(c) /\ aborted[c]
    /\ rc' = [rc EXCEPT ![c] = FALSE]
    /\ pc' = [pc EXCEPT ![c] = "returned"]
    /\ UNCHANGED <<modelVars, ctxDone, aborted, panicked, watcher, outcome,
                   transcript, caller, historyVars>>

\* whisper_bind_full comes to its own end, well or not.
WhisperReturns(c) ==
    /\ Runs(c)
    /\ \E ok \in BOOLEAN : rc' = [rc EXCEPT ![c] = ok]
    /\ pc' = [pc EXCEPT ![c] = "returned"]
    /\ UNCHANGED <<modelVars, ctxDone, aborted, panicked, watcher, outcome,
                   transcript, caller, historyVars>>

\* Fault: the abort flag is looked at before the panic.
VerdictsMutant(c) ==
    IF aborted[c] THEN {"canceled"}
    ELSE IF panicked[c] THEN Panics
    ELSE IF rc[c] THEN {"ok"} ELSE {"failed"}

\* Fault: the return code of whisper_bind_full is not looked at.
VerdictsSilent(c) ==
    IF panicked[c] THEN Panics
    ELSE IF aborted[c] THEN {"canceled"}
    ELSE IF rc[c] THEN {"ok"} ELSE {"none"}

\* The order of runFull's checks after the C call; a panic's value may be any.
Verdicts(c) ==
    IF panicked[c] THEN Panics
    ELSE IF aborted[c] THEN {"canceled"}
    ELSE IF rc[c] THEN {"ok"} ELSE {"failed"}

Decide(c) ==
    /\ pc[c] = "returned"
    /\ \E o \in Verdicts(c) :
          /\ outcome' = [outcome EXCEPT ![c] = o]
          /\ pc' = [pc EXCEPT ![c] = IF o = "ok" THEN "copy" ELSE "defers"]
    /\ UNCHANGED <<modelVars, ctxDone, aborted, panicked, watcher, rc, transcript,
                   caller, historyVars>>

\* whisper_bind_get_result and marshalResult: the segments the whisper state holds
\* now; none, and no error, if the C memory for them cannot be had.
Copy(c) ==
    /\ pc[c] = "copy"
    /\ \E run \in {lastRun[SessionOf[c]], NoCall} :
          transcript' = [transcript EXCEPT ![c] = run]
    /\ pc' = [pc EXCEPT ![c] = "defers"]
    /\ UNCHANGED <<modelVars, ctxDone, aborted, panicked, watcher, rc, outcome,
                   caller, historyVars>>

\* Fault: m.mu is unlocked at the end of Transcribe, not deferred.
ReturnMutant(c) ==
    /\ pc[c] = "defers"
    /\ mu' = IF mu = c /\ outcome[c] = "ok" THEN NoCall ELSE mu
    /\ pc' = [pc EXCEPT ![c] = "done"]
    /\ aborted' = [aborted EXCEPT ![c] = FALSE]
    /\ panicked' = [panicked EXCEPT ![c] = FALSE]
    /\ rc' = [rc EXCEPT ![c] = FALSE]
    /\ caller' = [caller EXCEPT ![c] = NoCall]
    /\ UNCHANGED <<ptr, state, ctxDone, watcher, outcome, transcript, historyVars>>

\* The deferred calls: C strings, stop, handle, m.mu.  The flag, the bridge and rc
\* are runFull's own and go with it.
Return(c) ==
    /\ pc[c] = "defers"
    /\ mu' = IF mu = c THEN NoCall ELSE mu
    /\ pc' = [pc EXCEPT ![c] = "done"]
    /\ aborted' = [aborted EXCEPT ![c] = FALSE]
    /\ panicked' = [panicked EXCEPT ![c] = FALSE]
    /\ rc' = [rc EXCEPT ![c] = FALSE]
    /\ caller' = [caller EXCEPT ![c] = NoCall]
    /\ UNCHANGED <<ptr, state, ctxDone, watcher, outcome, transcript, historyVars>>

Steps(c) == Lock(c) \/ StartEmpty(c) \/ Start(c) \/ Decide(c) \/ Copy(c) \/ Return(c)

Whisper(c) == AbortPoll(c) \/ WhisperReturns(c)

Finished ==
    /\ ~ptr
    /\ \A c \in Calls : ~UnderWay(c)
    /\ UNCHANGED vars

Next ==
    \/ \E s \in Sessions : NewSession(s) \/ CloseSession(s)
    \/ CloseModel
    \/ \E c \in Calls : CancelCtx(c) \/ Transcribe(c)
    \/ \E c, d \in Calls : CallbackTranscribes(c, d)
    \/ \E c \in Calls : Steps(c) \/ Watch(c)
    \/ \E c \in Calls : CallbackPanics(c) \/ Whisper(c)
    \/ Finished

Spec == Init /\ [][Next]_vars

-----------------------------------------------------------------------------
\* A whisper state belongs to the call that is running on it until that call
\* has read its result out of it: what it returns is its own transcript
\* (session.go Model.Transcribe, runFull).
OwnResult ==
    \A c \in Calls :
        /\ pc[c] \in {"infer", "returned", "copy"} => lastRun[SessionOf[c]] = c
        /\ transcript[c] \in {c, NoCall}

\* No inference runs on a freed context or a freed state (the nil checks of
\* session.go, under the documented discipline of Close).
NoUseAfterFree ==
    \A c \in Calls : pc[c] \in {"infer", "returned", "copy"} =>
        ptr /\ (SessionOf[c] \in Sessions => state[SessionOf[c]] = "live")

\* A call returns an ErrCanceled of its own only when its ctx was done, a panic in a
\* callback always comes out as that call's error and nothing else comes out as one,
\* and there is a transcript only if whisper finished without a panic; a cancel that
\* comes too late for whisper may leave it (session.go runFull after the C call,
\* callback.go storePanic).
OutcomeHonest ==
    \A c \in Calls :
        /\ outcome[c] = "canceled" => ctxDone[c]
        /\ pc[c] \in {"copy", "defers"} =>
              /\ panicked[c] <=> outcome[c] \in Panics
              /\ outcome[c] = "ok" => rc[c]

\* c is waiting for d: for m.mu, or for the Transcribe of a callback.
WaitsFor(c, d) ==
    \/ pc[c] = "lock" /\ mu = d
    \/ pc[c] = "infer" /\ caller[d] = c

Blocked(c) == (pc[c] = "lock" /\ mu # NoCall) \/ (pc[c] = "infer" /\ InCallback(c))

Behind(S) == S \cup {d \in Calls : \E c \in S : WaitsFor(c, d)}

\* Nobody waits in a circle, or for a call that is over: whoever a call waits for,
\* and those that wait for others in turn, through the mutex and through callbacks,
\* there is one among them, at most three further on, that can go on (session.go
\* Model.Transcribe's Lock and deferred Unlock, callback.go).
NoCircularWait ==
    \A c \in Calls : UnderWay(c) =>
        \E d \in Behind(Behind(Behind({c}))) : UnderWay(d) /\ ~Blocked(d)

\* What the calls promise their callers (TranscribeService): a call is called until
\* it is done, and its answer is what it returns then.
Service == INSTANCE TranscribeService WITH
    phase <- [c \in Calls |-> IF pc[c] = "idle" THEN "idle"
                              ELSE IF pc[c] = "done" THEN "returned" ELSE "called"],
    doomed <- lateStart,
    answer <- [c \in Calls |-> IF pc[c] = "done" THEN outcome[c] ELSE "none"],
    transcript <- [c \in Calls |-> IF pc[c] = "done" THEN transcript[c] ELSE NoCall]

\* Every Transcribe keeps the promise, whatever the other calls, the contexts, the
\* callbacks and whisper do (session.go, Model.Transcribe and Session.Transcribe).
ImplementsService == Service!Spec

\* whisper polls the abort callback for as long as it runs; it need never end
\* by itself.
FairSpec ==
    /\ Spec
    /\ \A c \in Calls : WF_vars(Steps(c)) /\ WF_vars(Watch(c)) /\ WF_vars(AbortPoll(c))

\* A cancelled ctx, or a panic in a callback, ends the inference and the call; only
\* a callback that is itself in a Transcribe holds it up (session.go runFull).
CancelEndsCall ==
    \A c \in Calls :
        pc[c] = "infer" /\ (ctxDone[c] \/ panicked[c])
            ~> pc[c] = "done" \/ InCallback(c)

\* When every ctx is done every call ends, the ones that wait for m.mu and the ones
\* that wait for a callback's call too: each holder gives the mutex up whatever its
\* call came to (session.go Model.Transcribe, the defer).
CancelAllEndsAll ==
    \A c \in Calls :
        UnderWay(c) /\ (\A d \in Calls : ctxDone[d]) ~> pc[c] = "done"

\* The watcher ends with its call.
NoWatcherLeak == \A c \in Calls : pc[c] = "done" ~> watcher[c] # "waiting"

=============================================================================
