-------------------------- MODULE InferenceProofs --------------------------
(***************************************************************************)
(* Safety of Transcribe, proved for any number of calls and sessions and    *)
(* any assignment of calls to sessions.                                     *)
(***************************************************************************)
EXTENDS Inference, TLAPS

Running(c) == pc[c] \in {"start", "infer", "returned", "copy", "defers"}

\* A call past Lock holds m.mu.
HoldsMutex == \A c \in Calls : Running(c) /\ OnModel(c) => mu = c

\* One call at a time on a session.
SoloOnSession ==
    \A c, d \in Calls :
        /\ UnderWay(c) /\ UnderWay(d) /\ ~OnModel(c)
        /\ SessionOf[c] = SessionOf[d]
        => c = d

\* What a call found open stays open.
StaysOpen == \A c \in Calls : UnderWay(c) => Open(c)

\* Where the flags of a call come from, and when its outcome is fixed.
Provenance ==
    \A c \in Calls :
        /\ aborted[c] => ctxDone[c] \/ panicked[c]
        /\ panicked[c] => pc[c] \in {"infer", "returned", "copy", "defers"}
        /\ pc[c] \in {"idle", "lock", "start", "infer", "returned"} => outcome[c] = "none"
        /\ pc[c] = "copy" => outcome[c] = "ok"
        /\ pc[c] = "defers" => outcome[c] \notin {"none", "closed"}
        /\ transcript[c] # NoCall => pc[c] \in {"defers", "done"} /\ outcome[c] = "ok"
        /\ lateStart[c] => ctxDone[c]
        /\ lateStart[c] /\ pc[c] \in {"infer", "returned"} => aborted[c]

\* A ctx that was done before the call keeps it from a transcript, however late
\* its watcher is scheduled (session.go runFull, "already canceled").
CanceledBeforeCall == \A c \in Calls : lateStart[c] => outcome[c] \notin {"ok", "failed"}

Inv ==
    /\ TypeOK /\ HoldsMutex /\ SoloOnSession /\ StaysOpen /\ Provenance
    /\ OwnResult /\ OutcomeHonest /\ CanceledBeforeCall

-----------------------------------------------------------------------------
\* The invariant holds before the first call.
LEMMA InvInit == Init => Inv
BY DEF Init, Inv, TypeOK, PCs, Outcomes, HoldsMutex, SoloOnSession, StaysOpen,
   Provenance, OwnResult, OutcomeHonest, CanceledBeforeCall, Running, UnderWay

-----------------------------------------------------------------------------
(* Every step keeps every part of the invariant. *)

\* Types.
LEMMA TypeStep == ASSUME Inv, [Next]_vars PROVE TypeOK'
<1> USE DEF Inv, TypeOK, PCs, Outcomes
<1>1. ASSUME NEW s \in Sessions, NewSession(s) \/ CloseSession(s)
      PROVE  TypeOK'
    <2>1. state' \in [Sessions -> {"none", "live", "nil"}]
        BY <1>1 DEF NewSession, CloseSession
    <2>2. UNCHANGED <<ptr, mu, callVars, historyVars>>
        BY <1>1 DEF NewSession, CloseSession
    <2> QED
        BY <2>1, <2>2 DEF callVars, historyVars
<1>2. CASE CloseModel
    BY <1>2 DEF CloseModel, callVars, historyVars
<1>3. ASSUME NEW c \in Calls, CancelCtx(c)
      PROVE  TypeOK'
    BY <1>3 DEF CancelCtx, modelVars, historyVars
<1>4. ASSUME NEW c \in Calls, NEW from \in Calls \cup {NoCall}, TranscribeFrom(from, c)
      PROVE  TypeOK'
    <2>1. pc' \in [Calls -> PCs] /\ outcome' \in [Calls -> Outcomes \cup {"none"}]
        BY <1>4 DEF TranscribeFrom
    <2>2. lateStart' \in [Calls -> BOOLEAN]
        BY <1>4 DEF TranscribeFrom
    <2>3. caller' \in [Calls -> Calls \cup {NoCall}]
        BY <1>4 DEF TranscribeFrom
    <2>4. \A d \in Calls : pc'[d] = "done" => outcome'[d] # "none"
        BY <1>4 DEF TranscribeFrom
    <2>5. UNCHANGED <<modelVars, ctxDone, aborted, panicked, watcher, rc, transcript,
                      lastRun>>
        BY <1>4 DEF TranscribeFrom
    <2> QED
        BY <2>1, <2>2, <2>3, <2>4, <2>5 DEF modelVars
<1>5. ASSUME NEW c \in Calls, Lock(c) \/ StartEmpty(c)
      PROVE  TypeOK'
    BY <1>5 DEF Lock, StartEmpty, modelVars, historyVars
<1>6. ASSUME NEW c \in Calls, Start(c)
      PROVE  TypeOK'
    <2>1. SessionOf[c] \in Sessions \cup {NoSession}
        BY InferenceAssumption
    <2> QED
        BY <1>6, <2>1 DEF Start, modelVars
<1>7. ASSUME NEW c \in Calls, Watch(c)
      PROVE  TypeOK'
    <2>1. aborted' \in [Calls -> BOOLEAN]
        BY <1>7 DEF Watch
    <2>2. watcher' = [watcher EXCEPT ![c] = "done"]
        BY <1>7 DEF Watch
    <2>3. UNCHANGED <<modelVars, pc, ctxDone, panicked, rc, outcome, transcript, caller,
                      historyVars>>
        BY <1>7 DEF Watch
    <2> QED
        BY <2>1, <2>2, <2>3 DEF modelVars, historyVars
<1>8. ASSUME NEW c \in Calls, CallbackPanics(c)
      PROVE  TypeOK'
    BY <1>8 DEF CallbackPanics, modelVars, historyVars
<1>9. ASSUME NEW c \in Calls, Whisper(c)
      PROVE  TypeOK'
    <2>1. rc' \in [Calls -> BOOLEAN]
        BY <1>9 DEF Whisper, AbortPoll, WhisperReturns
    <2>2. pc' = [pc EXCEPT ![c] = "returned"]
        BY <1>9 DEF Whisper, AbortPoll, WhisperReturns
    <2>3. UNCHANGED <<modelVars, ctxDone, aborted, panicked, watcher, outcome, transcript,
                      caller, historyVars>>
        BY <1>9 DEF Whisper, AbortPoll, WhisperReturns
    <2> QED
        BY <2>1, <2>2, <2>3 DEF modelVars, historyVars
<1>10. ASSUME NEW c \in Calls, Decide(c)
       PROVE  TypeOK'
    <2>1. Verdicts(c) \subseteq Outcomes
        BY DEF Verdicts, Outcomes, Panics
    <2> QED
        BY <1>10, <2>1 DEF Decide, modelVars, historyVars
<1>11. ASSUME NEW c \in Calls, Copy(c)
       PROVE  TypeOK'
    <2>1. transcript' \in [Calls -> Calls \cup {NoCall}]
        <3>1. lastRun[SessionOf[c]] \in Calls \cup {NoCall}
            BY InferenceAssumption
        <3> QED
            BY <1>11, <3>1 DEF Copy
    <2>2. pc' = [pc EXCEPT ![c] = "defers"]
        BY <1>11 DEF Copy
    <2>3. UNCHANGED <<modelVars, ctxDone, aborted, panicked, watcher, rc, outcome,
                      caller, historyVars>>
        BY <1>11 DEF Copy
    <2> QED
        BY <2>1, <2>2, <2>3 DEF modelVars, historyVars
<1>12. ASSUME NEW c \in Calls, Return(c)
       PROVE  TypeOK'
    <2>1. /\ pc' = [pc EXCEPT ![c] = "done"]
          /\ caller' = [caller EXCEPT ![c] = NoCall]
          /\ mu' \in Calls \cup {NoCall}
        BY <1>12 DEF Return
    <2>2. /\ aborted' \in [Calls -> BOOLEAN] /\ panicked' \in [Calls -> BOOLEAN]
          /\ rc' \in [Calls -> BOOLEAN]
        BY <1>12 DEF Return
    <2>3. outcome[c] # "none"
        BY <1>12 DEF Return, Provenance
    <2>4. UNCHANGED <<ptr, state, ctxDone, watcher, outcome, transcript, historyVars>>
        BY <1>12 DEF Return
    <2> QED
        BY <2>1, <2>2, <2>3, <2>4 DEF historyVars
<1>13. CASE Finished \/ UNCHANGED vars
    BY <1>13 DEF Finished, vars, modelVars, callVars, historyVars
<1> QED
    BY <1>1, <1>2, <1>3, <1>4, <1>5, <1>6, <1>7, <1>8, <1>9, <1>10, <1>11, <1>12,
       <1>13 DEF Next, Steps, Transcribe, CallbackTranscribes

\* Model.Transcribe runs from Lock to Return with m.mu held.
LEMMA MutexStep == ASSUME Inv, [Next]_vars PROVE HoldsMutex'
<1> USE InferenceAssumption
<1> USE DEF Inv, TypeOK, HoldsMutex, Running, OnModel
<1>1. ASSUME NEW s \in Sessions, NewSession(s) \/ CloseSession(s)
      PROVE  HoldsMutex'
    BY <1>1 DEF NewSession, CloseSession, callVars, historyVars
<1>2. CASE CloseModel
    BY <1>2 DEF CloseModel, callVars, historyVars
<1>3. ASSUME NEW c \in Calls, CancelCtx(c) \/ Watch(c) \/ CallbackPanics(c)
      PROVE  HoldsMutex'
    BY <1>3 DEF CancelCtx, Watch, CallbackPanics, Runs, modelVars, historyVars
<1>4. ASSUME NEW c \in Calls, NEW from \in Calls \cup {NoCall}, TranscribeFrom(from, c)
      PROVE  HoldsMutex'
    BY <1>4 DEF TranscribeFrom, modelVars
<1>5. ASSUME NEW c \in Calls, Lock(c) \/ StartEmpty(c) \/ Start(c)
      PROVE  HoldsMutex'
    BY <1>5 DEF Lock, StartEmpty, Start, modelVars, historyVars
<1>6. ASSUME NEW c \in Calls, Whisper(c) \/ Decide(c) \/ Copy(c) \/ Return(c)
      PROVE  HoldsMutex'
    BY <1>6 DEF Whisper, AbortPoll, WhisperReturns, Runs, Decide, Copy, Return, modelVars,
       historyVars
<1>7. CASE Finished \/ UNCHANGED vars
    BY <1>7 DEF Finished, vars, modelVars, callVars, historyVars
<1> QED
    BY <1>1, <1>2, <1>3, <1>4, <1>5, <1>6, <1>7
       DEF Next, Steps, Transcribe, CallbackTranscribes

\* Transcribe does not join a call under way on its session.
LEMMA SoloStep == ASSUME Inv, [Next]_vars PROVE SoloOnSession'
<1> USE InferenceAssumption
<1> USE DEF Inv, TypeOK, SoloOnSession, UnderWay, OnModel
<1>1. ASSUME NEW s \in Sessions, NewSession(s) \/ CloseSession(s)
      PROVE  SoloOnSession'
    BY <1>1 DEF NewSession, CloseSession, callVars, historyVars
<1>2. CASE CloseModel
    BY <1>2 DEF CloseModel, callVars, historyVars
<1>3. ASSUME NEW c \in Calls, CancelCtx(c) \/ Watch(c) \/ CallbackPanics(c)
      PROVE  SoloOnSession'
    BY <1>3 DEF CancelCtx, Watch, CallbackPanics, Runs, modelVars, historyVars
<1>4. ASSUME NEW c \in Calls, NEW from \in Calls \cup {NoCall}, TranscribeFrom(from, c)
      PROVE  SoloOnSession'
    BY <1>4 DEF TranscribeFrom, modelVars
<1>5. ASSUME NEW c \in Calls, Lock(c) \/ StartEmpty(c) \/ Start(c)
      PROVE  SoloOnSession'
    BY <1>5 DEF Lock, StartEmpty, Start, modelVars, historyVars
<1>6. ASSUME NEW c \in Calls, Whisper(c) \/ Decide(c) \/ Copy(c) \/ Return(c)
      PROVE  SoloOnSession'
    BY <1>6 DEF Whisper, AbortPoll, WhisperReturns, Runs, Decide, Copy, Return, modelVars,
       historyVars
<1>7. CASE Finished \/ UNCHANGED vars
    BY <1>7 DEF Finished, vars, modelVars, callVars, historyVars
<1> QED
    BY <1>1, <1>2, <1>3, <1>4, <1>5, <1>6, <1>7
       DEF Next, Steps, Transcribe, CallbackTranscribes

\* Neither Close frees what a call under way has found open.
LEMMA OpenStep == ASSUME Inv, [Next]_vars PROVE StaysOpen'
<1> USE InferenceAssumption
<1> USE DEF Inv, TypeOK, StaysOpen, UnderWay, Open, OnModel
<1>1. ASSUME NEW s \in Sessions, NewSession(s) \/ CloseSession(s)
      PROVE  StaysOpen'
    BY <1>1 DEF NewSession, CloseSession, callVars, historyVars
<1>2. CASE CloseModel
    BY <1>2 DEF CloseModel, callVars, historyVars
<1>3. ASSUME NEW c \in Calls, CancelCtx(c) \/ Watch(c) \/ CallbackPanics(c)
      PROVE  StaysOpen'
    BY <1>3 DEF CancelCtx, Watch, CallbackPanics, Runs, modelVars, historyVars
<1>4. ASSUME NEW c \in Calls, NEW from \in Calls \cup {NoCall}, TranscribeFrom(from, c)
      PROVE  StaysOpen'
    BY <1>4 DEF TranscribeFrom, modelVars
<1>5. ASSUME NEW c \in Calls, Lock(c) \/ StartEmpty(c) \/ Start(c)
      PROVE  StaysOpen'
    BY <1>5 DEF Lock, StartEmpty, Start, modelVars, historyVars
<1>6. ASSUME NEW c \in Calls, Whisper(c) \/ Decide(c) \/ Copy(c) \/ Return(c)
      PROVE  StaysOpen'
    BY <1>6 DEF Whisper, AbortPoll, WhisperReturns, Runs, Decide, Copy, Return, modelVars,
       historyVars
<1>7. CASE Finished \/ UNCHANGED vars
    BY <1>7 DEF Finished, vars, modelVars, callVars, historyVars
<1> QED
    BY <1>1, <1>2, <1>3, <1>4, <1>5, <1>6, <1>7
       DEF Next, Steps, Transcribe, CallbackTranscribes

\* Each flag of runFull keeps its meaning.
LEMMA ProvenanceStep == ASSUME Inv, [Next]_vars PROVE Provenance'
<1> USE InferenceAssumption
<1> USE DEF Inv, TypeOK, Provenance, Verdicts, Panics
<1>1. ASSUME NEW s \in Sessions, NewSession(s) \/ CloseSession(s)
      PROVE  Provenance'
    BY <1>1 DEF NewSession, CloseSession, callVars, historyVars
<1>2. CASE CloseModel
    BY <1>2 DEF CloseModel, callVars, historyVars
<1>3. ASSUME NEW c \in Calls, CancelCtx(c) \/ Watch(c) \/ CallbackPanics(c)
      PROVE  Provenance'
    BY <1>3 DEF CancelCtx, Watch, CallbackPanics, Runs, modelVars, historyVars
<1>4. ASSUME NEW c \in Calls, NEW from \in Calls \cup {NoCall}, TranscribeFrom(from, c)
      PROVE  Provenance'
    BY <1>4 DEF TranscribeFrom, modelVars
<1>5. ASSUME NEW c \in Calls, Lock(c) \/ StartEmpty(c) \/ Start(c)
      PROVE  Provenance'
    BY <1>5 DEF Lock, StartEmpty, Start, modelVars, historyVars
<1>6. ASSUME NEW c \in Calls, Whisper(c) \/ Decide(c) \/ Copy(c) \/ Return(c)
      PROVE  Provenance'
    BY <1>6 DEF Whisper, AbortPoll, WhisperReturns, Runs, Decide, Copy, Return, modelVars,
       historyVars
<1>7. CASE Finished \/ UNCHANGED vars
    BY <1>7 DEF Finished, vars, modelVars, callVars, historyVars
<1> QED
    BY <1>1, <1>2, <1>3, <1>4, <1>5, <1>6, <1>7
       DEF Next, Steps, Transcribe, CallbackTranscribes

\* Only the owner of a whisper state starts an inference on it.
LEMMA OwnStep == ASSUME Inv, [Next]_vars PROVE OwnResult'
<1> USE InferenceAssumption
<1> USE DEF Inv, TypeOK, HoldsMutex, SoloOnSession, OwnResult, Running, UnderWay, OnModel
<1>1. ASSUME NEW s \in Sessions, NewSession(s) \/ CloseSession(s)
      PROVE  OwnResult'
    BY <1>1 DEF NewSession, CloseSession, callVars, historyVars
<1>2. CASE CloseModel
    BY <1>2 DEF CloseModel, callVars, historyVars
<1>3. ASSUME NEW c \in Calls, CancelCtx(c) \/ Watch(c) \/ CallbackPanics(c)
      PROVE  OwnResult'
    BY <1>3 DEF CancelCtx, Watch, CallbackPanics, Runs, modelVars, historyVars
<1>4. ASSUME NEW c \in Calls, NEW from \in Calls \cup {NoCall}, TranscribeFrom(from, c)
      PROVE  OwnResult'
    BY <1>4 DEF TranscribeFrom, modelVars
<1>5. ASSUME NEW c \in Calls, Lock(c) \/ StartEmpty(c) \/ Start(c)
      PROVE  OwnResult'
    BY <1>5 DEF Lock, StartEmpty, Start, modelVars, historyVars
<1>6. ASSUME NEW c \in Calls, Whisper(c) \/ Decide(c) \/ Copy(c) \/ Return(c)
      PROVE  OwnResult'
    BY <1>6 DEF Whisper, AbortPoll, WhisperReturns, Runs, Decide, Copy, Return, modelVars,
       historyVars
<1>7. CASE Finished \/ UNCHANGED vars
    BY <1>7 DEF Finished, vars, modelVars, callVars, historyVars
<1> QED
    BY <1>1, <1>2, <1>3, <1>4, <1>5, <1>6, <1>7
       DEF Next, Steps, Transcribe, CallbackTranscribes

\* runFull's checks after the C call, in their order.
LEMMA OutcomeStep == ASSUME Inv, [Next]_vars PROVE OutcomeHonest'
<1> USE InferenceAssumption
<1> USE DEF Inv, TypeOK, Provenance, OutcomeHonest, Verdicts, Panics
<1>1. ASSUME NEW s \in Sessions, NewSession(s) \/ CloseSession(s)
      PROVE  OutcomeHonest'
    BY <1>1 DEF NewSession, CloseSession, callVars, historyVars
<1>2. CASE CloseModel
    BY <1>2 DEF CloseModel, callVars, historyVars
<1>3. ASSUME NEW c \in Calls, CancelCtx(c) \/ Watch(c) \/ CallbackPanics(c)
      PROVE  OutcomeHonest'
    BY <1>3 DEF CancelCtx, Watch, CallbackPanics, Runs, modelVars, historyVars
<1>4. ASSUME NEW c \in Calls, NEW from \in Calls \cup {NoCall}, TranscribeFrom(from, c)
      PROVE  OutcomeHonest'
    BY <1>4 DEF TranscribeFrom, modelVars
<1>5. ASSUME NEW c \in Calls, Lock(c) \/ StartEmpty(c) \/ Start(c)
      PROVE  OutcomeHonest'
    BY <1>5 DEF Lock, StartEmpty, Start, modelVars, historyVars
<1>6. ASSUME NEW c \in Calls, Whisper(c) \/ Decide(c) \/ Copy(c) \/ Return(c)
      PROVE  OutcomeHonest'
    BY <1>6 DEF Whisper, AbortPoll, WhisperReturns, Runs, Decide, Copy, Return, modelVars,
       historyVars
<1>7. CASE Finished \/ UNCHANGED vars
    BY <1>7 DEF Finished, vars, modelVars, callVars, historyVars
<1> QED
    BY <1>1, <1>2, <1>3, <1>4, <1>5, <1>6, <1>7
       DEF Next, Steps, Transcribe, CallbackTranscribes

\* A ctx that was done before the call has set the flag before the inference.
LEMMA CanceledStep == ASSUME Inv, [Next]_vars PROVE CanceledBeforeCall'
<1> USE InferenceAssumption
<1> USE DEF Inv, TypeOK, Provenance, CanceledBeforeCall, Verdicts, Panics
<1>1. ASSUME NEW s \in Sessions, NewSession(s) \/ CloseSession(s)
      PROVE  CanceledBeforeCall'
    BY <1>1 DEF NewSession, CloseSession, callVars, historyVars
<1>2. CASE CloseModel
    BY <1>2 DEF CloseModel, callVars, historyVars
<1>3. ASSUME NEW c \in Calls, CancelCtx(c) \/ Watch(c) \/ CallbackPanics(c)
      PROVE  CanceledBeforeCall'
    BY <1>3 DEF CancelCtx, Watch, CallbackPanics, Runs, modelVars, historyVars
<1>4. ASSUME NEW c \in Calls, NEW from \in Calls \cup {NoCall}, TranscribeFrom(from, c)
      PROVE  CanceledBeforeCall'
    BY <1>4 DEF TranscribeFrom, modelVars
<1>5. ASSUME NEW c \in Calls, Lock(c) \/ StartEmpty(c) \/ Start(c)
      PROVE  CanceledBeforeCall'
    BY <1>5 DEF Lock, StartEmpty, Start, modelVars, historyVars
<1>6. ASSUME NEW c \in Calls, Whisper(c) \/ Decide(c) \/ Copy(c) \/ Return(c)
      PROVE  CanceledBeforeCall'
    BY <1>6 DEF Whisper, AbortPoll, WhisperReturns, Runs, Decide, Copy, Return, modelVars,
       historyVars
<1>7. CASE Finished \/ UNCHANGED vars
    BY <1>7 DEF Finished, vars, modelVars, callVars, historyVars
<1> QED
    BY <1>1, <1>2, <1>3, <1>4, <1>5, <1>6, <1>7
       DEF Next, Steps, Transcribe, CallbackTranscribes

-----------------------------------------------------------------------------
\* The invariant is inductive.
THEOREM InferenceInvariant == Spec => []Inv
<1>1. Init => Inv
    BY InvInit
<1>2. Inv /\ [Next]_vars => Inv'
    <2> SUFFICES ASSUME Inv, [Next]_vars PROVE Inv'
        OBVIOUS
    <2> QED
        BY TypeStep, MutexStep, SoloStep, OpenStep, ProvenanceStep, OwnStep,
           OutcomeStep, CanceledStep DEF Inv
<1> QED
    BY <1>1, <1>2, PTL DEF Spec

\* Every variable of the inference core keeps its type, and a call that has
\* returned has an outcome (session.go runFull: every path returns something).
THEOREM InferenceTyping == Spec => []TypeOK
BY InferenceInvariant, PTL DEF Inv

\* The whisper state is written by no other call between the C call and the copy
\* of the result (session.go Model.Transcribe, m.mu held until runFull returns).
THEOREM TranscriptIsOwn == Spec => []OwnResult
BY InferenceInvariant, PTL DEF Inv

\* The nil checks of session.go suffice under the documented discipline of
\* Close: no inference on a freed context or state.
THEOREM NoInferenceAfterFree == Spec => []NoUseAfterFree
<1>1. Inv => NoUseAfterFree
    BY InferenceAssumption
       DEF Inv, StaysOpen, NoUseAfterFree, UnderWay, Open, OnModel
<1> QED
    BY <1>1, InferenceInvariant, PTL

\* ErrCanceled needs a done ctx, a callback's panic always comes out, a
\* transcript comes only from a run that was neither (session.go runFull).
THEOREM OutcomesAreHonest == Spec => []OutcomeHonest
BY InferenceInvariant, PTL DEF Inv

\* A ctx that was done before the call keeps it from returning a transcript
\* (session.go runFull, "already canceled").
THEOREM CanceledStaysCanceled == Spec => []CanceledBeforeCall
BY InferenceInvariant, PTL DEF Inv

-----------------------------------------------------------------------------
(* Calls implement TranscribeService. *)

\* A step that moves no call into or out of Transcribe shows nothing of itself.
LEMMA InsideIsHidden ==
    ASSUME TypeOK,
           \A c \in Calls : pc'[c] = pc[c] \/ {pc[c], pc'[c]} \cap {"idle", "done"} = {},
           \A c \in Calls : pc[c] = "done" =>
               outcome'[c] = outcome[c] /\ transcript'[c] = transcript[c],
           UNCHANGED <<ctxDone, lateStart>>
    PROVE  UNCHANGED Service!vars
<1>1. \A c \in Calls : /\ pc'[c] = "idle" <=> pc[c] = "idle"
                       /\ pc'[c] = "done" <=> pc[c] = "done"
    OBVIOUS
<1> QED
    BY <1>1 DEF Service!vars

LEMMA CallIsServiceStep ==
    ASSUME Inv, NEW c \in Calls, NEW from \in Calls \cup {NoCall}, TranscribeFrom(from, c)
    PROVE  Service!Next
<1> USE DEF Inv, TypeOK
<1>1. /\ pc[c] = "idle" /\ UNCHANGED <<ctxDone, transcript>>
      /\ lateStart' = [lateStart EXCEPT ![c] = ctxDone[c]]
    BY DEF TranscribeFrom
<1>2. CASE Open(c)
    <2>1. \A d \in Calls : pc'[d] = IF d = c THEN pc'[c] ELSE pc[d]
        BY DEF TranscribeFrom
    <2>2. pc'[c] \in {"lock", "start"} /\ \A d \in Calls : d # c => outcome'[d] = outcome[d]
        BY <1>2 DEF TranscribeFrom
    <2>3. Service!Call(c)
        BY <1>1, <2>1, <2>2 DEF Service!Call
    <2> QED
        BY <2>3 DEF Service!Next
<1>3. CASE ~Open(c)
    <2>1. \A d \in Calls : pc'[d] = IF d = c THEN "done" ELSE pc[d]
        BY <1>3 DEF TranscribeFrom
    <2>2. \A d \in Calls : outcome'[d] = IF d = c THEN "closed" ELSE outcome[d]
        BY <1>3 DEF TranscribeFrom
    <2>3. transcript[c] = NoCall
        BY <1>1 DEF Provenance
    <2>4. Service!Refuse(c)
        BY <1>1, <2>1, <2>2, <2>3 DEF Service!Refuse
    <2> QED
        BY <2>4 DEF Service!Next
<1> QED
    BY <1>2, <1>3

\* The deferred calls end the call with an outcome it may have, and its transcript.
LEMMA ReturnIsServiceStep ==
    ASSUME Inv, NEW c \in Calls, Return(c)
    PROVE  Service!Next
<1> USE DEF Inv, TypeOK
<1>1. /\ pc[c] = "defers" /\ \A d \in Calls : pc'[d] = IF d = c THEN "done" ELSE pc[d]
      /\ UNCHANGED <<ctxDone, lateStart, outcome, transcript>>
    BY DEF Return, historyVars
<1>2. outcome[c] \in MayReturn(ctxDone[c]) \ {"closed"}
    BY <1>1 DEF Provenance, OutcomeHonest, MayReturn
<1>3. lateStart[c] => outcome[c] \notin {"ok", "failed"}
    BY DEF CanceledBeforeCall
<1>4. transcript[c] \in {c, NoCall} /\ (outcome[c] # "ok" => transcript[c] = NoCall)
    BY DEF OwnResult, Provenance
<1> DEFINE answer == [d \in Calls |-> IF pc[d] = "done" THEN outcome[d] ELSE "none"]
           given == [d \in Calls |-> IF pc[d] = "done" THEN transcript[d] ELSE NoCall]
<1>5. answer' = [answer EXCEPT ![c] = outcome[c]]
    BY <1>1
<1>6. given' = [given EXCEPT ![c] = transcript[c]]
    BY <1>1
<1>7. outcome[c] \in Service!MayReturn(ctxDone[c]) \ {"closed"}
    BY <1>2 DEF MayReturn, Outcomes, Panics, Service!MayReturn,
       Service!Outcomes, Service!Panics
<1> DEFINE phase == [d \in Calls |-> IF pc[d] = "idle" THEN "idle"
                                    ELSE IF pc[d] = "done" THEN "returned" ELSE "called"]
<1>8. phase[c] = "called" /\ phase' = [phase EXCEPT ![c] = "returned"]
    BY <1>1
<1>9. UNCHANGED <<ctxDone, lateStart>>
    BY <1>1
<1>10. Service!Return(c)
    BY <1>3, <1>4, <1>5, <1>6, <1>7, <1>8, <1>9, Zenon DEF Service!Return
<1> QED
    BY <1>10 DEF Service!Next

LEMMA StepIsServiceStep ==
    ASSUME Inv, [Next]_vars
    PROVE  [Service!Next]_(Service!vars)
<1> USE DEF Inv, TypeOK
<1>1. ASSUME NEW c \in Calls, CancelCtx(c)
      PROVE  Service!Next
    <2>1. ctxDone' \in [Calls -> BOOLEAN] /\ \A d \in Calls : ctxDone[d] => ctxDone'[d]
        BY <1>1, Zenon DEF CancelCtx
    <2>2. UNCHANGED <<pc, outcome, transcript, lateStart>>
        BY <1>1 DEF CancelCtx, historyVars
    <2> QED
        BY <2>1, <2>2 DEF Service!Cancel, Service!Next
<1>2. ASSUME NEW c \in Calls, Lock(c) \/ StartEmpty(c) \/ Start(c) \/ Decide(c)
      PROVE  UNCHANGED Service!vars
    <2>1. UNCHANGED <<ctxDone, lateStart>>
        BY <1>2 DEF Lock, StartEmpty, Start, Decide, historyVars
    <2>2. \A d \in Calls : pc'[d] = pc[d] \/ {pc[d], pc'[d]} \cap {"idle", "done"} = {}
        BY <1>2 DEF Lock, StartEmpty, Start, Decide
    <2>3. \A d \in Calls : pc[d] = "done" =>
             outcome'[d] = outcome[d] /\ transcript'[d] = transcript[d]
        BY <1>2 DEF Lock, StartEmpty, Start, Decide
    <2> QED
        BY <2>1, <2>2, <2>3, InsideIsHidden
<1>3. ASSUME NEW c \in Calls, Copy(c) \/ Whisper(c) \/ CallbackPanics(c) \/ Watch(c)
      PROVE  UNCHANGED Service!vars
    <2>1. UNCHANGED <<ctxDone, lateStart>>
        BY <1>3 DEF Copy, Whisper, AbortPoll, WhisperReturns, CallbackPanics, Watch,
           historyVars
    <2>2. \A d \in Calls : pc'[d] = pc[d] \/ {pc[d], pc'[d]} \cap {"idle", "done"} = {}
        BY <1>3 DEF Copy, Whisper, AbortPoll, WhisperReturns, Runs, CallbackPanics, Watch
    <2>3. \A d \in Calls : pc[d] = "done" =>
             outcome'[d] = outcome[d] /\ transcript'[d] = transcript[d]
        BY <1>3 DEF Copy, Whisper, AbortPoll, WhisperReturns, CallbackPanics, Watch
    <2> QED
        BY <2>1, <2>2, <2>3, InsideIsHidden
<1>4. CASE UNCHANGED <<callVars, lateStart>>
    BY <1>4 DEF callVars, Service!vars
<1> QED
    BY <1>1, <1>2, <1>3, <1>4, CallIsServiceStep, ReturnIsServiceStep
       DEF Next, Steps, Transcribe, CallbackTranscribes, NewSession, CloseSession,
       CloseModel, Finished, vars, historyVars

\* Every Transcribe keeps what it promises its caller, which is what a stream's
\* worker relies on (session.go runFull; stream.go run, errors.Is(err, ErrCanceled)).
THEOREM TranscribeImplementsService == Spec => ImplementsService
<1>1. Init => Service!Init
    BY DEF Init, Service!Init
<1>2. Inv /\ [Next]_vars => [Service!Next]_(Service!vars)
    BY StepIsServiceStep
<1> QED
    BY <1>1, <1>2, InferenceInvariant, PTL DEF Spec, ImplementsService, Service!Spec

-----------------------------------------------------------------------------
(* Who waits for whom. *)

\* The mutex is held by a call on the model that is past Lock and not over.
HolderRuns == mu # NoCall => Running(mu) /\ OnModel(mu)

\* A call made in a callback has a caller that whisper is running for, and that no
\* callback made.
Nesting ==
    \A c \in Calls : caller[c] # NoCall =>
        /\ UnderWay(c) /\ caller[c] \in MadeBy[c]
        /\ pc[caller[c]] = "infer" /\ caller[caller[c]] = NoCall

LocksModel == \A c \in Calls : pc[c] = "lock" => OnModel(c)

WaitInv == HolderRuns /\ Nesting /\ LocksModel

\* The mutex has no holder but a call between Lock and Return.
LEMMA HolderStep == ASSUME Inv, HolderRuns, LocksModel, [Next]_vars PROVE HolderRuns'
<1> USE InferenceAssumption
<1> USE DEF Inv, TypeOK, HolderRuns, LocksModel, Running, OnModel
<1>1. ASSUME NEW s \in Sessions, NewSession(s) \/ CloseSession(s)
      PROVE  HolderRuns'
    BY <1>1 DEF NewSession, CloseSession, callVars, historyVars
<1>2. CASE CloseModel
    BY <1>2 DEF CloseModel, callVars, historyVars
<1>3. ASSUME NEW c \in Calls, CancelCtx(c) \/ Watch(c) \/ CallbackPanics(c)
      PROVE  HolderRuns'
    BY <1>3 DEF CancelCtx, Watch, CallbackPanics, Runs, modelVars, historyVars
<1>4. ASSUME NEW c \in Calls, NEW from \in Calls \cup {NoCall}, TranscribeFrom(from, c)
      PROVE  HolderRuns'
    BY <1>4 DEF TranscribeFrom, Runs, modelVars
<1>5. ASSUME NEW c \in Calls, Lock(c) \/ StartEmpty(c) \/ Start(c)
      PROVE  HolderRuns'
    BY <1>5 DEF Lock, StartEmpty, Start, modelVars, historyVars
<1>6. ASSUME NEW c \in Calls, Whisper(c) \/ Decide(c) \/ Copy(c) \/ Return(c)
      PROVE  HolderRuns'
    BY <1>6 DEF Whisper, AbortPoll, WhisperReturns, Runs, Decide, Copy, Return, modelVars,
       historyVars
<1>7. CASE Finished \/ UNCHANGED vars
    BY <1>7 DEF Finished, vars, modelVars, callVars, historyVars
<1> QED
    BY <1>1, <1>2, <1>3, <1>4, <1>5, <1>6, <1>7
       DEF Next, Steps, Transcribe, CallbackTranscribes

\* Only Model.Transcribe takes the mutex.
LEMMA LocksStep == ASSUME Inv, LocksModel, [Next]_vars PROVE LocksModel'
<1> USE InferenceAssumption
<1> USE DEF Inv, TypeOK, LocksModel, OnModel
<1>1. ASSUME NEW s \in Sessions, NewSession(s) \/ CloseSession(s)
      PROVE  LocksModel'
    BY <1>1 DEF NewSession, CloseSession, callVars, historyVars
<1>2. CASE CloseModel
    BY <1>2 DEF CloseModel, callVars, historyVars
<1>3. ASSUME NEW c \in Calls, CancelCtx(c) \/ Watch(c) \/ CallbackPanics(c)
      PROVE  LocksModel'
    BY <1>3 DEF CancelCtx, Watch, CallbackPanics, Runs, modelVars, historyVars
<1>4. ASSUME NEW c \in Calls, NEW from \in Calls \cup {NoCall}, TranscribeFrom(from, c)
      PROVE  LocksModel'
    BY <1>4 DEF TranscribeFrom, Runs, modelVars
<1>5. ASSUME NEW c \in Calls, Lock(c) \/ StartEmpty(c) \/ Start(c)
      PROVE  LocksModel'
    BY <1>5 DEF Lock, StartEmpty, Start, modelVars, historyVars
<1>6. ASSUME NEW c \in Calls, Whisper(c) \/ Decide(c) \/ Copy(c) \/ Return(c)
      PROVE  LocksModel'
    BY <1>6 DEF Whisper, AbortPoll, WhisperReturns, Runs, Decide, Copy, Return, modelVars,
       historyVars
<1>7. CASE Finished \/ UNCHANGED vars
    BY <1>7 DEF Finished, vars, modelVars, callVars, historyVars
<1> QED
    BY <1>1, <1>2, <1>3, <1>4, <1>5, <1>6, <1>7
       DEF Next, Steps, Transcribe, CallbackTranscribes

\* whisper does not go on, and so does not return, before its callback has.
LEMMA NestingStep == ASSUME Inv, Nesting, [Next]_vars PROVE Nesting'
<1> USE InferenceAssumption
<1> USE DEF Inv, TypeOK, Nesting, UnderWay, InCallback
<1>1. ASSUME NEW s \in Sessions, NewSession(s) \/ CloseSession(s)
      PROVE  Nesting'
    BY <1>1 DEF NewSession, CloseSession, callVars, historyVars
<1>2. CASE CloseModel
    BY <1>2 DEF CloseModel, callVars, historyVars
<1>3. ASSUME NEW c \in Calls, CancelCtx(c) \/ Watch(c) \/ CallbackPanics(c)
      PROVE  Nesting'
    BY <1>3 DEF CancelCtx, Watch, CallbackPanics, Runs, modelVars, historyVars
<1>4. ASSUME NEW c \in Calls, NEW from \in Calls \cup {NoCall}, TranscribeFrom(from, c),
             from # NoCall => Runs(from) /\ caller[from] = NoCall
      PROVE  Nesting'
    BY <1>4 DEF TranscribeFrom, Runs, modelVars
<1>5. ASSUME NEW c \in Calls, Lock(c) \/ StartEmpty(c) \/ Start(c)
      PROVE  Nesting'
    BY <1>5 DEF Lock, StartEmpty, Start, modelVars, historyVars
<1>6. ASSUME NEW c \in Calls, Whisper(c) \/ Decide(c) \/ Copy(c) \/ Return(c)
      PROVE  Nesting'
    BY <1>6 DEF Whisper, AbortPoll, WhisperReturns, Runs, Decide, Copy, Return, modelVars,
       historyVars
<1>7. CASE Finished \/ UNCHANGED vars
    BY <1>7 DEF Finished, vars, modelVars, callVars, historyVars
<1> QED
    BY <1>1, <1>2, <1>3, <1>4, <1>5, <1>6, <1>7
       DEF Next, Steps, Transcribe, CallbackTranscribes

\* NO CIRCULAR WAIT.  Whatever the calls, sessions and callbacks, and however they
\* are nested, whoever a call under way waits for ends in a call that can go on: the
\* mutex is never orphaned, and a callback never waits for its own inference
\* (session.go Model.Transcribe, callback.go).
THEOREM NobodyWaitsInCircles == Spec => []NoCircularWait
<1>1. Init => WaitInv
    BY InferenceAssumption
       DEF Init, WaitInv, HolderRuns, Nesting, LocksModel
<1>2. Inv /\ WaitInv /\ [Next]_vars => WaitInv'
    BY HolderStep, LocksStep, NestingStep DEF WaitInv
<1>3. Inv /\ WaitInv => NoCircularWait
    <2> SUFFICES ASSUME Inv, WaitInv, NEW c \in Calls, UnderWay(c)
                 PROVE  \E d \in Behind(Behind(Behind({c}))) : UnderWay(d) /\ ~Blocked(d)
        BY DEF NoCircularWait
    <2> USE DEF Inv, TypeOK
    <2>0. /\ \A S : S \subseteq Behind(S)
          /\ \A S : \A e \in S : \A d \in Calls : WaitsFor(e, d) => d \in Behind(S)
        BY DEF Behind
    \* A nested call is not blocked unless it is in Lock.
    <2>1. ASSUME NEW d \in Calls, NEW e \in Calls, caller[d] = e, Blocked(d)
          PROVE  pc[d] = "lock" /\ ~OnModel(e)
        <3>1. caller[d] # NoCall
            BY <2>1, InferenceAssumption
        <3>2. ~InCallback(d)
            BY <2>1, <3>1, InferenceAssumption DEF InCallback, WaitInv, Nesting
        <3>3. pc[d] = "lock"
            BY <2>1, <3>2 DEF Blocked
        <3>4. OnModel(d) /\ e \in MadeBy[d]
            BY <2>1, <3>1, <3>3 DEF WaitInv, LocksModel, Nesting
        <3>5. ~OnModel(e)
            BY <3>4, NestingAssumption DEF OnModel
        <3> QED
            BY <3>3, <3>5
    \* Two steps behind a call in Lock there is one that can go on.
    <2>2. ASSUME NEW S, NEW d \in S \cap Calls, pc[d] = "lock", mu # NoCall
          PROVE  \E f \in Behind(Behind(S)) : UnderWay(f) /\ ~Blocked(f)
        <3>1. /\ mu \in Calls /\ mu \in Behind(S) /\ mu \in Behind(Behind(S))
              /\ Running(mu) /\ OnModel(mu)
            BY <2>0, <2>2 DEF WaitsFor, WaitInv, HolderRuns
        <3>2. UnderWay(mu) /\ pc[mu] # "lock"
            BY <3>1 DEF Running, UnderWay
        <3>3. CASE ~Blocked(mu)
            BY <3>1, <3>2, <3>3
        <3>4. CASE Blocked(mu)
            <4>1. PICK f \in Calls : caller[f] = mu /\ pc[mu] = "infer"
                BY <3>2, <3>4 DEF Blocked, InCallback
            <4>2. f \in Behind(Behind(S))
                BY <2>0, <3>1, <4>1 DEF WaitsFor
            <4>3. UnderWay(f)
                BY <3>1, <4>1, InferenceAssumption DEF WaitInv, Nesting
            <4>4. ~Blocked(f)
                BY <2>1, <3>1, <4>1
            <4> QED
                BY <4>2, <4>3, <4>4
        <3> QED
            BY <3>3, <3>4
    <2>3. CASE ~Blocked(c)
        BY <2>0, <2>3
    <2>4. CASE pc[c] = "lock" /\ mu # NoCall
        <3>1. c \in Behind({c}) \cap Calls
            BY <2>0
        <3> QED
            BY <2>2, <2>4, <3>1
    <2>5. CASE pc[c] = "infer" /\ InCallback(c)
        <3>1. PICK d \in Calls : caller[d] = c
            BY <2>5 DEF InCallback
        <3>2. d \in Behind({c}) \cap Calls /\ d \in Behind(Behind(Behind({c})))
            BY <2>0, <2>5, <3>1 DEF WaitsFor
        <3>3. UnderWay(d)
            BY <3>1, InferenceAssumption DEF WaitInv, Nesting
        <3>4. CASE ~Blocked(d)
            BY <3>2, <3>3, <3>4
        <3>5. CASE Blocked(d)
            <4>1. pc[d] = "lock" /\ mu # NoCall
                BY <2>1, <3>1, <3>5 DEF Blocked
            <4> QED
                BY <2>2, <3>2, <4>1
        <3> QED
            BY <3>4, <3>5
    <2> QED
        BY <2>3, <2>4, <2>5 DEF Blocked
<1> QED
    BY <1>1, <1>2, <1>3, InferenceInvariant, PTL DEF Spec

-----------------------------------------------------------------------------
(* A cancel is not lost. *)

\* While whisper runs, the flag it polls is set or the watcher is there to set it,
\* and a callback's panic has set it.
CancelNotLost ==
    \A c \in Calls : pc[c] = "infer" =>
        /\ aborted[c] \/ watcher[c] = "waiting"
        /\ panicked[c] => aborted[c]

LEMMA CancelStep == ASSUME Inv, CancelNotLost, [Next]_vars PROVE CancelNotLost'
<1> USE InferenceAssumption
<1> USE DEF Inv, TypeOK, Provenance, CancelNotLost
<1>1. ASSUME NEW s \in Sessions, NewSession(s) \/ CloseSession(s)
      PROVE  CancelNotLost'
    BY <1>1 DEF NewSession, CloseSession, callVars, historyVars
<1>2. CASE CloseModel
    BY <1>2 DEF CloseModel, callVars, historyVars
<1>3. ASSUME NEW c \in Calls, CancelCtx(c) \/ Watch(c) \/ CallbackPanics(c)
      PROVE  CancelNotLost'
    BY <1>3 DEF CancelCtx, Watch, CallbackPanics, Runs, modelVars, historyVars
<1>4. ASSUME NEW c \in Calls, NEW from \in Calls \cup {NoCall}, TranscribeFrom(from, c)
      PROVE  CancelNotLost'
    BY <1>4 DEF TranscribeFrom, Runs, modelVars
<1>5. ASSUME NEW c \in Calls, Lock(c) \/ StartEmpty(c) \/ Start(c)
      PROVE  CancelNotLost'
    BY <1>5 DEF Lock, StartEmpty, Start, modelVars, historyVars
<1>6. ASSUME NEW c \in Calls, Whisper(c) \/ Decide(c) \/ Copy(c) \/ Return(c)
      PROVE  CancelNotLost'
    BY <1>6 DEF Whisper, AbortPoll, WhisperReturns, Runs, Decide, Copy, Return, modelVars,
       historyVars
<1>7. CASE Finished \/ UNCHANGED vars
    BY <1>7 DEF Finished, vars, modelVars, callVars, historyVars
<1> QED
    BY <1>1, <1>2, <1>3, <1>4, <1>5, <1>6, <1>7
       DEF Next, Steps, Transcribe, CallbackTranscribes

\* A cancel or a panic during an inference reaches whisper's next poll, or has a
\* watcher on its way to set the flag: what CancelEndsCall needs besides fairness
\* (session.go runFull's watcher, callback.go storePanic).
THEOREM CancelReachesWhisper == Spec => []CancelNotLost
<1>1. Init => CancelNotLost
    BY DEF Init, CancelNotLost
<1>2. Inv /\ CancelNotLost /\ [Next]_vars => CancelNotLost'
    BY CancelStep
<1> QED
    BY <1>1, <1>2, InferenceInvariant, PTL DEF Spec

-----------------------------------------------------------------------------
(* Calls end. *)

\* What is left of Transcribe, two for each of its steps.
StepsLeft(p) ==
    CASE p = "idle" -> 14 [] p = "lock" -> 12 [] p = "start" -> 10 [] p = "infer" -> 8
      [] p = "returned" -> 6 [] p = "copy" -> 4 [] p = "defers" -> 2 [] p = "done" -> 0

\* At most the steps that a call at p, with its watcher at w, has still to take.
Left(p, w) == StepsLeft(p) + (IF w = "waiting" THEN 1 ELSE 0)

CallLeft(c) == Left(pc[c], watcher[c])

\* A step of a call, of whisper on its behalf or of its watcher brings that call
\* nearer to its end, and no step of anybody sets any call back: nothing is retried,
\* re-locked or started twice, whatever is cancelled, closed or panics meanwhile
\* (session.go Model.Transcribe, Session.Transcribe, runFull).
CallsOnlyAdvance ==
    [][\A c \in Calls :
          /\ CallLeft(c)' <= CallLeft(c)
          /\ Steps(c) \/ Whisper(c) \/ Watch(c) => CallLeft(c)' < CallLeft(c)]_vars

LEMMA StepsLeftValues ==
    /\ StepsLeft("idle") = 14 /\ StepsLeft("lock") = 12 /\ StepsLeft("start") = 10
    /\ StepsLeft("infer") = 8 /\ StepsLeft("returned") = 6 /\ StepsLeft("copy") = 4
    /\ StepsLeft("defers") = 2 /\ StepsLeft("done") = 0
BY DEF StepsLeft

LEMMA LeftType ==
    ASSUME NEW p \in PCs, NEW w
    PROVE  StepsLeft(p) \in Nat /\ Left(p, w) \in StepsLeft(p)..(StepsLeft(p) + 1)
<1>1. StepsLeft(p) \in Nat
    BY StepsLeftValues DEF PCs
<1> QED
    BY <1>1 DEF Left

\* What a call gains by a waiting watcher is less than any of its steps.
LEMMA FurtherOn ==
    ASSUME NEW p \in PCs, NEW w, NEW q \in PCs, NEW v,
           \/ StepsLeft(q) + 2 <= StepsLeft(p)
           \/ q = p /\ w = "waiting" /\ v = "done"
    PROVE  Left(q, v) < Left(p, w) /\ Left(q, v) <= Left(p, w)
<1>1. /\ StepsLeft(p) \in Nat /\ Left(p, w) \in StepsLeft(p)..(StepsLeft(p) + 1)
      /\ StepsLeft(q) \in Nat /\ Left(q, v) \in StepsLeft(q)..(StepsLeft(q) + 1)
    BY LeftType
<1>2. CASE StepsLeft(q) + 2 <= StepsLeft(p)
    BY <1>1, <1>2
<1>3. CASE q = p /\ w = "waiting" /\ v = "done"
    <2>1. Left(p, w) = StepsLeft(p) + 1 /\ Left(q, v) = StepsLeft(p) + 0
        BY <1>3 DEF Left
    <2> QED
        BY <1>1, <2>1
<1> QED
    BY <1>2, <1>3

\* A step of c's own.
LEMMA StepAdvances ==
    ASSUME NEW c \in Calls, TypeOK, Steps(c) \/ Whisper(c) \/ Watch(c)
    PROVE  /\ Left(pc'[c], watcher'[c]) < Left(pc[c], watcher[c])
           /\ Left(pc'[c], watcher'[c]) <= Left(pc[c], watcher[c])
           /\ \A d \in Calls \ {c} : pc'[d] = pc[d] /\ watcher'[d] = watcher[d]
<1>1. \A d \in Calls \ {c} : pc'[d] = pc[d] /\ watcher'[d] = watcher[d]
    BY DEF TypeOK, Steps, Whisper, Watch, Lock, StartEmpty, Start, Decide, Copy, Return,
       AbortPoll, WhisperReturns
<1>2. pc[c] \in PCs
    BY DEF TypeOK
<1>3. CASE Watch(c)
    <2>1. pc'[c] = pc[c] /\ watcher[c] = "waiting" /\ watcher'[c] = "done"
        BY <1>3 DEF TypeOK, Watch
    <2> QED
        BY <1>1, <1>2, <2>1, FurtherOn
<1>4. CASE Steps(c) \/ Whisper(c)
    <2>1. \/ pc[c] = "lock" /\ pc'[c] = "start"
          \/ pc[c] = "start" /\ pc'[c] \in {"infer", "defers"}
          \/ pc[c] = "infer" /\ pc'[c] = "returned"
          \/ pc[c] = "returned" /\ pc'[c] \in {"copy", "defers"}
          \/ pc[c] = "copy" /\ pc'[c] = "defers"
          \/ pc[c] = "defers" /\ pc'[c] = "done"
        BY <1>4 DEF TypeOK, Steps, Whisper, Lock, StartEmpty, Start, Decide, Copy,
           Return, AbortPoll, WhisperReturns, Runs
    <2>2. pc'[c] \in PCs
        BY <2>1 DEF PCs
    <2>3. StepsLeft(pc'[c]) + 2 <= StepsLeft(pc[c])
        BY <2>1, StepsLeftValues
    <2> QED
        BY <1>1, <1>2, <2>2, <2>3, FurtherOn
<1> QED
    BY <1>3, <1>4

\* A call that is made.
LEMMA CallAdvances ==
    ASSUME NEW c \in Calls, NEW from \in Calls \cup {NoCall}, TypeOK,
           TranscribeFrom(from, c)
    PROVE  /\ Left(pc'[c], watcher'[c]) <= Left(pc[c], watcher[c])
           /\ \A d \in Calls \ {c} : pc'[d] = pc[d] /\ watcher'[d] = watcher[d]
<1>1. \A d \in Calls \ {c} : pc'[d] = pc[d] /\ watcher'[d] = watcher[d]
    BY DEF TypeOK, TranscribeFrom
<1>2. pc[c] = "idle" /\ pc'[c] \in {"done", "lock", "start"}
    BY DEF TypeOK, TranscribeFrom
<1>3. pc[c] \in PCs /\ pc'[c] \in PCs
    BY <1>2 DEF PCs
<1>4. StepsLeft(pc'[c]) + 2 <= StepsLeft(pc[c])
    BY <1>2, StepsLeftValues
<1> QED
    BY <1>1, <1>3, <1>4, FurtherOn

\* Every call ends after so many steps, for a natural number falls with each of its
\* own and rises with nobody's.
THEOREM CallsAdvance == Spec => [](\A c \in Calls : CallLeft(c) \in Nat) /\ CallsOnlyAdvance
<1>1. Inv => \A c \in Calls : CallLeft(c) \in Nat
    BY LeftType DEF Inv, TypeOK, CallLeft
<1>2. Inv /\ [Next]_vars =>
        [\A c \in Calls :
            /\ CallLeft(c)' <= CallLeft(c)
            /\ Steps(c) \/ Whisper(c) \/ Watch(c) => CallLeft(c)' < CallLeft(c)]_vars
    <2> SUFFICES ASSUME Inv, Next, NEW c \in Calls
                 PROVE  /\ CallLeft(c)' <= CallLeft(c)
                        /\ Steps(c) \/ Whisper(c) \/ Watch(c) => CallLeft(c)' < CallLeft(c)
        OBVIOUS
    <2>1. TypeOK
        BY DEF Inv
    <2>2. Steps(c) \/ Whisper(c) \/ Watch(c) =>
             Left(pc'[c], watcher'[c]) < Left(pc[c], watcher[c])
        BY <2>1, StepAdvances
    <2>3. ASSUME pc'[c] = pc[c], watcher'[c] = watcher[c]
          PROVE  Left(pc'[c], watcher'[c]) <= Left(pc[c], watcher[c])
        <3>1. Left(pc[c], watcher[c]) \in Nat
            BY <1>1 DEF CallLeft
        <3> QED
            BY <2>3, <3>1
    <2>4. ASSUME NEW d \in Calls, Steps(d) \/ Whisper(d) \/ Watch(d)
          PROVE  Left(pc'[c], watcher'[c]) <= Left(pc[c], watcher[c])
        BY <2>1, <2>3, <2>4, StepAdvances
    <2>5. ASSUME NEW d \in Calls, NEW from \in Calls \cup {NoCall}, TranscribeFrom(from, d)
          PROVE  Left(pc'[c], watcher'[c]) <= Left(pc[c], watcher[c])
        BY <2>1, <2>3, <2>5, CallAdvances
    <2>6. ASSUME UNCHANGED <<pc, watcher>>
          PROVE  Left(pc'[c], watcher'[c]) <= Left(pc[c], watcher[c])
        BY <2>3, <2>6
    <2>7. Left(pc'[c], watcher'[c]) <= Left(pc[c], watcher[c])
        BY <2>4, <2>5, <2>6
           DEF Next, Transcribe, CallbackTranscribes, NewSession, CloseSession, CloseModel,
               CancelCtx, CallbackPanics, Finished, vars, callVars
    <2> QED
        BY <2>2, <2>7 DEF CallLeft, Left, StepsLeft
<1> QED
    BY <1>1, <1>2, InferenceInvariant, PTL DEF Spec, CallsOnlyAdvance

=============================================================================
