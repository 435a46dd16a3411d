-------------------------- MODULE TranscribeService --------------------------
(***************************************************************************)
(* What Transcribe promises its callers: each call returns once, with its   *)
(* own transcript or one error that fits what happened to it.  The mutex,   *)
(* the watcher, whisper's states, callbacks and the abort flag are not      *)
(* here; Inference maps its calls to this.                                  *)
(***************************************************************************)
EXTENDS TranscribeOutcomes

CONSTANTS Calls, NoCall

VARIABLES phase,        \* per call: "idle", "called" or "returned"
          ctxDone,      \* per call: its ctx is done
          doomed,       \* per call: its ctx was done when it was called
          answer,       \* per call: what it returned, "none" before
          transcript    \* per call: whose speech its Result holds, or NoCall

vars == <<phase, ctxDone, doomed, answer, transcript>>

Init ==
    /\ phase = [c \in Calls |-> "idle"]
    /\ ctxDone = [c \in Calls |-> FALSE] /\ doomed = [c \in Calls |-> FALSE]
    /\ answer = [c \in Calls |-> "none"] /\ transcript = [c \in Calls |-> NoCall]

\* A context is done for good.
Cancel ==
    /\ ctxDone' \in [Calls -> BOOLEAN]
    /\ \A c \in Calls : ctxDone[c] => ctxDone'[c]
    /\ UNCHANGED <<phase, doomed, answer, transcript>>

Call(c) ==
    /\ phase[c] = "idle"
    /\ phase' = [phase EXCEPT ![c] = "called"]
    /\ doomed' = [doomed EXCEPT ![c] = ctxDone[c]]
    /\ UNCHANGED <<ctxDone, answer, transcript>>

\* A closed model or session is refused at once.
Refuse(c) ==
    /\ phase[c] = "idle"
    /\ phase' = [phase EXCEPT ![c] = "returned"]
    /\ doomed' = [doomed EXCEPT ![c] = ctxDone[c]]
    /\ answer' = [answer EXCEPT ![c] = "closed"]
    /\ UNCHANGED <<ctxDone, transcript>>

\* A Result holds the call's own transcript; it may be empty although there was
\* speech, when the memory to copy it into could not be had.
Return(c) ==
    /\ phase[c] = "called"
    /\ phase' = [phase EXCEPT ![c] = "returned"]
    /\ \E a \in MayReturn(ctxDone[c]) \ {"closed"} :
          /\ doomed[c] => a \notin {"ok", "failed"}
          /\ answer' = [answer EXCEPT ![c] = a]
          /\ \E t \in {c, NoCall} :
                /\ a # "ok" => t = NoCall
                /\ transcript' = [transcript EXCEPT ![c] = t]
    /\ UNCHANGED <<ctxDone, doomed>>

Next == Cancel \/ \E c \in Calls : Call(c) \/ Refuse(c) \/ Return(c)

Spec == Init /\ [][Next]_vars

=============================================================================
