---------------------------- MODULE StreamService ----------------------------
(***************************************************************************)
(* What a Stream promises to the program that uses it: audio goes in until  *)
(* CloseSend, results come out of Results in an order in which nothing that *)
(* is final is taken back, and the channel closes once, for a reason that   *)
(* Err tells.  Buffer, windows, whisper, prompt and goroutines are not here;*)
(* StreamProperties maps a Stream to this.                                  *)
(***************************************************************************)
EXTENDS Integers, Sequences

CONSTANTS Capacity,     \* the capacity of the channel
          Lossy         \* the stream may drop audio, and then says so

VARIABLES accepted,     \* the time up to which Write has taken audio
          heard,        \* the time up to which audio has been in a window
          inputClosed, canceled,
          due,          \* results decided and not yet in the channel
          channel,      \* what Results holds
          received,     \* the end of the last final received
          err, ended,   \* Err, and whether Results is closed
          cutShort      \* a callback of the user's broke the stream off unsaid

vars == <<accepted, heard, inputClosed, canceled, due, channel, received, err, ended,
          cutShort>>

Result == [end : Nat, final : BOOLEAN, lagging : BOOLEAN]

Init ==
    /\ accepted = 0 /\ heard = 0
    /\ inputClosed = FALSE /\ canceled = FALSE
    /\ due = <<>> /\ channel = <<>> /\ received = 0
    /\ err = "none" /\ ended = FALSE /\ cutShort = FALSE

Running == err = "none" /\ ~ended /\ ~cutShort

\* Audio is accepted only before CloseSend and before the stream is cancelled.
Accept ==
    /\ ~inputClosed /\ ~canceled
    /\ accepted' \in Nat /\ accepted' > accepted
    /\ UNCHANGED <<heard, inputClosed, canceled, due, channel, received, err, ended, cutShort>>

CloseInput ==
    /\ inputClosed' = TRUE
    /\ UNCHANGED <<accepted, heard, canceled, due, channel, received, err, ended, cutShort>>

\* The caller's cancel or Close, or the stream that ends.
Cancel ==
    /\ canceled' = TRUE
    /\ UNCHANGED <<accepted, heard, inputClosed, due, channel, received, err, ended, cutShort>>

\* A window: it reaches to the last sample accepted, and none is begun while
\* results are due or after a cancel.
Hear ==
    /\ Running /\ ~canceled /\ due = <<>>
    /\ heard' = accepted
    /\ UNCHANGED <<accepted, inputClosed, canceled, due, channel, received, err, ended, cutShort>>

\* A result ends after every final before it; a final is of audio that was heard.
Follows(r) ==
    /\ r.end > received
    /\ \A i \in DOMAIN channel : channel[i].final => channel[i].end < r.end
    /\ \A i \in DOMAIN due : due[i].final => due[i].end < r.end

Decide(r) ==
    /\ Running
    /\ r \in Result
    /\ Follows(r)
    /\ r.final => r.end <= heard
    /\ r.lagging => Lossy
    /\ due' = Append(due, r)
    /\ UNCHANGED <<accepted, heard, inputClosed, canceled, channel, received, err, ended, cutShort>>

Send ==
    /\ Running
    /\ due # <<>> /\ Len(channel) < Capacity
    /\ channel' = Append(channel, Head(due))
    /\ due' = Tail(due)
    /\ UNCHANGED <<accepted, heard, inputClosed, canceled, received, err, ended, cutShort>>

Receive ==
    /\ channel # <<>>
    /\ channel' = Tail(channel)
    /\ received' = IF Head(channel).final THEN Head(channel).end ELSE received
    /\ UNCHANGED <<accepted, heard, inputClosed, canceled, due, err, ended, cutShort>>

\* Err is the ctx error only if there was a cancel.
Fail ==
    /\ Running
    /\ err' = "fail" \/ (canceled /\ err' = "ctx")
    /\ UNCHANGED <<accepted, heard, inputClosed, canceled, due, channel, received, ended, cutShort>>

\* A callback of the user's panics with an ErrCanceled while the stream is not
\* cancelled: the stream stops where it is, and Err will not tell.
BreakOff ==
    /\ Running /\ ~canceled
    /\ cutShort' = TRUE
    /\ UNCHANGED <<accepted, heard, inputClosed, canceled, due, channel, received, err,
                   ended>>

\* Otherwise the stream ends without an error when the end of all the audio there
\* will be has been in a window and every result was sent.
End ==
    /\ ~ended
    /\ err = "none" /\ ~cutShort => inputClosed /\ heard = accepted /\ due = <<>>
    /\ ended' = TRUE
    /\ UNCHANGED <<accepted, heard, inputClosed, canceled, due, channel, received, err,
                   cutShort>>

Next ==
    \/ Accept \/ CloseInput \/ Cancel
    \/ Hear \/ Send \/ Receive \/ Fail \/ BreakOff \/ End
    \/ \E i \in DOMAIN due' : Decide(due'[i])

Spec == Init /\ [][Next]_vars

-----------------------------------------------------------------------------
TypeOK ==
    /\ {accepted, heard, received} \subseteq Nat
    /\ inputClosed \in BOOLEAN /\ canceled \in BOOLEAN /\ ended \in BOOLEAN
    /\ cutShort \in BOOLEAN
    /\ due \in Seq(Result) /\ channel \in Seq(Result)
    /\ err \in {"none", "ctx", "fail"}

\* A final is of audio that was heard; a result says that audio was lost only if
\* the stream may lose audio.
Truthful(q) ==
    \A i \in DOMAIN q : /\ q[i].final => q[i].end <= heard
                        /\ q[i].lagging => Lossy

\* What a user may rely on at any time: what is final lies in audio that was heard,
\* Err is the ctx error only of a cancelled stream, and a stream that ended without
\* an error, other than by a callback's panic, has had a window to the end of what it
\* accepted, has nothing left to send, and accepts no more.
Reliable ==
    /\ received <= heard /\ heard <= accepted
    /\ Truthful(channel) /\ Truthful(due)
    /\ Len(channel) <= Capacity
    /\ err = "ctx" => canceled
    /\ cutShort => err = "none"
    /\ ended /\ err = "none" /\ ~cutShort => inputClosed /\ heard = accepted /\ due = <<>>

=============================================================================
