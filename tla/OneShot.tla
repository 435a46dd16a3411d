------------------------------- MODULE OneShot -------------------------------
(***************************************************************************)
(* The one-shot programs (examples/transcribe, diarize, transcribe-diarize) *)
(* from their flags to their return: files, models and diarizers that may   *)
(* fail to open, options applied one by one, an inference, a diarization,   *)
(* the labelling loop, and the deferred Closes of whatever was opened.      *)
(* The examples pass a few options; the lists here are any.                 *)
(***************************************************************************)
EXTENDS TranscribeOutcomes, Options

T == INSTANCE TranscribeOptions
D == INSTANCE Diarizer

CONSTANTS OptionLists,      \* per step that takes options: the lists it may be given
          Transcripts,      \* what whisper may make of the audio: sequences of spans
          Diarizations      \* what sherpa may make of it: sequences of turns

Spans == [start : Nat, end : Nat]
Turns == [start : Nat, end : Nat, speaker : Nat]

ASSUME OneShotAssumption ==
    Transcripts \subseteq Seq(Spans) /\ Diarizations \subseteq Seq(Turns)

\* What run() does in order.  "new" is diarize.New.
Program ==
    [transcribe |-> <<"load", "read", "transcribe">>,
     diarize |-> <<"new", "read", "diarize">>,
     transcribeDiarize |-> <<"read", "load", "transcribe", "new", "diarize", "label">>]

VARIABLES
    prog, at,           \* the program, and the step it is at
    ret,                \* what run returns: "none" yet, "nil" or "error"
    held, defers,       \* what is open, and the Closes deferred
    audio,              \* the samples read: "none" yet, "empty" or "some"
    options, applied,   \* the options of the call at hand, how many are applied
    settings,           \* the record they are applied to; none between calls
    segs, turns,        \* the transcript and the turns
    labels,             \* the speakers of the segments labelled so far
    seen, best, bestOverlap \* Label's inner loop

flowVars == <<prog, at, ret>>
handleVars == <<held, defers>>
optionVars == <<options, applied, settings>>
labelVars == <<labels, seen, best, bestOverlap>>
vars == <<flowVars, handleVars, audio, optionVars, segs, turns, labelVars>>

TypeOK ==
    /\ prog \in DOMAIN Program /\ at \in DOMAIN Program[prog]
    /\ ret \in {"none", "nil", "error"} /\ audio \in {"none", "empty", "some"}
    /\ held \subseteq {"model", "diarizer"} /\ defers \in Seq({"model", "diarizer"})
    /\ applied \in 0..Len(options)
    /\ segs \in Seq(Spans) /\ turns \in Seq(Turns)
    /\ labels \in Seq(Nat \cup {-1}) /\ seen \in 0..Len(turns)
    /\ best \in Nat \cup {-1} /\ bestOverlap \in Nat

Init ==
    /\ prog \in DOMAIN Program /\ at = 1 /\ ret = "none"
    /\ held = {} /\ defers = <<>> /\ audio = "none"
    /\ options = <<>> /\ applied = 0 /\ settings = <<>>
    /\ segs = <<>> /\ turns = <<>>
    /\ labels = <<>> /\ seen = 0 /\ best = -1 /\ bestOverlap = 0

Step(s) == ret = "none" /\ Program[prog][at] = s

\* Fault: the last step does not return.
AdvanceMutant ==
    /\ IF at <= Len(Program[prog]) THEN at' = at + 1 /\ UNCHANGED ret
       ELSE ret' = "nil" /\ UNCHANGED at
    /\ UNCHANGED prog

\* On to the next step, or out with nil; out with an error.
Advance ==
    /\ IF at < Len(Program[prog]) THEN at' = at + 1 /\ UNCHANGED ret
       ELSE ret' = "nil" /\ UNCHANGED at
    /\ UNCHANGED prog

Fail == ret' = "error" /\ UNCHANGED <<prog, at>>

-----------------------------------------------------------------------------
(* Options. *)

Defaults == [load |-> T!defaultModelOptions, transcribe |-> T!defaultTranscribeOptions,
             new |-> D!defaultOptions]

\* Options are typed: they set fields of the record they are applied to.
ASSUME OptionAssumption ==
    \A s \in DOMAIN Defaults : \A l \in OptionLists[s] :
        /\ Len(l) \in Nat /\ DOMAIN l = 1..Len(l)
        /\ \A i \in DOMAIN l : DOMAIN l[i] \subseteq DOMAIN Defaults[s]

\* Only WithThreshold sets a threshold.
ASSUME ThresholdAssumption ==
    \A l \in OptionLists["new"] : \A i \in DOMAIN l :
        "threshold" \in DOMAIN l[i] => l[i] = D!WithThreshold(l[i].threshold)

\* Only WithBeamSearch and WithGreedy name a strategy or a count of one.
ASSUME StrategyAssumption ==
    \A l \in OptionLists["transcribe"] : \A i \in DOMAIN l :
        {"beamSearch", "beamSize", "bestOf"} \cap DOMAIN l[i] # {} =>
            IF "beamSize" \in DOMAIN l[i] THEN l[i] = T!WithBeamSearch(l[i].beamSize)
            ELSE "bestOf" \in DOMAIN l[i] /\ l[i] = T!WithGreedy(l[i].bestOf)

Configuring == DOMAIN settings # {}

\* A call that takes options begins.
Configure ==
    /\ ~Configuring
    /\ \E s \in DOMAIN Defaults :
          /\ Step(s)
          /\ options' \in OptionLists[s] /\ settings' = Defaults[s]
    /\ applied' = 0
    /\ UNCHANGED <<flowVars, handleVars, audio, segs, turns, labelVars>>

ApplyOption ==
    /\ applied < Len(options)
    /\ settings' = Applied(options[applied + 1], settings)
    /\ applied' = applied + 1
    /\ UNCHANGED <<flowVars, handleVars, audio, options, segs, turns, labelVars>>

\* All are applied: the call proper, after which nobody reads them.
Configured == Configuring /\ applied = Len(options)

DropOptions == options' = <<>> /\ applied' = 0 /\ settings' = <<>>

-----------------------------------------------------------------------------
(* The steps of run. *)

\* Fault: Close is not deferred.
OpenMutant(h) ==
    /\ \/ held' = held \cup {h} /\ UNCHANGED defers /\ Advance
       \/ UNCHANGED handleVars /\ Fail
    /\ DropOptions
    /\ UNCHANGED <<audio, segs, turns, labelVars>>

\* A constructor: the handle and its deferred Close, or an error.
Open(h) ==
    /\ \/ held' = held \cup {h} /\ defers' = Append(defers, h) /\ Advance
       \/ UNCHANGED handleVars /\ Fail
    /\ DropOptions
    /\ UNCHANGED <<audio, segs, turns, labelVars>>

LoadModel == Step("load") /\ Configured /\ Open("model")

NewDiarizer == Step("new") /\ Configured /\ Open("diarizer")

\* wav.ReadFile, or sherpa's reader with the check of SampleRate.
ReadAudio ==
    /\ Step("read")
    /\ \/ audio' \in {"empty", "some"} /\ Advance
       \/ UNCHANGED audio /\ Fail
    /\ UNCHANGED <<handleVars, optionVars, segs, turns, labelVars>>

\* The context of an example is never done.
Answers ==
    IF "model" \notin held THEN {"closed"}
    ELSE IF audio = "empty" THEN {"empty"} ELSE MayReturn(FALSE) \ {"closed", "empty"}

Transcribe ==
    /\ Step("transcribe") /\ Configured
    /\ \E a \in Answers :
          IF a = "ok" THEN segs' \in Transcripts /\ Advance
          ELSE UNCHANGED segs /\ Fail
    /\ DropOptions
    /\ UNCHANGED <<handleVars, audio, turns, labelVars>>

\* Diarizer.Diarize: ErrClosed, ErrEmptyAudio, or the turns.
Diarize ==
    /\ Step("diarize")
    /\ IF "diarizer" \in held /\ audio # "empty"
       THEN turns' \in Diarizations /\ Advance
       ELSE UNCHANGED turns /\ Fail
    /\ UNCHANGED <<handleVars, audio, optionVars, segs, labelVars>>

-----------------------------------------------------------------------------
(* Label. *)

Labelling == Step("label") /\ Len(labels) < Len(segs)

Seg == segs[Len(labels) + 1]

\* Fault: a later turn with as much overlap takes over.
LabelTurnMutant ==
    /\ Labelling /\ seen < Len(turns)
    /\ LET t == turns[seen + 1]
           ov == D!overlap(Seg, t)
       IN  IF ov >= bestOverlap THEN best' = t.speaker /\ bestOverlap' = ov
           ELSE UNCHANGED <<best, bestOverlap>>
    /\ seen' = seen + 1
    /\ UNCHANGED <<flowVars, handleVars, audio, optionVars, segs, turns, labels>>

LabelTurn ==
    /\ Labelling /\ seen < Len(turns)
    /\ LET t == turns[seen + 1]
           ov == D!overlap(Seg, t)
       IN  IF ov > bestOverlap THEN best' = t.speaker /\ bestOverlap' = ov
           ELSE UNCHANGED <<best, bestOverlap>>
    /\ seen' = seen + 1
    /\ UNCHANGED <<flowVars, handleVars, audio, optionVars, segs, turns, labels>>

LabelSegment ==
    /\ Labelling /\ seen = Len(turns)
    /\ labels' = Append(labels, best)
    /\ seen' = 0 /\ best' = -1 /\ bestOverlap' = 0
    /\ UNCHANGED <<flowVars, handleVars, audio, optionVars, segs, turns>>

LabelDone ==
    /\ Step("label") /\ Len(labels) = Len(segs)
    /\ Advance
    /\ UNCHANGED <<handleVars, audio, optionVars, segs, turns, labelVars>>

-----------------------------------------------------------------------------
\* run has returned: the deferred Closes, last first.
Close ==
    /\ ret # "none" /\ defers # <<>>
    /\ held' = held \ {defers[Len(defers)]}
    /\ defers' = SubSeq(defers, 1, Len(defers) - 1)
    /\ UNCHANGED <<flowVars, audio, optionVars, segs, turns, labelVars>>

Exited == ret # "none" /\ defers = <<>> /\ UNCHANGED vars

Next ==
    \/ Configure \/ ApplyOption
    \/ LoadModel \/ NewDiarizer \/ ReadAudio \/ Transcribe \/ Diarize
    \/ LabelTurn \/ LabelSegment \/ LabelDone
    \/ Close \/ Exited

Spec == Init /\ [][Next]_vars

-----------------------------------------------------------------------------
\* The last option to name a strategy decides which one whisper runs, and by what
\* count, a count of zero or less being whisper's; with no such option it is greedy
\* and by the default count.  The option that was overruled leaves nothing behind
\* that counts (options.go WithBeamSearch, WithGreedy, binding.cpp build_params).
StrategyAsAsked ==
    Step("transcribe") /\ Configured =>
        LET wp == T!build_params(T!buildCParams(settings))
            asks == {i \in DOMAIN options :
                        {"beamSize", "bestOf"} \cap DOMAIN options[i] # {}}
            Count(f, n) == IF n <= 0 THEN T!whisperDefaults[f] ELSE n
        IN  /\ asks = {} => wp["strategy"] = 0 /\ wp["bestOf"] = Defaults["transcribe"].bestOf
            /\ \A i \in asks : (\A j \in asks : j <= i) =>
                  IF "beamSize" \in DOMAIN options[i]
                  THEN /\ wp["strategy"] = 1
                       /\ wp["beamSize"] = Count("beamSize", options[i].beamSize)
                  ELSE /\ wp["strategy"] = 0
                       /\ wp["bestOf"] = Count("bestOf", options[i].bestOf)

\* whisper is never run with a count of zero or less that it did not choose itself,
\* nor, unless an option asked for it, with a threshold other than its own: a
\* logProbThold of 0 rejects every decode (options.go defaultTranscribeOptions,
\* binding.cpp build_params).
SaneParams ==
    Step("transcribe") /\ Configured =>
        LET wp == T!build_params(T!buildCParams(settings))
        IN  /\ \A f \in T!Counts : wp[f] <= 0 => wp[f] = T!whisperDefaults[f]
            /\ \A f \in T!Thresholds :
                  \/ wp[f] = T!whisperDefaults[f]
                  \/ \E i \in DOMAIN options : f \in DOMAIN options[i]
            /\ wp["language"] # ""

\* Count and threshold are exclusive, and the last of the two options decides
\* which one sherpa clusters by (diarize/options.go WithNumSpeakers).
ClusteringAsAsked ==
    Step("new") /\ Configured =>
        LET c == D!Clustering(settings)
            asks == {i \in DOMAIN options :
                        {"numSpeakers", "threshold"} \cap DOMAIN options[i] # {}}
        IN  \A i \in asks : (\A j \in asks : j <= i) =>
                IF "threshold" \in DOMAIN options[i]
                THEN c = [numClusters |-> 0, threshold |-> options[i].threshold]
                ELSE options[i].numSpeakers > 0 =>
                        c = [numClusters |-> options[i].numSpeakers, threshold |-> 0]

\* The speaker of a segment is that of the turn that overlaps it most, the first
\* of several; -1 if none overlaps it.
LabelOf(s, ts, speaker) ==
    \/ speaker = -1 /\ \A j \in DOMAIN ts : D!overlap(s, ts[j]) = 0
    \/ \E j \in DOMAIN ts :
          /\ speaker = ts[j].speaker /\ D!overlap(s, ts[j]) > 0
          /\ \A k \in DOMAIN ts : D!overlap(s, ts[k]) <= D!overlap(s, ts[j])
          /\ \A k \in 1..(j - 1) : D!overlap(s, ts[k]) < D!overlap(s, ts[j])

\* Every segment is labelled by greatest overlap, in any order of turns, with
\* ties, touching spans and empty turns (diarize/merge.go Label).
LabelsByOverlap == \A i \in DOMAIN labels : LabelOf(segs[i], turns, labels[i])

\* Each handle is open while it may be used, and none is left open by a return,
\* at whichever step (examples' run, the deferred Closes).
NothingLeaked ==
    /\ Step("transcribe") => "model" \in held
    /\ Step("diarize") => "diarizer" \in held
    /\ ret # "none" /\ defers = <<>> => held = {}

=============================================================================
