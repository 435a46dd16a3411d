---------------------------- MODULE OneShotProofs ----------------------------
(***************************************************************************)
(* For every list of options, transcript and diarization: whisper and       *)
(* sherpa are run as the last option asks, labels go by greatest overlap,   *)
(* and the programs close what they open.                                   *)
(***************************************************************************)
EXTENDS OneShot, SequenceTheorems, TLAPS

LEMMA OverlapNat ==
    ASSUME NEW s \in Spans, NEW t \in Turns
    PROVE  D!overlap(s, t) \in Nat
BY DEF D!overlap, Spans, Turns

-----------------------------------------------------------------------------
(* The inductive invariant. *)

\* f has what the last of the first n options to name it gave it.
FieldSoFar(s, n, f) ==
    \/ /\ settings[f] = Defaults[s][f]
       /\ \A i \in 1..n : f \notin DOMAIN options[i]
    \/ \E i \in 1..n :
          /\ f \in DOMAIN options[i] /\ settings[f] = options[i][f]
          /\ \A j \in 1..n : j > i => f \notin DOMAIN options[j]

\* What the options applied so far have made of the defaults.
OptionInv ==
    /\ applied \in Nat /\ Len(options) \in Nat /\ applied <= Len(options)
    /\ DOMAIN options = 1..Len(options)
    /\ ~Configuring => Len(options) = 0
    /\ Configuring => \E s \in DOMAIN Defaults :
          /\ Step(s) /\ options \in OptionLists[s]
          /\ DOMAIN settings = DOMAIN Defaults[s]
          /\ \A f \in DOMAIN settings : FieldSoFar(s, applied, f)

\* The deferred Closes there may be.
None == <<>>
ModelOnly == Append(None, "model")
DiarizerOnly == Append(None, "diarizer")
Both == Append(ModelOnly, "diarizer")

\* The Closes deferred are of the handles held; what is held is what the program
\* has opened on the way to where it is.
HandleInv ==
    /\ prog \in DOMAIN Program /\ at \in 1..6
    /\ ret \in {"none", "nil", "error"}
    /\ \/ defers = None /\ held = {}
       \/ defers = ModelOnly /\ held = {"model"}
       \/ defers = DiarizerOnly /\ held = {"diarizer"}
       \/ defers = Both /\ held = {"model", "diarizer"}
    /\ prog \in {"transcribe", "diarize"} => at <= 3
    /\ ret = "none" =>
          /\ prog = "transcribe" => defers = IF at = 1 THEN None ELSE ModelOnly
          /\ prog = "diarize" => defers = IF at = 1 THEN None ELSE DiarizerOnly
          /\ prog = "transcribeDiarize" =>
                defers = IF at <= 2 THEN None ELSE IF at <= 4 THEN ModelOnly ELSE Both

\* best and bestOverlap are of the first n turns.
BestOf(s, n, speaker, ov) ==
    \/ /\ speaker = -1 /\ ov = 0
       /\ \A k \in 1..n : D!overlap(s, turns[k]) = 0
    \/ \E j \in 1..n :
          /\ speaker = turns[j].speaker /\ ov = D!overlap(s, turns[j]) /\ ov > 0
          /\ \A k \in 1..n : D!overlap(s, turns[k]) <= ov
          /\ \A k \in 1..(j - 1) : D!overlap(s, turns[k]) < ov

\* LabelsByOverlap, with the turns seen so far of the segment at hand.
LabelInv ==
    /\ segs \in Seq(Spans) /\ turns \in Seq(Turns) /\ labels \in Seq(Nat \cup {-1})
    /\ Len(labels) <= Len(segs)
    /\ seen \in 0..Len(turns) /\ bestOverlap \in Nat /\ best \in Nat \cup {-1}
    /\ LabelsByOverlap
    /\ Len(labels) < Len(segs) => BestOf(Seg, seen, best, bestOverlap)
    /\ Len(labels) = Len(segs) => seen = 0 /\ best = -1 /\ bestOverlap = 0
    /\ ret = "none" /\ ~Step("label") => labels = <<>> /\ seen = 0 /\ best = -1 /\ bestOverlap = 0

-----------------------------------------------------------------------------
(* Options. *)

LEMMA ConfigureKeeps ==
    ASSUME OptionInv, Configure PROVE OptionInv'
<1>1. PICK s \in DOMAIN Defaults :
          Step(s) /\ options' \in OptionLists[s] /\ settings' = Defaults[s]
    BY DEF Configure
<1>2. applied' = 0 /\ UNCHANGED <<prog, at, ret>>
    BY DEF Configure, flowVars
<1>3. Len(options') \in Nat /\ DOMAIN options' = 1..Len(options')
    BY <1>1, OptionAssumption
<1>4. Step(s)'
    BY <1>1, <1>2 DEF Step
<1>5. Configuring'
    <2>1. CASE s = "load"
        <3>1. "gpu" \in DOMAIN Defaults[s]
            BY <2>1 DEF Defaults, T!defaultModelOptions
        <3> QED
            BY <1>1, <3>1 DEF Configuring
    <2>2. CASE s = "new"
        <3>1. "debug" \in DOMAIN Defaults[s]
            BY <2>2 DEF Defaults, D!defaultOptions
        <3> QED
            BY <1>1, <3>1 DEF Configuring
    <2>3. CASE s = "transcribe"
        <3>1. DOMAIN Defaults[s] = DOMAIN T!Zero
            BY <2>3 DEF Defaults, T!defaultTranscribeOptions
        <3>2. "language" \in DOMAIN T!Zero
            BY DEF T!Zero, T!Texts
        <3> QED
            BY <1>1, <3>1, <3>2 DEF Configuring
    <2> QED
        BY <2>1, <2>2, <2>3 DEF Defaults
<1>6. ASSUME NEW f \in DOMAIN settings' PROVE FieldSoFar(s, applied, f)'
    BY <1>1, <1>2 DEF FieldSoFar
<1> QED
    BY <1>1, <1>2, <1>3, <1>4, <1>5, <1>6 DEF OptionInv

LEMMA ApplyKeeps ==
    ASSUME OptionInv, ApplyOption PROVE OptionInv'
<1>1. /\ applied < Len(options) /\ applied' = applied + 1
      /\ settings' = Applied(options[applied + 1], settings)
      /\ UNCHANGED <<prog, at, ret, options>>
    BY DEF ApplyOption, flowVars
<1>2. Configuring
    BY <1>1 DEF OptionInv
<1>3. PICK s \in DOMAIN Defaults :
          /\ Step(s) /\ options \in OptionLists[s]
          /\ DOMAIN settings = DOMAIN Defaults[s]
          /\ \A f \in DOMAIN settings : FieldSoFar(s, applied, f)
    BY <1>2 DEF OptionInv
<1>4. DOMAIN settings' = DOMAIN settings
    BY <1>1 DEF Applied
<1>5. Step(s)' /\ Configuring'
    BY <1>1, <1>2, <1>3, <1>4 DEF Step, Configuring
<1> DEFINE o == options[applied + 1]
<1>6. ASSUME NEW f \in DOMAIN settings PROVE FieldSoFar(s, applied, f)'
    <2>1. settings'[f] = IF f \in DOMAIN o THEN o[f] ELSE settings[f]
        BY <1>1 DEF Applied
    <2>2. applied \in Nat /\ applied' = applied + 1 /\ options' = options
        BY <1>1 DEF OptionInv
    <2>3. CASE f \in DOMAIN o
        <3>1. settings'[f] = options[applied + 1][f]
            BY <2>1, <2>3
        <3> QED
            BY <2>2, <2>3, <3>1 DEF FieldSoFar
    <2>4. CASE f \notin DOMAIN o
        <3>1. settings'[f] = settings[f]
            BY <2>1, <2>4
        <3>2. FieldSoFar(s, applied, f)
            BY <1>3
        <3> QED
            BY <2>2, <2>4, <3>1, <3>2 DEF FieldSoFar
    <2> QED
        BY <2>3, <2>4
<1> HIDE DEF o
<1>7. OptionInv'
    BY <1>1, <1>3, <1>4, <1>5, <1>6 DEF OptionInv
<1> QED
    BY <1>7

\* A step that leaves the options alone, or ends the call they are of.
LEMMA OptionsLeft ==
    ASSUME OptionInv,
           \/ UNCHANGED optionVars /\ (UNCHANGED flowVars \/ ~Configuring)
           \/ DropOptions
    PROVE  OptionInv'
<1>1. CASE UNCHANGED optionVars /\ UNCHANGED flowVars
    BY <1>1 DEF OptionInv, optionVars, flowVars, Configuring, Step, FieldSoFar
<1>2. CASE UNCHANGED optionVars /\ ~Configuring
    BY <1>2 DEF OptionInv, optionVars, Configuring
<1>3. CASE DropOptions
    <2>1. options' = <<>> /\ applied' = 0 /\ settings' = <<>>
        BY <1>3 DEF DropOptions
    <2>2. ~Configuring'
        BY <2>1 DEF Configuring
    <2> QED
        BY <2>1, <2>2 DEF OptionInv
<1> QED
    BY <1>1, <1>2, <1>3

\* While a call takes its options, the program is at that call.
LEMMA OnlyConfiguring ==
    ASSUME OptionInv, Configuring
    PROVE  ret = "none" /\ ~Step("read") /\ ~Step("diarize") /\ ~Step("label")
BY DEF OptionInv, Step, Defaults

LEMMA OptionInvStep ==
    ASSUME OptionInv, [Next]_vars PROVE OptionInv'
<1>1. CASE Configure
    BY <1>1, ConfigureKeeps
<1>2. CASE ApplyOption
    BY <1>2, ApplyKeeps
<1>3. CASE LoadModel \/ NewDiarizer
    BY <1>3, OptionsLeft DEF LoadModel, NewDiarizer, Open
<1>4. CASE Transcribe
    BY <1>4, OptionsLeft DEF Transcribe
<1>5. CASE ReadAudio
    BY <1>5, OptionsLeft, OnlyConfiguring DEF ReadAudio
<1>6. CASE Diarize
    BY <1>6, OptionsLeft, OnlyConfiguring DEF Diarize
<1>7. CASE LabelTurn \/ LabelSegment
    BY <1>7, OptionsLeft DEF LabelTurn, LabelSegment
<1>8. CASE LabelDone
    BY <1>8, OptionsLeft, OnlyConfiguring DEF LabelDone
<1>9. CASE Close \/ UNCHANGED vars
    BY <1>9, OptionsLeft DEF Close, vars
<1> QED
    BY <1>1, <1>2, <1>3, <1>4, <1>5, <1>6, <1>7, <1>8, <1>9 DEF Next, Exited

\* The last option to name f gave it its value.
LEMMA NamedLast ==
    ASSUME OptionInv, Configured, NEW s \in DOMAIN Defaults, NEW f \in DOMAIN settings,
           NEW i \in DOMAIN options, f \in DOMAIN options[i], FieldSoFar(s, applied, f),
           \A j \in DOMAIN options : f \in DOMAIN options[j] => j <= i
    PROVE  settings[f] = options[i][f]
<1>1. 1..applied = DOMAIN options /\ applied \in Nat
    BY DEF OptionInv, Configured
<1>2. PICK k \in 1..applied :
          /\ f \in DOMAIN options[k] /\ settings[f] = options[k][f]
          /\ \A j \in 1..applied : j > k => f \notin DOMAIN options[j]
    BY <1>1 DEF FieldSoFar
<1>3. k = i
    BY <1>1, <1>2
<1> QED
    BY <1>2, <1>3

\* WHISPER'S STRATEGY.  For option lists of any length, whisper runs the strategy
\* that the last WithBeamSearch or WithGreedy names, by the count it gives, and
\* greedily if there is none: each of the two options clears what the other has set
\* (options.go, session.go buildCParams, binding.cpp build_params).
THEOREM OneShotStrategy == Spec => []StrategyAsAsked
<1>1. Init => OptionInv
    BY DEF Init, OptionInv, Configuring
<1>2. OptionInv => StrategyAsAsked
    <2> DEFINE cp == T!buildCParams(settings)
               wp == T!build_params(cp)
               asks == {i \in DOMAIN options :
                           {"beamSize", "bestOf"} \cap DOMAIN options[i] # {}}
               Count(f, n) == IF n <= 0 THEN T!whisperDefaults[f] ELSE n
    <2> SUFFICES ASSUME OptionInv, Step("transcribe"), Configured
                 PROVE  /\ asks = {} => /\ wp["strategy"] = 0
                                        /\ wp["bestOf"] = Defaults["transcribe"].bestOf
                        /\ \A i \in asks : (\A j \in asks : j <= i) =>
                              IF "beamSize" \in DOMAIN options[i]
                              THEN /\ wp["strategy"] = 1
                                   /\ wp["beamSize"] = Count("beamSize", options[i].beamSize)
                              ELSE /\ wp["strategy"] = 0
                                   /\ wp["bestOf"] = Count("bestOf", options[i].bestOf)
        BY DEF StrategyAsAsked
    <2>1. /\ options \in OptionLists["transcribe"]
          /\ DOMAIN settings = DOMAIN Defaults["transcribe"]
          /\ \A f \in DOMAIN settings : FieldSoFar("transcribe", applied, f)
        BY DEF OptionInv, Configured, Step
    <2>2. 1..applied = DOMAIN options /\ applied \in Nat /\ "transcribe" \in DOMAIN Defaults
        BY DEF OptionInv, Configured, Defaults
    <2>3. {"beamSearch", "beamSize", "bestOf"} \subseteq DOMAIN settings
        BY <2>1 DEF Defaults, T!defaultTranscribeOptions, T!Zero, T!Booleans, T!Counts
    <2>4. /\ wp["strategy"] = IF settings["beamSearch"] THEN 1 ELSE 0
          /\ wp["beamSize"] = IF settings["beamSize"] <= 0 THEN T!whisperDefaults["beamSize"]
                               ELSE settings["beamSize"]
          /\ wp["bestOf"] = IF settings["bestOf"] <= 0 THEN T!whisperDefaults["bestOf"]
                             ELSE settings["bestOf"]
        <3>1. /\ {"strategy", "beamSize", "bestOf"} \subseteq DOMAIN cp
              /\ cp["strategy"] = IF settings["beamSearch"] THEN 1 ELSE 0
              /\ cp["beamSize"] = settings["beamSize"] /\ cp["bestOf"] = settings["bestOf"]
            BY <2>3 DEF T!buildCParams
        <3> HIDE DEF cp
        <3> QED
            BY <3>1 DEF T!build_params, T!Counts
    <2> HIDE DEF wp, cp
    <2>5. ASSUME NEW j \in DOMAIN options,
                 {"beamSearch", "beamSize", "bestOf"} \cap DOMAIN options[j] # {}
          PROVE  j \in asks
        BY <2>1, <2>5, StrategyAssumption
    <2>6. /\ Defaults["transcribe"]["beamSearch"] = FALSE
          /\ Defaults["transcribe"]["bestOf"] = 2
        <3> DEFINE z == T!Zero
        <3>1. {"beamSearch", "bestOf"} \subseteq DOMAIN z /\ z["beamSearch"] = FALSE
            BY DEF T!Zero, T!Booleans, T!Counts
        <3> HIDE DEF z
        <3> QED
            BY <3>1 DEF Defaults, T!defaultTranscribeOptions, z
    <2>7. ASSUME asks = {}
          PROVE  wp["strategy"] = 0 /\ wp["bestOf"] = Defaults["transcribe"].bestOf
        <3>1. \A f \in {"beamSearch", "bestOf"} : settings[f] = Defaults["transcribe"][f]
            BY <2>1, <2>2, <2>3, <2>5, <2>7 DEF FieldSoFar
        <3> QED
            BY <2>4, <2>6, <3>1
    <2>8. ASSUME NEW i \in asks, \A j \in asks : j <= i
          PROVE  IF "beamSize" \in DOMAIN options[i]
                 THEN /\ wp["strategy"] = 1
                      /\ wp["beamSize"] = Count("beamSize", options[i].beamSize)
                 ELSE /\ wp["strategy"] = 0
                      /\ wp["bestOf"] = Count("bestOf", options[i].bestOf)
        <3>1. ASSUME NEW f \in {"beamSearch", "beamSize", "bestOf"}, f \in DOMAIN options[i]
              PROVE  settings[f] = options[i][f]
            <4>1. \A j \in DOMAIN options : f \in DOMAIN options[j] => j <= i
                BY <2>5, <2>8, <3>1
            <4> QED
                BY <2>1, <2>2, <2>3, <2>8, <3>1, <4>1, NamedLast
        <3>2. CASE "beamSize" \in DOMAIN options[i]
            <4>1. options[i] = T!WithBeamSearch(options[i].beamSize)
                BY <2>1, <2>8, <3>2, StrategyAssumption
            <4>2. "beamSearch" \in DOMAIN options[i] /\ options[i]["beamSearch"] = TRUE
                BY <4>1 DEF T!WithBeamSearch
            <4>3. settings["beamSearch"] = TRUE /\ settings["beamSize"] = options[i].beamSize
                BY <3>1, <3>2, <4>2
            <4> QED
                BY <2>4, <3>2, <4>3
        <3>3. CASE "beamSize" \notin DOMAIN options[i]
            <4>1. "bestOf" \in DOMAIN options[i] /\ options[i] = T!WithGreedy(options[i].bestOf)
                BY <2>1, <2>8, <3>3, StrategyAssumption
            <4>2. "beamSearch" \in DOMAIN options[i] /\ options[i]["beamSearch"] = FALSE
                BY <4>1 DEF T!WithGreedy
            <4>3. settings["beamSearch"] = FALSE /\ settings["bestOf"] = options[i].bestOf
                BY <3>1, <4>1, <4>2
            <4> QED
                BY <2>4, <3>3, <4>3
        <3> QED
            BY <3>2, <3>3
    <2> QED
        BY <2>7, <2>8
<1> QED
    BY <1>1, <1>2, OptionInvStep, PTL DEF Spec

\* WHISPER'S PARAMETERS.  No count of zero or less and no threshold that nobody
\* asked for reaches whisper, whatever the options (options.go, binding.cpp
\* build_params).
THEOREM OneShotSaneParams == Spec => []SaneParams
<1>1. Init => OptionInv
    BY DEF Init, OptionInv, Configuring
<1>2. OptionInv => SaneParams
    <2> SUFFICES ASSUME OptionInv, Step("transcribe"), Configured PROVE SaneParams
        BY DEF SaneParams
    <2> DEFINE cp == T!buildCParams(settings)
               wp == T!build_params(cp)
    <2>1. /\ DOMAIN settings = DOMAIN Defaults["transcribe"]
          /\ \A f \in DOMAIN settings : FieldSoFar("transcribe", applied, f)
        BY DEF OptionInv, Configured, Step
    <2>2. DOMAIN settings = T!Booleans \cup T!Texts \cup T!Counts \cup T!Thresholds
                            \cup {"offsetMs", "durationMs"}
        BY <2>1 DEF Defaults, T!defaultTranscribeOptions, T!Zero
    <2>3. ASSUME NEW f \in T!Counts \cup T!Thresholds \cup {"language"}
          PROVE  f \in DOMAIN cp /\ cp[f] = settings[f]
        <3>1. f \in DOMAIN settings /\ f \notin {"beamSearch", "strategy", "abortCb"}
            BY <2>2 DEF T!Counts, T!Thresholds, T!Texts
        <3> QED
            BY <3>1 DEF T!buildCParams
    <2> HIDE DEF cp
    <2>4. ASSUME NEW f \in T!Counts
          PROVE  wp[f] <= 0 => wp[f] = T!whisperDefaults[f]
        <3>1. wp[f] = IF cp[f] <= 0 THEN T!whisperDefaults[f] ELSE cp[f]
            BY <2>3 DEF T!build_params, T!Counts
        <3> QED
            BY <3>1
    <2>5. ASSUME NEW f \in T!Thresholds
          PROVE  \/ wp[f] = T!whisperDefaults[f]
                 \/ \E i \in DOMAIN options : f \in DOMAIN options[i]
        <3>1. f \in DOMAIN settings /\ f \notin T!Counts /\ f # "language"
            BY <2>2 DEF T!Thresholds, T!Counts
        <3>2. wp[f] = settings[f]
            BY <2>3, <3>1 DEF T!build_params
        <3>3. Defaults["transcribe"][f] = T!whisperDefaults[f]
            <4>1. Defaults["transcribe"] = T!defaultTranscribeOptions
                BY DEF Defaults
            <4>2. f \in DOMAIN T!Zero /\ (f = "temperature" => T!Zero[f] = 0)
                BY DEF T!Zero, T!Thresholds, T!Booleans, T!Switches, T!Texts
            <4>3. T!defaultTranscribeOptions[f] =
                      CASE f = "temperatureInc" -> 2 [] f = "entropyThold" -> 24
                        [] f = "logProbThold" -> -10 [] f = "noSpeechThold" -> 6
                        [] OTHER -> 0
                <5> DEFINE z == T!Zero
                <5> HIDE DEF z
                <5>1. T!Zero = z
                    BY DEF z
                <5> QED
                    BY <4>2, <5>1 DEF T!defaultTranscribeOptions, T!Thresholds
            <4>4. T!whisperDefaults[f] =
                      CASE f = "temperatureInc" -> 2 [] f = "entropyThold" -> 24
                        [] f = "logProbThold" -> -10 [] f = "noSpeechThold" -> 6
                        [] OTHER -> 0
                BY DEF T!whisperDefaults, T!Thresholds
            <4> QED
                BY <4>1, <4>3, <4>4
        <3>4. 1..applied = DOMAIN options
            BY DEF OptionInv, Configured
        <3> QED
            BY <2>1, <3>1, <3>2, <3>3, <3>4, Zenon DEF FieldSoFar
    <2>6. wp["language"] # ""
        <3>1. "language" \notin T!Counts
            BY DEF T!Counts
        <3> QED
            BY <2>3, <3>1 DEF T!build_params
    <2> HIDE DEF wp
    <2> QED
        BY <2>4, <2>5, <2>6 DEF SaneParams, wp, cp
<1> QED
    BY <1>1, <1>2, OptionInvStep, PTL DEF Spec

\* SHERPA'S CLUSTERING.  The last option to ask for a count or a threshold decides
\* which of the two sherpa clusters by, whatever was asked before it: WithThreshold
\* clears the count (diarize/options.go).
THEOREM OneShotClusters == Spec => []ClusteringAsAsked
<1>1. Init => OptionInv
    BY DEF Init, OptionInv, Configuring
<1>2. OptionInv => ClusteringAsAsked
    <2> DEFINE asks == {i \in DOMAIN options :
                           {"numSpeakers", "threshold"} \cap DOMAIN options[i] # {}}
    <2> SUFFICES ASSUME OptionInv, Step("new"), Configured,
                        NEW i \in asks, \A j \in asks : j <= i
                 PROVE  IF "threshold" \in DOMAIN options[i]
                        THEN D!Clustering(settings) =
                                 [numClusters |-> 0, threshold |-> options[i].threshold]
                        ELSE options[i].numSpeakers > 0 =>
                                 D!Clustering(settings) =
                                     [numClusters |-> options[i].numSpeakers, threshold |-> 0]
        BY DEF ClusteringAsAsked
    <2>1. /\ options \in OptionLists["new"]
          /\ DOMAIN settings = DOMAIN Defaults["new"]
          /\ \A f \in DOMAIN settings : FieldSoFar("new", applied, f)
        BY DEF OptionInv, Configured, Step
    <2>2. 1..applied = DOMAIN options /\ applied \in Nat
        BY DEF OptionInv, Configured
    <2>3. {"numSpeakers", "threshold"} \subseteq DOMAIN settings
        BY <2>1 DEF Defaults, D!defaultOptions
    <2>4. ASSUME NEW f \in {"numSpeakers", "threshold"}, f \in DOMAIN options[i]
          PROVE  settings[f] = options[i][f]
        <3>1. \A j \in 1..applied : f \in DOMAIN options[j] => j <= i
            BY <2>2, <2>4
        <3>2. PICK k \in 1..applied :
                  /\ f \in DOMAIN options[k] /\ settings[f] = options[k][f]
                  /\ \A j \in 1..applied : j > k => f \notin DOMAIN options[j]
            BY <2>1, <2>2, <2>3, <2>4 DEF FieldSoFar
        <3>3. k = i
            BY <2>2, <2>4, <3>1, <3>2
        <3> QED
            BY <3>2, <3>3
    <2>5. CASE "threshold" \in DOMAIN options[i]
        <3>1. options[i] = D!WithThreshold(options[i].threshold)
            BY <2>1, <2>5, ThresholdAssumption
        <3>2. "numSpeakers" \in DOMAIN options[i] /\ options[i].numSpeakers = 0
            BY <3>1 DEF D!WithThreshold
        <3>3. settings.numSpeakers = 0 /\ settings.threshold = options[i].threshold
            BY <2>4, <2>5, <3>2
        <3> QED
            BY <2>5, <3>3 DEF D!Clustering
    <2>6. CASE "threshold" \notin DOMAIN options[i]
        <3>1. settings.numSpeakers = options[i].numSpeakers
            BY <2>4, <2>6
        <3> QED
            BY <2>6, <3>1 DEF D!Clustering
    <2> QED
        BY <2>5, <2>6
<1> QED
    BY <1>1, <1>2, OptionInvStep, PTL DEF Spec

-----------------------------------------------------------------------------
(* Handles. *)

LEMMA AppendThenFront ==
    ASSUME NEW S, NEW s \in Seq(S), NEW e \in S
    PROVE  /\ Append(s, e) \in Seq(S) /\ Append(s, e) # <<>>
           /\ Append(s, e)[Len(Append(s, e))] = e
           /\ SubSeq(Append(s, e), 1, Len(Append(s, e)) - 1) = s
<1> DEFINE t == Append(s, e)
<1>1. /\ t \in Seq(S) /\ t # <<>> /\ Len(t) = Len(s) + 1 /\ t[Len(s) + 1] = e
      /\ \A i \in 1..Len(s) : t[i] = s[i]
    BY AppendProperties
<1> HIDE DEF t
<1>2. Len(s) \in Nat /\ (\A i \in 1..Len(s) : s[i] \in S)
    BY ElementOfSeq, LenProperties
<1> DEFINE u == SubSeq(t, 1, Len(s))
<1>3. /\ u \in Seq(S) /\ Len(u) = Len(s)
      /\ \A i \in 1..Len(s) : u[i] = s[i]
    <2>1. \A i \in 1..Len(s) : t[i] \in S
        BY <1>1, <1>2
    <2>2. /\ u \in Seq(S)
          /\ Len(u) = IF 1 <= Len(s) THEN Len(s) - 1 + 1 ELSE 0
          /\ \A i \in 1..(Len(s) - 1 + 1) : u[i] = t[1 + i - 1]
        BY <1>2, <2>1, SubSeqProperties
    <2> QED
        BY <1>1, <1>2, <2>2
<1> HIDE DEF u
<1>4. u = s
    BY <1>3, SeqEqual
<1>5. Len(t) - 1 = Len(s)
    BY <1>1, <1>2
<1> QED
    BY <1>1, <1>4, <1>5 DEF t, u

\* What the last Close leaves of each.
LEMMA Deferred ==
    /\ ModelOnly # <<>> /\ DiarizerOnly # <<>> /\ Both # <<>>
    /\ ModelOnly[Len(ModelOnly)] = "model" /\ DiarizerOnly[Len(DiarizerOnly)] = "diarizer"
    /\ Both[Len(Both)] = "diarizer"
    /\ SubSeq(ModelOnly, 1, Len(ModelOnly) - 1) = None
    /\ SubSeq(DiarizerOnly, 1, Len(DiarizerOnly) - 1) = None
    /\ SubSeq(Both, 1, Len(Both) - 1) = ModelOnly
    /\ {None, ModelOnly, DiarizerOnly, Both} \subseteq Seq({"model", "diarizer"})
<1>1. None \in Seq({"model", "diarizer"})
    BY DEF None
<1>2. ModelOnly \in Seq({"model", "diarizer"})
    BY <1>1, AppendThenFront DEF ModelOnly
<1> QED
    BY <1>1, <1>2, AppendThenFront DEF ModelOnly, DiarizerOnly, Both

LEMMA OnlyModel == ModelOnly # DiarizerOnly /\ ModelOnly # Both /\ ModelOnly # None
<1>1. ModelOnly # DiarizerOnly /\ ModelOnly # Both
    BY Deferred
<1> QED
    BY <1>1, Deferred DEF None

\* The programs, step by step.
LEMMA Steps ==
    /\ DOMAIN Program = {"transcribe", "diarize", "transcribeDiarize"}
    /\ Len(Program["transcribe"]) = 3 /\ Len(Program["diarize"]) = 3
    /\ Len(Program["transcribeDiarize"]) = 6
    /\ Program["transcribe"][1] = "load" /\ Program["transcribe"][2] = "read"
    /\ Program["transcribe"][3] = "transcribe"
    /\ Program["diarize"][1] = "new" /\ Program["diarize"][2] = "read"
    /\ Program["diarize"][3] = "diarize"
    /\ Program["transcribeDiarize"][1] = "read" /\ Program["transcribeDiarize"][2] = "load"
    /\ Program["transcribeDiarize"][3] = "transcribe"
    /\ Program["transcribeDiarize"][4] = "new"
    /\ Program["transcribeDiarize"][5] = "diarize"
    /\ Program["transcribeDiarize"][6] = "label"
BY DEF Program

\* Where a step that succeeds goes: out after the last, else on.
LEMMA WhereTo ==
    ASSUME HandleInv, ret = "none", Advance
    PROVE  /\ prog' = prog
           /\ at = (IF prog = "transcribeDiarize" THEN 6 ELSE 3) => ret' = "nil" /\ at' = at
           /\ at # (IF prog = "transcribeDiarize" THEN 6 ELSE 3) =>
                 ret' = "none" /\ at' = at + 1
<1>1. prog' = prog /\ prog \in DOMAIN Program /\ at \in 1..6
    BY DEF Advance, HandleInv
<1>2. Len(Program[prog]) = IF prog = "transcribeDiarize" THEN 6 ELSE 3
    BY <1>1, Steps
<1>3. at <= Len(Program[prog])
    BY <1>1, <1>2, Steps DEF HandleInv
<1> QED
    BY <1>1, <1>2, <1>3 DEF Advance

\* A step that opens nothing keeps it.
LEMMA OpensNothing ==
    ASSUME HandleInv, NEW s \in {"read", "transcribe", "diarize", "label"}, Step(s),
           UNCHANGED handleVars, Advance \/ Fail
    PROVE  HandleInv'
<1>1. CASE Fail
    BY <1>1 DEF HandleInv, handleVars, Fail
<1>2. CASE Advance
    <2>1. /\ prog = "transcribe" => at \in {2, 3}
          /\ prog = "diarize" => at \in {2, 3}
          /\ prog = "transcribeDiarize" => at \in {1, 3, 5, 6}
        BY Steps DEF HandleInv, Step
    <2>2. /\ prog' = prog /\ ret = "none"
          /\ at = (IF prog = "transcribeDiarize" THEN 6 ELSE 3) => ret' = "nil" /\ at' = at
          /\ at # (IF prog = "transcribeDiarize" THEN 6 ELSE 3) =>
                ret' = "none" /\ at' = at + 1
        BY <1>2, WhereTo DEF Step
    <2>3. defers' = defers /\ held' = held
        BY DEF handleVars
    <2>4. prog \in {"transcribe", "diarize", "transcribeDiarize"}
        BY Steps DEF HandleInv
    <2>5. CASE prog = "transcribe"
        BY <2>1, <2>2, <2>3, <2>5 DEF HandleInv
    <2>6. CASE prog = "diarize"
        BY <2>1, <2>2, <2>3, <2>6 DEF HandleInv
    <2>7. CASE prog = "transcribeDiarize"
        BY <2>1, <2>2, <2>3, <2>7 DEF HandleInv
    <2> QED
        BY <2>4, <2>5, <2>6, <2>7
<1> QED
    BY <1>1, <1>2

LEMMA OpenKeeps ==
    ASSUME HandleInv, LoadModel \/ NewDiarizer PROVE HandleInv'
<1>1. CASE UNCHANGED handleVars /\ Fail
    BY <1>1 DEF HandleInv, handleVars, Fail
<1>2. CASE LoadModel /\ Advance /\ held' = held \cup {"model"}
           /\ defers' = Append(defers, "model")
    <2>1. Step("load")
        BY <1>2 DEF LoadModel
    <2>2. \/ prog = "transcribe" /\ at = 1
          \/ prog = "transcribeDiarize" /\ at = 2
        BY <2>1, Steps DEF HandleInv, Step
    <2>3. defers = None /\ held = {}
        BY <2>1, <2>2, Deferred DEF HandleInv, Step, None
    <2>4. prog' = prog /\ ret' = "none" /\ at' = at + 1
        BY <1>2, <2>1, <2>2, WhereTo DEF Step
    <2>5. defers' = ModelOnly /\ held' = {"model"}
        BY <1>2, <2>3 DEF ModelOnly
    <2> QED
        BY <2>2, <2>4, <2>5 DEF HandleInv
<1>3. CASE NewDiarizer /\ Advance /\ held' = held \cup {"diarizer"}
           /\ defers' = Append(defers, "diarizer")
    <2>1. Step("new")
        BY <1>3 DEF NewDiarizer
    <2>2. \/ prog = "diarize" /\ at = 1 /\ defers = None
          \/ prog = "transcribeDiarize" /\ at = 4 /\ defers = ModelOnly
        BY <2>1, Steps DEF HandleInv, Step
    <2>3. prog' = prog /\ ret' = "none" /\ at' = at + 1
        BY <1>3, <2>1, <2>2, WhereTo DEF Step
    <2>4. CASE prog = "diarize"
        <3>1. held = {}
            BY <2>2, <2>4, Deferred DEF HandleInv, None
        <3>2. defers' = DiarizerOnly /\ held' = {"diarizer"}
            BY <1>3, <2>2, <2>4, <3>1 DEF DiarizerOnly
        <3> QED
            BY <2>2, <2>3, <2>4, <3>2 DEF HandleInv
    <2>5. CASE prog = "transcribeDiarize"
        <3>1. held = {"model"}
            BY <2>2, <2>5, OnlyModel DEF HandleInv
        <3>2. defers' = Both /\ held' = {"model", "diarizer"}
            BY <1>3, <2>2, <2>5, <3>1 DEF Both
        <3> QED
            BY <2>2, <2>3, <2>5, <3>2 DEF HandleInv
    <2> QED
        BY <2>2, <2>4, <2>5
<1> QED
    BY <1>1, <1>2, <1>3 DEF LoadModel, NewDiarizer, Open

LEMMA CloseKeeps ==
    ASSUME HandleInv, Close PROVE HandleInv'
<1>1. /\ ret # "none" /\ defers # <<>> /\ UNCHANGED <<prog, at, ret>>
      /\ held' = held \ {defers[Len(defers)]}
      /\ defers' = SubSeq(defers, 1, Len(defers) - 1)
    BY DEF Close, flowVars
<1>2. CASE defers = ModelOnly /\ held = {"model"}
    BY <1>1, <1>2, Deferred DEF HandleInv
<1>3. CASE defers = DiarizerOnly /\ held = {"diarizer"}
    BY <1>1, <1>3, Deferred DEF HandleInv
<1>4. CASE defers = Both /\ held = {"model", "diarizer"}
    BY <1>1, <1>4, Deferred DEF HandleInv
<1> QED
    BY <1>1, <1>2, <1>3, <1>4 DEF HandleInv, None

LEMMA HandleInvStep ==
    ASSUME HandleInv, [Next]_vars PROVE HandleInv'
<1>1. CASE LoadModel \/ NewDiarizer
    BY <1>1, OpenKeeps
<1>2. CASE ReadAudio
    BY <1>2, OpensNothing DEF ReadAudio
<1>3. CASE Transcribe
    BY <1>3, OpensNothing DEF Transcribe
<1>4. CASE Diarize
    BY <1>4, OpensNothing DEF Diarize
<1>5. CASE LabelDone
    BY <1>5, OpensNothing DEF LabelDone
<1>6. CASE Close
    BY <1>6, CloseKeeps
<1>7. CASE UNCHANGED <<flowVars, handleVars>>
    BY <1>7 DEF HandleInv, flowVars, handleVars
<1> QED
    BY <1>1, <1>2, <1>3, <1>4, <1>5, <1>6, <1>7
       DEF Next, Exited, vars, Configure, ApplyOption, LabelTurn, LabelSegment

\* THE HANDLES.  A model or a diarizer is open whenever it is used, and a program
\* that has returned, from whichever step, leaves none open (examples' run).
THEOREM OneShotNothingLeaked == Spec => []NothingLeaked
<1>1. Init => HandleInv
    BY Steps DEF Init, HandleInv, None, Program
<1>2. HandleInv => NothingLeaked
    BY Steps, Deferred DEF HandleInv, NothingLeaked, Step, None
<1> QED
    BY <1>1, <1>2, HandleInvStep, PTL DEF Spec

-----------------------------------------------------------------------------
(* Labels. *)

\* One more turn.
LEMMA BestOfOneMore ==
    ASSUME turns \in Seq(Turns), NEW s \in Spans, NEW n \in Nat, n < Len(turns),
           NEW sp, NEW ov \in Nat, BestOf(s, n, sp, ov)
    PROVE  LET t == turns[n + 1]
               o == D!overlap(s, t)
           IN  IF o > ov THEN BestOf(s, n + 1, t.speaker, o) ELSE BestOf(s, n + 1, sp, ov)
<1> DEFINE O[k \in 1..Len(turns)] == D!overlap(s, turns[k])
           o == O[n + 1]
<1>1. \A k \in 1..Len(turns) : O[k] = D!overlap(s, turns[k]) /\ O[k] \in Nat
    BY OverlapNat
<1>2. n + 1 \in 1..Len(turns) /\ Len(turns) \in Nat /\ 1..n \subseteq 1..Len(turns)
    OBVIOUS
<1>3. o = D!overlap(s, turns[n + 1]) /\ o \in Nat
    BY <1>1, <1>2
<1>4. \/ sp = -1 /\ ov = 0 /\ \A k \in 1..n : O[k] = 0
      \/ \E j \in 1..n :
            /\ sp = turns[j].speaker /\ ov = O[j] /\ ov > 0
            /\ \A k \in 1..n : O[k] <= ov
            /\ \A k \in 1..(j - 1) : O[k] < ov
    BY <1>1, <1>2 DEF BestOf
<1> HIDE DEF O
<1>5. CASE o > ov
    <2>1. \A k \in 1..n : O[k] <= ov
        BY <1>1, <1>2, <1>4
    <2>2. \A k \in 1..(n + 1) : O[k] <= o
        BY <1>1, <1>2, <1>5, <2>1
    <2>3. \A k \in 1..(n + 1 - 1) : O[k] < o
        BY <1>1, <1>2, <1>3, <1>5, <2>1
    <2>4. BestOf(s, n + 1, turns[n + 1].speaker, o)
        <3>1. \A k \in 1..(n + 1) : D!overlap(s, turns[k]) <= o
            BY <1>1, <1>2, <2>2
        <3>2. \A k \in 1..(n + 1 - 1) : D!overlap(s, turns[k]) < o
            BY <1>1, <1>2, <2>3
        <3> HIDE DEF o
        <3> QED
            BY <1>3, <1>5, <3>1, <3>2 DEF BestOf
    <2> QED
        BY <1>3, <1>5, <2>4
<1>6. CASE ~(o > ov)
    <2>1. o <= ov
        BY <1>3, <1>6
    <2>2. BestOf(s, n + 1, sp, ov)
        <3>1. CASE sp = -1 /\ ov = 0 /\ \A k \in 1..n : O[k] = 0
            <4>1. \A k \in 1..(n + 1) : D!overlap(s, turns[k]) = 0
                BY <1>1, <1>2, <1>3, <2>1, <3>1
            <4> QED
                BY <3>1, <4>1 DEF BestOf
        <3>2. ASSUME NEW j \in 1..n,
                     sp = turns[j].speaker, ov = O[j], ov > 0,
                     \A k \in 1..n : O[k] <= ov, \A k \in 1..(j - 1) : O[k] < ov
              PROVE  BestOf(s, n + 1, sp, ov)
            <4>1. \A k \in 1..(n + 1) : D!overlap(s, turns[k]) <= ov
                BY <1>1, <1>2, <1>3, <2>1, <3>2
            <4>2. \A k \in 1..(j - 1) : D!overlap(s, turns[k]) < ov
                BY <1>1, <1>2, <3>2
            <4>3. ov = D!overlap(s, turns[j]) /\ j \in 1..(n + 1)
                BY <1>1, <1>2, <3>2
            <4> QED
                BY <3>2, <4>1, <4>2, <4>3 DEF BestOf
        <3> QED
            BY <1>4, <3>1, <3>2
    <2> QED
        BY <1>3, <1>6, <2>2
<1> QED
    BY <1>5, <1>6

\* All turns seen, the best of them is the label.
LEMMA BestOfAll ==
    ASSUME turns \in Seq(Turns), NEW s, NEW sp, NEW ov, BestOf(s, Len(turns), sp, ov)
    PROVE  LabelOf(s, turns, sp)
<1>1. DOMAIN turns = 1..Len(turns)
    OBVIOUS
<1> QED
    BY <1>1 DEF BestOf, LabelOf

LEMMA TurnKeeps ==
    ASSUME LabelInv, LabelTurn PROVE LabelInv'
<1>1. /\ Labelling /\ seen < Len(turns) /\ seen' = seen + 1
      /\ UNCHANGED <<prog, at, ret, segs, turns, labels>>
    BY DEF LabelTurn, flowVars
<1>2. /\ segs \in Seq(Spans) /\ turns \in Seq(Turns) /\ labels \in Seq(Nat \cup {-1})
      /\ seen \in Nat /\ bestOverlap \in Nat /\ best \in Nat \cup {-1}
      /\ Len(labels) < Len(segs) /\ BestOf(Seg, seen, best, bestOverlap)
    BY <1>1 DEF LabelInv, Labelling
<1>3. Seg \in Spans /\ Seg' = Seg
    BY <1>1, <1>2 DEF Seg
<1>4. turns[seen + 1] \in Turns
    BY <1>1, <1>2
<1> DEFINE t == turns[seen + 1]
           ov == D!overlap(Seg, t)
<1>5. ov \in Nat /\ t.speaker \in Nat
    BY <1>3, <1>4, OverlapNat DEF Turns
<1>6. IF ov > bestOverlap THEN best' = t.speaker /\ bestOverlap' = ov
      ELSE best' = best /\ bestOverlap' = bestOverlap
    BY DEF LabelTurn
<1>7. IF ov > bestOverlap THEN BestOf(Seg, seen + 1, t.speaker, ov)
      ELSE BestOf(Seg, seen + 1, best, bestOverlap)
    BY <1>1, <1>2, <1>3, BestOfOneMore
<1> HIDE DEF t, ov
<1>8. BestOf(Seg, seen, best, bestOverlap)'
    <2>1. BestOf(Seg, seen + 1, best', bestOverlap')
        BY <1>6, <1>7
    <2> QED
        BY <1>1, <1>3, <2>1 DEF BestOf
<1>9. best' \in Nat \cup {-1} /\ bestOverlap' \in Nat
    BY <1>2, <1>5, <1>6
<1>10. Step("label")' /\ LabelsByOverlap'
    BY <1>1 DEF LabelInv, Labelling, Step, LabelsByOverlap, LabelOf
<1> QED
    BY <1>1, <1>2, <1>8, <1>9, <1>10 DEF LabelInv

LEMMA SegmentKeeps ==
    ASSUME LabelInv, LabelSegment PROVE LabelInv'
<1>1. /\ Labelling /\ seen = Len(turns) /\ labels' = Append(labels, best)
      /\ seen' = 0 /\ best' = -1 /\ bestOverlap' = 0
      /\ UNCHANGED <<prog, at, ret, segs, turns>>
    BY DEF LabelSegment, flowVars
<1>2. /\ segs \in Seq(Spans) /\ turns \in Seq(Turns) /\ labels \in Seq(Nat \cup {-1})
      /\ best \in Nat \cup {-1} /\ Len(labels) < Len(segs)
      /\ BestOf(Seg, seen, best, bestOverlap) /\ LabelsByOverlap
    BY <1>1 DEF LabelInv, Labelling
<1>3. /\ labels' \in Seq(Nat \cup {-1}) /\ Len(labels') = Len(labels) + 1
      /\ labels'[Len(labels) + 1] = best
      /\ \A i \in 1..Len(labels) : labels'[i] = labels[i]
    BY <1>1, <1>2, AppendProperties
<1>4. LabelOf(Seg, turns, best)
    BY <1>1, <1>2, BestOfAll
<1>5. LabelsByOverlap'
    <2>1. DOMAIN labels' = 1..(Len(labels) + 1) /\ DOMAIN labels = 1..Len(labels)
          /\ Len(labels) \in Nat
        BY <1>2, <1>3
    <2>2. ASSUME NEW i \in 1..(Len(labels) + 1) PROVE LabelOf(segs[i], turns, labels'[i])
        <3>1. CASE i = Len(labels) + 1
            BY <1>3, <1>4, <3>1 DEF Seg
        <3>2. CASE i \in 1..Len(labels)
            BY <1>2, <1>3, <2>1, <3>2 DEF LabelsByOverlap
        <3> QED
            BY <2>1, <3>1, <3>2
    <2>3. segs' = segs /\ turns' = turns
        BY <1>1
    <2> QED
        BY <2>1, <2>2, <2>3 DEF LabelsByOverlap
<1>6. BestOf(Seg, seen, best, bestOverlap)'
    BY <1>1 DEF BestOf
<1>7. Step("label")'
    BY <1>1 DEF Labelling, Step
<1>8. Len(labels') <= Len(segs) /\ 0 \in 0..Len(turns)
    BY <1>2, <1>3
<1> QED
    BY <1>1, <1>2, <1>3, <1>5, <1>6, <1>7, <1>8 DEF LabelInv

\* Until labelling begins, whatever transcript or turns there are.
LEMMA UnlabelledInv ==
    ASSUME segs \in Seq(Spans), turns \in Seq(Turns),
           labels = <<>>, seen = 0, best = -1, bestOverlap = 0
    PROVE  LabelInv
<1>1. BestOf(Seg, 0, -1, 0)
    BY DEF BestOf
<1>2. LabelsByOverlap
    BY DEF LabelsByOverlap
<1>3. labels \in Seq(Nat \cup {-1}) /\ Len(labels) = 0 /\ Len(segs) \in Nat /\ Len(turns) \in Nat
    OBVIOUS
<1> QED
    BY <1>1, <1>2, <1>3 DEF LabelInv

\* The other steps, while nothing is labelled, and after.
LEMMA Unlabelled ==
    ASSUME LabelInv, ret = "none", ~Step("label"), UNCHANGED labelVars,
           segs' = segs \/ segs' \in Transcripts, turns' = turns \/ turns' \in Diarizations
    PROVE  LabelInv'
<1>1. labels' = <<>> /\ seen' = 0 /\ best' = -1 /\ bestOverlap' = 0
    BY DEF LabelInv, labelVars
<1>2. segs' \in Seq(Spans) /\ turns' \in Seq(Turns)
    BY OneShotAssumption DEF LabelInv
<1>3. BestOf(Seg, 0, -1, 0)'
    BY DEF BestOf
<1>4. LabelsByOverlap'
    BY <1>1 DEF LabelsByOverlap
<1>5. labels' \in Seq(Nat \cup {-1}) /\ Len(labels') = 0 /\ Len(segs') \in Nat
      /\ Len(turns') \in Nat
    BY <1>1, <1>2
<1>6. BestOf(Seg, seen, best, bestOverlap)'
    BY <1>1 DEF BestOf
<1> QED
    BY <1>1, <1>2, <1>4, <1>5, <1>6 DEF LabelInv

LEMMA Labelled ==
    ASSUME LabelInv, UNCHANGED <<segs, turns, labelVars>>,
           UNCHANGED flowVars \/ ret' # "none"
    PROVE  LabelInv'
<1>1. UNCHANGED <<segs, turns, labels, seen, best, bestOverlap>>
    BY DEF labelVars
<1>2. LabelsByOverlap' /\ Seg' = Seg
    BY <1>1 DEF LabelInv, LabelsByOverlap, LabelOf, Seg
<1>3. BestOf(Seg, seen, best, bestOverlap) => BestOf(Seg, seen, best, bestOverlap)'
    BY <1>1, <1>2 DEF BestOf
<1>4. (ret = "none" /\ ~Step("label"))' => ret = "none" /\ ~Step("label")
    BY DEF Step, flowVars
<1> QED
    BY <1>1, <1>2, <1>3, <1>4 DEF LabelInv

LEMMA LabelInvStep ==
    ASSUME LabelInv, HandleInv, [Next]_vars PROVE LabelInv'
<1>1. CASE LabelTurn
    BY <1>1, TurnKeeps
<1>2. CASE LabelSegment
    BY <1>2, SegmentKeeps
<1>3. CASE LabelDone
    <2>1. prog = "transcribeDiarize" /\ at = 6
        BY <1>3, Steps DEF LabelDone, Step, HandleInv
    <2>2. ret' = "nil" /\ UNCHANGED <<segs, turns, labelVars>>
        BY <1>3, <2>1, WhereTo DEF LabelDone, Step
    <2> QED
        BY <2>2, Labelled
<1>4. CASE Configure \/ ApplyOption \/ Close \/ UNCHANGED vars
    <2>1. UNCHANGED <<segs, turns, labelVars, flowVars>>
        BY <1>4 DEF Configure, ApplyOption, Close, vars
    <2> QED
        BY <2>1, Labelled
<1>5. CASE LoadModel \/ NewDiarizer
    BY <1>5, Unlabelled DEF LoadModel, NewDiarizer, Open, Step
<1>6. CASE ReadAudio
    BY <1>6, Unlabelled DEF ReadAudio, Step
<1>7. CASE Transcribe
    BY <1>7, Unlabelled DEF Transcribe, Step
<1>8. CASE Diarize
    BY <1>8, Unlabelled DEF Diarize, Step
<1> QED
    BY <1>1, <1>2, <1>3, <1>4, <1>5, <1>6, <1>7, <1>8 DEF Next, Exited

\* THE LABELS.  For every transcript and every list of turns, in any order, each
\* segment has the speaker of the first turn of greatest overlap, or -1
\* (diarize/merge.go Label).
THEOREM OneShotLabelsByOverlap == Spec => []LabelsByOverlap
<1>1. Init => LabelInv /\ HandleInv
    <2> SUFFICES ASSUME Init PROVE LabelInv /\ HandleInv
        OBVIOUS
    <2>1. segs \in Seq(Spans) /\ turns \in Seq(Turns)
        BY DEF Init
    <2>2. LabelInv
        BY <2>1, UnlabelledInv DEF Init
    <2> QED
        BY <2>2, Steps DEF Init, HandleInv, None
<1>2. LabelInv /\ HandleInv /\ [Next]_vars => (LabelInv /\ HandleInv)'
    BY LabelInvStep, HandleInvStep
<1>3. LabelInv => LabelsByOverlap
    BY DEF LabelInv
<1> QED
    BY <1>1, <1>2, <1>3, PTL DEF Spec

\* Every variable keeps its type; the loops stay inside their sequences.
THEOREM OneShotTypeCorrect == Spec => []TypeOK
<1> DEFINE Audio == audio \in {"none", "empty", "some"}
           IInv == OptionInv /\ HandleInv /\ LabelInv /\ Audio
<1>1. Init => IInv
    <2> SUFFICES ASSUME Init PROVE IInv
        OBVIOUS
    <2>1. segs \in Seq(Spans) /\ turns \in Seq(Turns)
        BY DEF Init
    <2>2. LabelInv
        BY <2>1, UnlabelledInv DEF Init
    <2>3. OptionInv
        BY DEF Init, OptionInv, Configuring
    <2>4. HandleInv
        BY Steps DEF Init, HandleInv, None
    <2> QED
        BY <2>2, <2>3, <2>4 DEF Init
<1>2. IInv /\ [Next]_vars => IInv'
    <2> SUFFICES ASSUME IInv, [Next]_vars PROVE IInv'
        OBVIOUS
    <2>1. Audio'
        BY DEF Next, Exited, vars, Configure, ApplyOption, LoadModel, NewDiarizer, Open,
           ReadAudio, Transcribe, Diarize, LabelTurn, LabelSegment, LabelDone, Close
    <2> QED
        BY <2>1, OptionInvStep, HandleInvStep, LabelInvStep
<1>3. IInv => TypeOK
    <2> SUFFICES ASSUME IInv PROVE TypeOK
        OBVIOUS
    <2>1. prog \in DOMAIN Program /\ ret \in {"none", "nil", "error"} /\ at \in 1..6
        BY DEF HandleInv
    <2>2. at \in DOMAIN Program[prog]
        <3>1. DOMAIN Program["transcribe"] = 1..3 /\ DOMAIN Program["diarize"] = 1..3
              /\ DOMAIN Program["transcribeDiarize"] = 1..6
            BY DEF Program
        <3> QED
            BY <2>1, <3>1, Steps DEF HandleInv
    <2>3. held \subseteq {"model", "diarizer"} /\ defers \in Seq({"model", "diarizer"})
        BY Deferred DEF HandleInv
    <2>4. applied \in 0..Len(options)
        BY DEF OptionInv
    <2> QED
        BY <2>1, <2>2, <2>3, <2>4 DEF TypeOK, LabelInv
<1> HIDE DEF IInv
<1> QED
    BY <1>1, <1>2, <1>3, PTL DEF Spec

=============================================================================
