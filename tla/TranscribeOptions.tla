-------------------------- MODULE TranscribeOptions --------------------------
(***************************************************************************)
(* The options of whisper.New and of Transcribe (options.go), and what      *)
(* becomes of them on the way through buildCParams (session.go) and         *)
(* build_params (binding.cpp) to whisper.  Fractions are tenths.            *)
(***************************************************************************)
EXTENDS Options

defaultModelOptions == [gpu |-> FALSE, flashAttn |-> FALSE, gpuDevice |-> 0]

WithGPU(on) == "gpu" :> on
WithGPUDevice(d) == "gpuDevice" :> d
WithFlashAttn == "flashAttn" :> TRUE

Switches == {"translate", "detectLanguage", "tokenTimestamps", "splitOnWord",
             "noContext", "singleSegment"}
Booleans == Switches \cup {"beamSearch", "suppressBlank", "suppressNST",
                           "onSegment", "onProgress"}
Texts == {"language", "initialPrompt"}

\* Counts, for which 0 is "not set"; the thresholds that the shim always passes on.
Counts == {"threads", "beamSize", "bestOf", "maxLen", "maxTokens", "audioCtx"}
Thresholds == {"temperature", "temperatureInc", "entropyThold", "logProbThold",
               "noSpeechThold"}

\* transcribeOptions{}
Zero == [f \in Booleans \cup Texts \cup Counts \cup Thresholds \cup {"offsetMs", "durationMs"} |->
            IF f \in Booleans THEN FALSE ELSE IF f \in Texts THEN "" ELSE 0]

\* Fault: a threshold is left at Go's zero.
DefaultsMutant ==
    [Zero EXCEPT !.language = "auto", !.suppressBlank = TRUE, !.suppressNST = TRUE,
                 !.bestOf = 2, !.beamSize = 5, !.temperatureInc = 2,
                 !.entropyThold = 24, !.noSpeechThold = 6]

defaultTranscribeOptions ==
    [Zero EXCEPT !.language = "auto", !.suppressBlank = TRUE, !.suppressNST = TRUE,
                 !.bestOf = 2, !.beamSize = 5, !.temperatureInc = 2,
                 !.entropyThold = 24, !.logProbThold = -10, !.noSpeechThold = 6]

SwitchOn(f) == f :> TRUE
\* WithThreads, WithLanguage, WithTemperature and the other options of one field.
Set(f, v) == f :> v
WithBeamSearch(size) == [beamSearch |-> TRUE, beamSize |-> size]

\* Fault: beam search stays as an earlier option has left it.
WithGreedyMutant(bestOf) == "bestOf" :> bestOf

WithGreedy(bestOf) == [beamSearch |-> FALSE, bestOf |-> bestOf]

Quotient(d, n) == IF d >= 0 THEN d \div n ELSE -((-d) \div n)
WithOffset(d, ms) == "offsetMs" :> Quotient(d, ms)
WithDuration(d, ms) == "durationMs" :> Quotient(d, ms)

\* What whisper_full_default_params holds, of the fields it matters for here;
\* beamSize and bestOf are those of their own strategy.
whisperDefaults ==
    [threads |-> 4, beamSize |-> 5, bestOf |-> 5, maxLen |-> 0, maxTokens |-> 0,
     audioCtx |-> 0, temperature |-> 0, temperatureInc |-> 2, entropyThold |-> 24,
     logProbThold |-> -10, noSpeechThold |-> 6]

\* The flat C parameters: a strategy for the switch, and an abort callback always.
buildCParams(to) ==
    [f \in (DOMAIN to \ {"beamSearch"}) \cup {"strategy", "abortCb"} |->
        CASE f = "strategy" -> IF to["beamSearch"] THEN 1 ELSE 0
          [] f = "abortCb" -> TRUE
          [] OTHER -> to[f]]

\* What whisper is run with: counts only if positive, never no language, the rest
\* as it is.
build_params(p) ==
    [f \in DOMAIN p |->
        IF f \in Counts /\ p[f] <= 0 THEN whisperDefaults[f]
        ELSE IF f = "language" /\ p[f] = "" THEN "auto" ELSE p[f]]

=============================================================================
