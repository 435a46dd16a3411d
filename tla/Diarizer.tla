------------------------------ MODULE Diarizer ------------------------------
(***************************************************************************)
(* Package diarize: the options of a diarizer and the configuration that    *)
(* sherpa gets (diarize.go New, options.go), and the fusion of turns with a *)
(* transcript (merge.go).  Fractions are tenths.                            *)
(***************************************************************************)
EXTENDS Options

defaultOptions == [numSpeakers |-> 0, threshold |-> 5, minOn |-> 300,
                   minOff |-> 500, threads |-> 1, debug |-> FALSE]

WithNumSpeakers(n) == "numSpeakers" :> n

\* Fault: a count set before is left to override the threshold.
WithThresholdMutant(t) == "threshold" :> t

WithThreshold(t) == [numSpeakers |-> 0, threshold |-> t]

WithMinDuration(on, off) == [minOn |-> on, minOff |-> off]
WithThreads(n) == "threads" :> n
WithDebug == "debug" :> TRUE

\* sherpa clusters to a number of speakers or by a threshold; 0 is neither.
Clustering(o) ==
    IF o.numSpeakers > 0 THEN [numClusters |-> o.numSpeakers, threshold |-> 0]
    ELSE [numClusters |-> 0, threshold |-> o.threshold]

\* The time two spans share.
overlap(a, b) ==
    LET start == IF a.start > b.start THEN a.start ELSE b.start
        end == IF a.end < b.end THEN a.end ELSE b.end
    IN  IF end > start THEN end - start ELSE 0

=============================================================================
