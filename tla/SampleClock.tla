---------------------------- MODULE SampleClock ----------------------------
(***************************************************************************)
(* Sample counts and durations (stream_buffer.go).  A duration is a natural *)
(* number of ticks; SampleTicks is the length of one 16 kHz sample (62500   *)
(* ns in the code, so durFor is exact there as it is here).                 *)
(***************************************************************************)
EXTENDS Integers

CONSTANT SampleTicks

ASSUME SampleTicksAssumption == SampleTicks \in Nat \ {0}

\* durFor: exact, one sample is a whole number of ticks.
DurFor(n) == n * SampleTicks

\* samplesFor: int(d.Seconds() * 16000) in float64.  It never rounds up, and at
\* an exact multiple of a sample it may come out one sample short (1001 samples
\* is such a duration), so it is a set of outcomes: those n for which d lies
\* between the ends of n and of n+1 samples, both included.
SamplesFor(d) == {n \in 0..d : DurFor(n) <= d /\ d <= DurFor(n + 1)}

Least(a, b) == IF a <= b THEN a ELSE b

Greatest(a, b) == IF a <= b THEN b ELSE a

=============================================================================
