---------------------------- MODULE MCInference ----------------------------
(***************************************************************************)
(* Two calls that share the model's internal state, and one on a session.   *)
(***************************************************************************)
EXTENDS Inference, TLC

CONSTANTS m1, m2, s1a, s1

MCCalls == {m1, m2, s1a}

MCSessionOf == [c \in MCCalls |-> IF c = s1a THEN s1 ELSE NoSession]

\* Any call, where that cannot end in a call waiting for itself.
MCMadeBy == [c \in MCCalls |-> {NoCall} \cup IF c = s1a THEN {m1, m2} ELSE {s1a}]

\* The session is used in callbacks of m1 only.
MCNested == [c \in MCCalls |-> IF c = s1a THEN {m1} ELSE {NoCall}]

MCOwnCtx == [c \in MCCalls |-> c]

MCOneCtx == [c \in MCCalls |-> s1]

\* m1 and m2 are alike, and the properties checked with it treat them alike.
MCSymmetry == Permutations({m1, m2})

=============================================================================
