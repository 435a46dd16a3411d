------------------------------- MODULE Options -------------------------------
(***************************************************************************)
(* Functional options: an option is the assignments its closure makes, a    *)
(* function from the fields it sets to what it sets them to.                *)
(***************************************************************************)
EXTENDS Integers, Sequences, TLC

\* One turn of `for _, o := range opts { o(&settings) }`.
Applied(option, settings) ==
    [f \in DOMAIN settings |-> IF f \in DOMAIN option THEN option[f] ELSE settings[f]]

=============================================================================
