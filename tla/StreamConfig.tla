---------------------------- MODULE StreamConfig ----------------------------
(***************************************************************************)
(* The resolved settings of a Stream (stream_options.go) and the two caps   *)
(* newStream derives from them (stream.go).  A configuration that validate  *)
(* rejects never starts a stream, so its conditions are assumptions here.   *)
(***************************************************************************)
EXTENDS Integers

CONSTANTS Step,          \* cfg.step: new audio that triggers a window run
          Window,        \* cfg.window: the most audio one run reprocesses
          Keep,          \* cfg.keep: overlap kept before a committed end
          DropMaxBuffer, \* cfg.dropMaxBuffer: 0 = block, > 0 = drop the oldest
          MaxWindow      \* the 30 s limit of validate

\* validate returns nil.
Valid ==
    /\ Step > 0
    /\ 0 < Window /\ Window <= MaxWindow
    /\ Step <= Window
    /\ 0 <= Keep /\ Keep < Window
    /\ DropMaxBuffer >= 0

ASSUME ConfigAssumption ==
    {Step, Window, Keep, DropMaxBuffer, MaxWindow} \subseteq Int /\ Valid

\* blockCap and dropCap as newStream hands them to newStreamBuffer.
BlockCap == IF DropMaxBuffer > 0 THEN 0 ELSE Window

DropCap == DropMaxBuffer

=============================================================================
