------------------------------ MODULE Dialogue ------------------------------
(***************************************************************************)
(* What a rollout promises the trainer, without saying how it is produced: *)
(* an append-only stream of at most Limit tokens, in which the model and   *)
(* the tools speak in turn, at most Budget tool responses are requested,   *)
(* and every token carries the right to be trained on exactly when the     *)
(* model wrote it.                                                         *)
(***************************************************************************)
EXTENDS Integers, Sequences

CONSTANTS Limit, Budget

VARIABLES
    stream,  \* sequence of [writer, train]
    next,    \* who speaks next: "model", "tool" or nobody ("over")
    calls    \* tool responses requested so far

vars == <<stream, next, calls>>

Init == stream = <<>> /\ next = "model" /\ calls = 0

\* The stream grows by tokens of w, trained on only if w is the model.
Speaks(w) ==
    /\ Len(stream) <= Len(stream') /\ Len(stream') <= Limit
    /\ \A i \in 1..Len(stream) : stream'[i] = stream[i]
    /\ \A i \in (Len(stream) + 1)..Len(stream') :
        stream'[i] = [writer |-> w, train |-> IF w = "model" THEN 1 ELSE 0]

ModelSpeaks ==
    /\ next = "model"
    /\ Speaks("model")
    /\ \/ next' = "over" /\ UNCHANGED calls
       \/ next' = "tool" /\ calls < Budget /\ calls' = calls + 1

ToolSpeaks ==
    /\ next = "tool"
    /\ Speaks("tool")
    /\ next' = "model"
    /\ UNCHANGED calls

Stop ==
    /\ next # "over"
    /\ next' = "over"
    /\ UNCHANGED <<stream, calls>>

Next == ModelSpeaks \/ ToolSpeaks \/ Stop

Spec == Init /\ [][Next]_vars
=============================================================================
