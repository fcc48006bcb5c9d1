-------------------------- MODULE MCReplayBuffer --------------------------
(* Schedules of the synchronous trainer for TLC. *)
EXTENDS ReplayBuffer

\* Two training steps with a validation of one batch after the first.
TwoSteps == <<[part |-> "train", step |-> 1], [part |-> "val", step |-> 1],
              [part |-> "train", step |-> 2]>>
=============================================================================
