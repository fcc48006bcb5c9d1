---------------------------- MODULE MCAgentLoop ----------------------------
(***************************************************************************)
(* Model checking of AgentLoop, and of its refinement of Dialogue.         *)
(***************************************************************************)
EXTENDS AgentLoop

Writer(token) == IF token.by = "model" THEN "model" ELSE "tool"

D == INSTANCE Dialogue WITH
        Limit  <- ResponseLength,
        Budget <- MaxTurns,
        stream <- [i \in 1..Len(ids) |->
                    [writer |-> Writer(ids[i]), train |-> mask[i]]],
        next   <- IF pc = "turn" THEN "model"
                  ELSE IF pc \in {"tool", "observe"} THEN "tool" ELSE "over",
        calls  <- stats.attempts

\* The loop implements the promise of Dialogue: strict alternation of model
\* and tool, the budgets, and a mask that follows the writer.
ImplementsDialogue == D!Spec
=============================================================================
