----------------------------- MODULE AgentLoop -----------------------------
(***************************************************************************)
(* One DualSearch rollout: DualSearchAgentLoop.run of                      *)
(* dual_search/llm_agent/dual_search_agent_loop.py.                        *)
(*                                                                         *)
(* The rollout alternates a generation of the policy model with the        *)
(* execution of the tool call it asked for, and grows three sequences that *)
(* the trainer later reads side by side: the response tokens, the loss     *)
(* mask and the log probabilities.  A token is a record saying who wrote   *)
(* it: "model", or a part of the rendered tool response ("open", "text",   *)
(* "instruction", "close"), in which turn and at which position.  The log  *)
(* probability of a token is represented by the token it was computed for, *)
(* so that a misaligned one is visible; ZeroLogprob is the 0.0 filler.     *)
(*                                                                         *)
(* Every await of the code (generation, tool request, rendering) is an     *)
(* action boundary; a rollout shares no mutable state with another one.    *)
(***************************************************************************)
EXTENDS Integers, Sequences, FiniteSets

CONSTANTS
    ConfiguredMaxTurns, \* config.max_turns, before it is clamped
    ResponseLength,     \* rollout_config.response_length
    MaxObsLength,       \* retriever.max_obs_length
    GenMax,             \* bound: tokens in one generation
    ContentMax          \* bound: content tokens in one tool response

ASSUME ConfigAssumption ==
    /\ ConfiguredMaxTurns \in Int
    /\ ResponseLength \in Nat
    /\ MaxObsLength \in Nat
    /\ GenMax \in Nat
    /\ ContentMax \in Nat

MAX_TOOL_ATTEMPTS == 8

Min2(a, b) == IF a <= b THEN a ELSE b
Max2(a, b) == IF a >= b THEN a ELSE b

MaxTurns == Min2(MAX_TOOL_ATTEMPTS, Max2(0, ConfiguredMaxTurns))

ToolNames  == {"search", "vision_search"}
Actions    == ToolNames \union {"answer", "invalid"}
ToolParts  == {"open", "text", "instruction", "close"}
Token      == [by : ToolParts \union {"model"}, turn : Nat, pos : Nat]
ZeroLogprob == [by |-> "zero", turn |-> 0, pos |-> 0]

VARIABLES
    pc,             \* "turn", "tool", "observe", "done" or "failed"
    turns,          \* assistant_turns
    answerOnly,     \* answer_only_turn
    ids, mask,      \* response_ids, response_mask
    logprobs,       \* response_logprobs
    hasLogprobs,    \* has_logprobs
    action,         \* what the last generation was parsed as
    content,        \* content tokens of the pending tool response
    stats           \* the counters returned in extra_fields

vars == <<pc, turns, answerOnly, ids, mask, logprobs, hasLogprobs, action,
          content, stats>>

Stats == [valid : Nat, search : Nat, vision : Nat, attempts : Nat,
          invalid : Nat, failures : Nat, exhausted : 0..1]

-----------------------------------------------------------------------------
(* Helpers on the three sequences.                                         *)

Take(s, n) == IF Len(s) <= n THEN s ELSE SubSeq(s, 1, n)
Repeat(x, n) == [i \in 1..n |-> x]
Remaining == ResponseLength - Len(ids)

\* The n tokens the server returned for turn t.
Generated(t, n) == [i \in 1..n |-> [by |-> "model", turn |-> t, pos |-> i]]

\* Opening and closing tokens of the native tool-response wrapper.
WrapperLength == 2

\* Mutant: the rendered response itself is cut, closing tokens and all.
RenderedCutBlindly(t, c) ==
    LET part(p) == <<[by |-> p, turn |-> t, pos |-> 0]>>
    IN  Take(part("open") \o c \o part("close"), MaxObsLength)

\* The rendered tool response: the native wrapper around the longest prefix
\* of the content that keeps the whole within MaxObsLength.
Rendered(t, c) ==
    LET part(p) == <<[by |-> p, turn |-> t, pos |-> 0]>>
    IN  part("open") \o Take(c, MaxObsLength - WrapperLength) \o part("close")

\* The log probabilities of the kept tokens `new`, of which the server sent
\* the first k: the rest is filled with zeros.
OutputLogprobs(new, k) ==
    [i \in 1..Len(new) |-> IF i <= k THEN new[i] ELSE ZeroLogprob]

-----------------------------------------------------------------------------
Init ==
    /\ pc = "turn"
    /\ turns = 0
    /\ answerOnly = (MaxTurns = 0)
    /\ ids = <<>>
    /\ mask = <<>>
    /\ logprobs = <<>>
    /\ hasLogprobs = FALSE
    /\ action = "invalid"
    /\ content = <<>>
    /\ stats = [valid |-> 0, search |-> 0, vision |-> 0, attempts |-> 0,
                invalid |-> 0, failures |-> 0, exhausted |-> 0]

\* Mutant: the bound forgets the answer-only turn.
LoopExitEarly ==
    /\ pc = "turn"
    /\ turns >= MaxTurns \/ Remaining <= 0
    /\ pc' = "done"
    /\ UNCHANGED <<turns, answerOnly, ids, mask, logprobs, hasLogprobs,
                   action, content, stats>>

\* The head of the while loop leaves it: no turn or no room is left.
LoopExit ==
    /\ pc = "turn"
    /\ turns >= MaxTurns + 1 \/ Remaining <= 0
    /\ pc' = "done"
    /\ UNCHANGED <<turns, answerOnly, ids, mask, logprobs, hasLogprobs,
                   action, content, stats>>

CanGenerate == pc = "turn" /\ turns < MaxTurns + 1 /\ Remaining > 0

\* server_manager.generate raises: the exception leaves run.
GenerateRaises ==
    /\ CanGenerate
    /\ pc' = "failed"
    /\ UNCHANGED <<turns, answerOnly, ids, mask, logprobs, hasLogprobs,
                   action, content, stats>>

\* The request was aborted before its first token.
GenerateNothing ==
    /\ CanGenerate
    /\ turns' = turns + 1
    /\ pc' = "done"
    /\ UNCHANGED <<answerOnly, ids, mask, logprobs, hasLogprobs, action,
                   content, stats>>

\* Mutant: late log probabilities are not padded back to the first token.
AppendGenerationUnpadded(new, withLogprobs, k) ==
    /\ ids' = ids \o new
    /\ mask' = mask \o Repeat(1, Len(new))
    /\ hasLogprobs' = (hasLogprobs \/ withLogprobs)
    /\ logprobs' = IF withLogprobs THEN logprobs \o OutputLogprobs(new, k)
                   ELSE IF hasLogprobs
                        THEN logprobs \o Repeat(ZeroLogprob, Len(new))
                        ELSE logprobs

\* Append the kept tokens of a generation.  withLogprobs says whether the
\* server sent log probabilities at all, k how many.
AppendGeneration(new, withLogprobs, k) ==
    LET base == IF hasLogprobs THEN logprobs
                ELSE logprobs \o Repeat(ZeroLogprob, Len(ids))
    IN  /\ ids' = ids \o new
        /\ mask' = mask \o Repeat(1, Len(new))
        /\ hasLogprobs' = (hasLogprobs \/ withLogprobs)
        /\ logprobs' = IF withLogprobs
                       THEN base \o OutputLogprobs(new, k)
                       ELSE IF hasLogprobs
                            THEN logprobs \o Repeat(ZeroLogprob, Len(new))
                            ELSE logprobs

\* A generation of n > 0 tokens parsed as a.
Generate(n, a, withLogprobs, k) ==
    /\ CanGenerate
    /\ turns' = turns + 1
    /\ action' = a
    /\ AppendGeneration(Take(Generated(turns + 1, n), Remaining),
                        withLogprobs, k)
    /\ UNCHANGED <<answerOnly, content>>

\* A final answer ends the rollout.
GenerateAnswer(n, withLogprobs, k) ==
    /\ Generate(n, "answer", withLogprobs, k)
    /\ stats' = [stats EXCEPT !.valid = @ + 1]
    /\ pc' = "done"

\* Anything but an answer in the answer-only turn ends it too: no tool runs.
GenerateIgnored(n, a, withLogprobs, k) ==
    /\ answerOnly
    /\ Generate(n, a, withLogprobs, k)
    /\ pc' = "done"
    /\ UNCHANGED stats

\* Mutant: the answer-only flag is not looked at.
GenerateCallAnyTurn(n, a, withLogprobs, k) ==
    /\ Generate(n, a, withLogprobs, k)
    /\ stats' = [stats EXCEPT !.attempts = @ + 1]
    /\ pc' = "tool"

\* A tool call, or malformed output: it costs one attempt.
GenerateCall(n, a, withLogprobs, k) ==
    /\ ~answerOnly
    /\ Generate(n, a, withLogprobs, k)
    /\ stats' = [stats EXCEPT !.attempts = @ + 1]
    /\ pc' = "tool"

\* Mutant: one attempt too many before the budget counts as used up.
RespondOneMore(c, counted) ==
    LET last == stats.attempts > MaxTurns
        token(p, i) == [by |-> p, turn |-> turns, pos |-> i]
        text == [i \in 1..c |-> token("text", i)]
    IN  /\ content' = IF last THEN Append(text, token("instruction", c + 1))
                      ELSE text
        /\ stats' = [counted EXCEPT !.exhausted = IF last THEN 1 ELSE @]
        /\ answerOnly' = (answerOnly \/ last)
        /\ pc' = "observe"
        /\ UNCHANGED <<turns, ids, mask, logprobs, hasLogprobs, action>>

\* The tool response text for this attempt has c tokens; when the attempt was
\* the last one of the budget, the instruction to answer is appended to it and
\* the next turn becomes answer-only.
Respond(c, counted) ==
    LET last == stats.attempts >= MaxTurns
        token(p, i) == [by |-> p, turn |-> turns, pos |-> i]
        text == [i \in 1..c |-> token("text", i)]
    IN  /\ content' = IF last THEN Append(text, token("instruction", c + 1))
                      ELSE text
        /\ stats' = [counted EXCEPT !.exhausted = IF last THEN 1 ELSE @]
        /\ answerOnly' = (answerOnly \/ last)
        /\ pc' = "observe"
        /\ UNCHANGED <<turns, ids, mask, logprobs, hasLogprobs, action>>

ToolSucceeds(c) ==
    /\ pc = "tool"
    /\ action \in ToolNames
    /\ Respond(c, IF action = "search"
                  THEN [stats EXCEPT !.valid = @ + 1, !.search = @ + 1]
                  ELSE [stats EXCEPT !.valid = @ + 1, !.vision = @ + 1])

\* Mutant: a failed execution is tried again, free of charge.
ToolFailsRetried(c) ==
    /\ pc = "tool"
    /\ action \in ToolNames
    /\ content' = [i \in 1..c |-> [by |-> "text", turn |-> turns, pos |-> i]]
    /\ UNCHANGED <<pc, turns, answerOnly, ids, mask, logprobs, hasLogprobs,
                   action, stats>>

\* _execute_tool turns every exception (timeout, HTTP error, missing URL)
\* into a tool response.
ToolFails(c) ==
    /\ pc = "tool"
    /\ action \in ToolNames
    /\ Respond(c, [stats EXCEPT !.failures = @ + 1])

RejectCall(c) ==
    /\ pc = "tool"
    /\ action = "invalid"
    /\ Respond(c, [stats EXCEPT !.invalid = @ + 1])

\* The rendered response is cut to the room that is left.
AppendObservation ==
    LET new == Take(Rendered(turns, content), Remaining)
    IN  /\ pc = "observe"
        /\ MaxObsLength >= WrapperLength
        /\ IF new = <<>>
           THEN pc' = "done" /\ UNCHANGED <<ids, mask, logprobs>>
           ELSE /\ pc' = "turn"
                /\ ids' = ids \o new
                /\ mask' = mask \o Repeat(0, Len(new))
                /\ logprobs' = IF hasLogprobs
                               THEN logprobs \o Repeat(ZeroLogprob, Len(new))
                               ELSE logprobs
        /\ UNCHANGED <<turns, answerOnly, hasLogprobs, action, content, stats>>

\* _encode_tool_response raises: the tokenizer or the chat template does, or
\* not even the empty wrapper fits.
RenderRaises ==
    /\ pc = "observe"
    /\ pc' = "failed"
    /\ UNCHANGED <<turns, answerOnly, ids, mask, logprobs, hasLogprobs,
                   action, content, stats>>

Next ==
    \/ LoopExit
    \/ GenerateRaises
    \/ GenerateNothing
    \/ \E n \in 1..GenMax, withLogprobs \in BOOLEAN, k \in 0..GenMax :
        /\ k <= n
        /\ \/ GenerateAnswer(n, withLogprobs, k)
           \/ \E a \in Actions \ {"answer"} :
                \/ GenerateIgnored(n, a, withLogprobs, k)
                \/ GenerateCall(n, a, withLogprobs, k)
    \/ \E c \in 0..ContentMax :
        ToolSucceeds(c) \/ ToolFails(c) \/ RejectCall(c)
    \/ AppendObservation
    \/ RenderRaises

Spec == Init /\ [][Next]_vars

\* Generation ends, and tool requests have a timeout, so the coroutine is
\* always resumed after an await.
FairSpec == Spec /\ WF_vars(Next)

-----------------------------------------------------------------------------
(* Properties.                                                             *)

\* Type invariant.
TypeOK ==
    /\ pc \in {"turn", "tool", "observe", "done", "failed"}
    /\ turns \in Nat
    /\ answerOnly \in BOOLEAN
    /\ ids \in Seq(Token)
    /\ mask \in Seq(0..1)
    /\ logprobs \in Seq(Token \union {ZeroLogprob})
    /\ hasLogprobs \in BOOLEAN
    /\ action \in Actions
    /\ content \in Seq(Token)
    /\ stats \in Stats

\* The three sequences have the same length, within the response budget.
Aligned ==
    /\ Len(mask) = Len(ids)
    /\ Len(logprobs) = IF hasLogprobs THEN Len(ids) ELSE 0
    /\ Len(ids) <= ResponseLength

\* The loss mask is 1 exactly on the tokens the policy model generated.
MaskMarksModelTokens ==
    \A i \in DOMAIN ids : mask[i] = 1 <=> ids[i].by = "model"

\* A log probability that is not filler stands beside its own token.
LogprobsBelongToTokens ==
    \A i \in DOMAIN logprobs : logprobs[i] # ZeroLogprob => logprobs[i] = ids[i]

\* The trainer zips tokens, loss mask and log probabilities together: however
\* many turns, tool responses and truncations a rollout had, and in whichever
\* turn log probabilities first came, the three stay in step and within
\* response_length, retrieved text is never trained on, and a log probability
\* never stands beside another token than the one it was computed for.
TrainerInputAligned ==
    Aligned /\ MaskMarksModelTokens /\ LogprobsBelongToTokens

\* Every attempt is a success, a failed execution or a malformed call.
AttemptsAccounted ==
    /\ stats.attempts = stats.search + stats.vision + stats.failures
                        + stats.invalid + (IF pc = "tool" THEN 1 ELSE 0)
    /\ stats.valid \in {stats.search + stats.vision,
                        stats.search + stats.vision + 1}
    /\ stats.valid = stats.search + stats.vision + 1 => pc = "done"

\* At most MaxTurns attempts are made, and turns and attempts stay in step.
BudgetRespected ==
    /\ stats.attempts <= MaxTurns
    /\ turns <= stats.attempts + 1
    /\ pc = "turn" => turns = stats.attempts
    /\ pc = "turn" => (answerOnly <=> stats.attempts = MaxTurns)
    /\ stats.exhausted = 1 <=> stats.attempts = MaxTurns /\ MaxTurns > 0
                               /\ pc # "tool"

\* The counters the reward charges and the metrics report partition the
\* attempts, none counted twice and none free of charge; there are at most
\* MaxTurns of them, the last makes the next turn answer-only, and the turns
\* never run ahead of them by more than that final generation, so that the
\* bound of the while loop never takes the answer-only turn away.
BudgetAccounted == AttemptsAccounted /\ BudgetRespected

\* A rollout that used up its attempts still gets its answer-only generation
\* unless the response budget itself is used up or the backend fails.
AnswerOnlyTurnGranted ==
    pc = "done" /\ stats.attempts = MaxTurns =>
        turns = MaxTurns + 1 \/ Len(ids) = ResponseLength

\* A tool response without its closing wrapper ends the response.
CutResponseIsLast ==
    \A i \in DOMAIN ids :
        ids[i].by = "open" =>
            \/ \E j \in DOMAIN ids : ids[j] = [ids[i] EXCEPT !.by = "close"]
            \/ ~CanGenerate /\ ids[Len(ids)].turn = ids[i].turn

\* A tool response takes at most max_obs_length tokens.
ObservationBounded ==
    \A t \in 1..turns :
        Cardinality({i \in DOMAIN ids : ids[i].turn = t /\ ids[i].by # "model"})
            <= MaxObsLength

\* The model never continues from a malformed tool response: none takes more
\* than max_obs_length tokens, wrapper included, and one whose closing wrapper
\* was cut off by the response budget is the end of the rollout.
ToolResponsesWhole == CutResponseIsLast /\ ObservationBounded

\* The rollout ends.
Termination == <>(pc \in {"done", "failed"})
=============================================================================
