----------------------------- MODULE Trajectory -----------------------------
(***************************************************************************)
(* Two readers of one trajectory.  While a rollout runs, the agent loop    *)
(* reads each generation with parse_assistant_action; when it is over, the *)
(* reward reads the whole decoded response with validate_sequence and      *)
(* extract_answer (dual_search/protocol.py).  This module grows a response *)
(* turn by turn, as DualSearchAgentLoop.run does, and keeps what the first *)
(* reader said so that the second one can be compared with it.             *)
(*                                                                         *)
(* Text is a sequence of symbols: the tags of the protocol, the role names *)
(* that decoding leaves behind, tool-call payloads, and plain words.       *)
(* White space, which both readers skip, is left out.  A "legacy" symbol   *)
(* is a complete tag of the old protocol; "fragment" is the beginning of   *)
(* one, "<search " or "<information ", whose ">" has not come yet.         *)
(***************************************************************************)
EXTENDS Integers, Sequences, FiniteSets

CONSTANTS
    MaxTurns,       \* tool calls a rollout may attempt
    Generations,    \* what the model may generate in one turn
    Documents,      \* what a tool may return, before it is sanitized
    MaxObsLength    \* symbols of content kept in one tool response

MAX_TOOL_ATTEMPTS == 8

ASSUME BoundsAssumption ==
    MaxTurns \in 0..MAX_TOOL_ATTEMPTS /\ MaxObsLength \in Nat

Tags == {"<think>", "</think>", "<tool_call>", "</tool_call>",
         "<tool_response>", "</tool_response>", "<answer>", "</answer>"}
Payloads == {"search", "vision in range", "vision out of range"}
Symbols == Tags \union Payloads \union
           {"legacy", "fragment", "junk", "word", "user", "assistant"}

ASSUME VocabularyAssumption ==
    Generations \subseteq Seq(Symbols) /\ Documents \subseteq Seq(Symbols)

NoAnswer == <<>>

VARIABLES
    text,       \* the decoded response so far
    attempts,   \* tool_attempt_count
    calls,      \* valid_search_count + valid_vision_search_count
    pc,         \* "turn", "observe" or "done"
    pending,    \* content of the tool response to be rendered
    answer,     \* the answer the rollout parsed, or NoAnswer
    malformed   \* history: some generation was parsed as invalid

vars == <<text, attempts, calls, pc, pending, answer, malformed>>

-----------------------------------------------------------------------------
(* The patterns both readers are built from.                               *)

Positions(t, s) == {i \in DOMAIN t : t[i] = s}
Count(t, s) == Cardinality(Positions(t, s))

\* The first position of s in t from c on, or 0.
Find(t, c, s) ==
    LET later == {i \in Positions(t, s) : i >= c}
    IN  IF later = {} THEN 0
        ELSE CHOOSE i \in later : \A j \in later : i <= j

\* Where the block opened by `open` at c is closed for the first time; 0 when
\* there is no such block at c.
Closes(t, c, open, close) ==
    IF c \in DOMAIN t /\ t[c] = open THEN Find(t, c + 1, close) ELSE 0

Inside(t, c, e) == SubSeq(t, c + 1, e - 1)

\* A fragment followed by any ">" is a complete tag for both regular
\* expressions: the attributes of a tag may contain everything else.
CompletedAt(t, i) ==
    t[i] = "fragment" /\ \E j \in DOMAIN t : j > i /\ t[j] \in Tags \union {"legacy"}

\* _LEGACY_ACTION_RE.search
Legacy(t) == \E i \in DOMAIN t : t[i] = "legacy" \/ CompletedAt(t, i)

\* _PROTOCOL_CONTROL_RE.search
Control(t) == Legacy(t) \/ \E i \in DOMAIN t : t[i] \in Tags

\* The position after a non-empty think block at c, or 0.
AfterThink(t, c) ==
    LET e == Closes(t, c, "<think>", "</think>")
    IN  IF e > c + 1 THEN e + 1 ELSE 0

\* validate_tool_call_payload; the number of input images is not known to
\* every caller.
PayloadOK(body, imagesKnown) ==
    /\ Len(body) = 1
    /\ body[1] \in Payloads
    /\ imagesKnown => body[1] # "vision out of range"

-----------------------------------------------------------------------------
(* parse_assistant_action: the reader of one generation.                   *)

\* What follows the think block, when it is one block of this kind.
Framed(rest, open, close) ==
    Len(rest) >= 2 /\ rest[1] = open /\ rest[Len(rest)] = close

ParsesAsTool(m) ==
    LET rest == SubSeq(m, AfterThink(m, 1), Len(m))
    IN  /\ ~Legacy(m)
        /\ Count(m, "<tool_call>") = 1 /\ Count(m, "</tool_call>") = 1
        /\ Count(m, "<answer>") = 0 /\ Count(m, "</answer>") = 0
        /\ AfterThink(m, 1) # 0
        /\ Framed(rest, "<tool_call>", "</tool_call>")
        /\ PayloadOK(Inside(rest, 1, Len(rest)), TRUE)

\* Mutant: text before the answer block is tolerated.
AnswerInProse(m) ==
    LET o == Find(m, 1, "<answer>")
        e == Find(m, o + 1, "</answer>")
    IN  IF /\ ~Legacy(m)
           /\ Count(m, "<tool_call>") = 0 /\ Count(m, "</tool_call>") = 0
           /\ Count(m, "<answer>") = 1 /\ Count(m, "</answer>") = 1
           /\ AfterThink(m, 1) # 0
           /\ o < e
           /\ ~Control(Inside(m, o, e))
        THEN Inside(m, o, e) ELSE NoAnswer

\* The answer of a generation that parses as one, or NoAnswer.
ParsedAnswer(m) ==
    LET rest == SubSeq(m, AfterThink(m, 1), Len(m))
        body == Inside(rest, 1, Len(rest))
    IN  IF /\ ~Legacy(m)
           /\ Count(m, "<tool_call>") = 0 /\ Count(m, "</tool_call>") = 0
           /\ Count(m, "<answer>") = 1 /\ Count(m, "</answer>") = 1
           /\ AfterThink(m, 1) # 0
           /\ Framed(rest, "<answer>", "</answer>")
           /\ ~Control(body)
        THEN body ELSE NoAnswer

-----------------------------------------------------------------------------
(* validate_sequence and extract_answer: the readers of the whole text.    *)

Skip(t, c, role) == IF c \in DOMAIN t /\ t[c] = role THEN c + 1 ELSE c

\* The position after the tool call at c and its response, or 0.
AfterCall(t, c) ==
    LET e == Closes(t, c, "<tool_call>", "</tool_call>")
        b == Skip(t, e + 1, "user")
        r == Closes(t, b, "<tool_response>", "</tool_response>")
    IN  IF /\ PayloadOK(Inside(t, c, e), FALSE)
           /\ r # 0
           /\ ~Control(Inside(t, b, r))
        THEN Skip(t, r + 1, "assistant") ELSE 0

\* The answer block at c is good and ends the text.
FinalAnswer(t, c) ==
    LET e == Closes(t, c, "<answer>", "</answer>")
    IN  /\ e > c + 1
        /\ ~Control(Inside(t, c, e))
        /\ e = Len(t)

validate_sequence(t) ==
    LET turn[c \in 1..(Len(t) + 1)] ==
            LET a == AfterThink(t, c)
            IN  /\ a # 0
                /\ IF Closes(t, a, "<tool_call>", "</tool_call>") # 0
                   THEN AfterCall(t, a) # 0 /\ turn[AfterCall(t, a)]
                   ELSE FinalAnswer(t, a)
    IN  ~Legacy(t) /\ turn[1]

\* The last of the answer blocks met from left to right, or NoAnswer.
extract_answer(t) ==
    LET last[c \in 1..(Len(t) + 1)] ==
            LET o == Find(t, c, "<answer>")
                e == Closes(t, o, "<answer>", "</answer>")
            IN  IF e = 0 THEN 0
                ELSE IF last[e + 1] # 0 THEN last[e + 1] ELSE o
        o == last[1]
    IN  IF o = 0 THEN NoAnswer
        ELSE Inside(t, o, Closes(t, o, "<answer>", "</answer>"))

-----------------------------------------------------------------------------
(* The rollout.                                                            *)

\* Mutant: retrieved text is passed on as it came.
SanitizeNothing(t) == t

\* sanitize_tool_response: every complete tag becomes harmless text.
Sanitize(t) ==
    [i \in DOMAIN t |->
        IF t[i] \in Tags \union {"legacy"} \/ CompletedAt(t, i)
        THEN "word" ELSE t[i]]

InvalidContent == <<"word", "<tool_call>", "search", "</tool_call>",
                    "<answer>", "</answer>">>
ToolError == <<"word">>
BudgetInstruction == <<"word", "<answer>", "</answer>">>

Cut(t, n) == IF Len(t) <= n THEN t ELSE SubSeq(t, 1, n)

\* The tool response as the chat template renders it and decoding shows it:
\* sanitized once more, cut to the observation length, then wrapped.
Rendered(content) ==
    <<"user", "<tool_response>">>
    \o Cut(Sanitize(content), MaxObsLength)
    \o <<"</tool_response>", "assistant">>

Init ==
    /\ text = <<>>
    /\ attempts = 0
    /\ calls = 0
    /\ pc = "turn"
    /\ pending = <<>>
    /\ answer = NoAnswer
    /\ malformed = FALSE

\* No turn or no room is left, or the server generates nothing.
Stop ==
    /\ pc = "turn"
    /\ pc' = "done"
    /\ UNCHANGED <<text, attempts, calls, pending, answer, malformed>>

\* A generation that parses as an answer ends the rollout.
GenerateAnswer(m) ==
    /\ pc = "turn"
    /\ ParsedAnswer(m) # NoAnswer
    /\ text' = text \o m
    /\ answer' = ParsedAnswer(m)
    /\ pc' = "done"
    /\ UNCHANGED <<attempts, calls, pending, malformed>>

\* Anything else in the answer-only turn ends it too.
GenerateLast(m) ==
    /\ pc = "turn"
    /\ attempts = MaxTurns
    /\ ParsedAnswer(m) = NoAnswer
    /\ text' = text \o m
    /\ malformed' = (malformed \/ ~ParsesAsTool(m))
    /\ pc' = "done"
    /\ UNCHANGED <<attempts, calls, pending, answer>>

\* Before it, an attempt is charged and `content` is to be shown to the
\* model, after the last attempt together with the instruction to answer.
GenerateAttempt(m, content) ==
    /\ pc = "turn"
    /\ attempts < MaxTurns
    /\ ParsedAnswer(m) = NoAnswer
    /\ text' = text \o m
    /\ attempts' = attempts + 1
    /\ malformed' = (malformed \/ ~ParsesAsTool(m))
    /\ pending' = content \o (IF attempts + 1 = MaxTurns
                               THEN BudgetInstruction ELSE <<>>)
    /\ pc' = "observe"
    /\ UNCHANGED answer

ToolSucceeds(m) ==
    /\ ParsesAsTool(m)
    /\ \E d \in Documents : GenerateAttempt(m, Sanitize(d))
    /\ calls' = calls + 1

ToolFails(m) ==
    /\ ParsesAsTool(m)
    /\ GenerateAttempt(m, ToolError)
    /\ UNCHANGED calls

\* Anything that is not a tool call is explained to the model.
Invalid(m) ==
    /\ ~ParsesAsTool(m)
    /\ GenerateAttempt(m, InvalidContent)
    /\ UNCHANGED calls

\* The rendered response is appended, or as much of it as there is room for.
Observe ==
    /\ pc = "observe"
    /\ pending' = <<>>
    /\ \/ /\ text' = text \o Rendered(pending)
          /\ pc' = "turn"
       \/ /\ \E n \in 0..(Len(Rendered(pending)) - 1) :
                text' = text \o Cut(Rendered(pending), n)
          /\ pc' = "done"
    /\ UNCHANGED <<attempts, calls, answer, malformed>>

Next ==
    \/ Stop
    \/ \E m \in Generations :
        \/ GenerateAnswer(m)
        \/ GenerateLast(m)
        \/ ToolSucceeds(m)
        \/ ToolFails(m)
        \/ Invalid(m)
    \/ Observe

Spec == Init /\ [][Next]_vars

-----------------------------------------------------------------------------
(* Properties.                                                             *)

\* The type of the state.
TypeOK ==
    /\ text \in Seq(Symbols)
    /\ attempts \in 0..MaxTurns
    /\ calls \in 0..attempts
    /\ pc \in {"turn", "observe", "done"}
    /\ pending \in Seq(Symbols)
    /\ answer \in Seq(Symbols)
    /\ malformed \in BOOLEAN

Over == pc = "done"
Answered == answer # NoAnswer
HasFragment == \E i \in DOMAIN text : text[i] = "fragment"

\* When every generation was well formed, and no tool returned the beginning
\* of an old tag, the reward grants the format exactly to the rollouts that
\* ended with an answer: retrieved text, cut responses and unanswered tool
\* calls never change its verdict.
RewardAgreesWithRollout ==
    Over /\ ~malformed /\ ~HasFragment =>
        (validate_sequence(text) <=> Answered)

\* When every generation was well formed the judge is shown the very answer
\* the rollout stopped at, whatever the tools returned; and no trajectory,
\* well formed or not, gets the format reward without an answer to judge.
JudgedAnswerIsTheAnswer ==
    Over => /\ ~malformed /\ Answered => extract_answer(text) = answer
            /\ validate_sequence(text) => extract_answer(text) # NoAnswer

=============================================================================
