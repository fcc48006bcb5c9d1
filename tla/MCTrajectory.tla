---------------------------- MODULE MCTrajectory ----------------------------
(* Small vocabularies for Trajectory. *)
EXTENDS Trajectory

Thought(body, action) == <<"<think>">> \o body \o <<"</think>">> \o action
Call(payload) == <<"<tool_call>", payload, "</tool_call>">>
Answer(body) == <<"<answer>">> \o body \o <<"</answer>">>

\* Actions after an ordinary thought, right and wrong ones.
AfterThought ==
    {Call(p) : p \in {"search", "vision out of range", "junk"}}
    \union {Answer(<<"word">>), Answer(<<>>), Answer(<<"</think>">>)}
    \union {<<>>, <<"<tool_call>", "search">>,
            <<"word">> \o Answer(<<"word">>),
            Call("search") \o <<"word">>}

\* Thoughts that mention tags, before an ordinary action.
OddThoughts ==
    {<<>>, <<"fragment">>, <<"<answer>">>, Call("search"),
     Answer(<<"junk">>), <<"<think>", "word">>, <<"<tool_response>">>}

\* A generation that plays both sides of the dialogue.
BothSides ==
    Thought(<<"word">>, Call("search"))
    \o <<"<tool_response>", "word", "</tool_response>">>
    \o Thought(<<"word">>, Answer(<<"word">>))

MCGenerations ==
    {Thought(<<"word">>, a) : a \in AfterThought}
    \union {Thought(b, a) : b \in OddThoughts,
                            a \in {Call("search"), Answer(<<"word">>)}}
    \union {BothSides, <<"word">>, <<"legacy">>}

MCDocuments ==
    {<<"word">>, <<"fragment">>, <<"fragment", "</think>", "legacy">>,
     Answer(<<"junk">>), <<"</tool_response>", "word">>}

=============================================================================
