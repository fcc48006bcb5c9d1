------------------------------ MODULE MCReward ------------------------------
(* A vocabulary of three generations, for rollouts that use every attempt. *)
EXTENDS Reward

Thought(action) == <<"<think>", "word", "</think>">> \o action

MCGenerations ==
    {Thought(<<"<tool_call>", "search", "</tool_call>">>),
     Thought(<<"<answer>", "word", "</answer>">>),
     Thought(<<"word">>)}

MCDocuments == {<<"word">>}

=============================================================================
