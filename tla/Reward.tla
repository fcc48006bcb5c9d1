------------------------------- MODULE Reward -------------------------------
(***************************************************************************)
(* The reward of a finished rollout: compute_score of                      *)
(* dual_search/reward/genrm_judge.py, composed with the trajectory it is   *)
(* given.  The format is checked by validate_sequence, the judge, a remote *)
(* model, is asked about the extracted answer, and the successful searches *)
(* the rollout counted are charged.  Scores are in hundredths.             *)
(***************************************************************************)
EXTENDS Trajectory

ANSWER_REWARD_WEIGHT == 80
FORMAT_REWARD_WEIGHT == 20
FREE_RETRIEVAL_CALLS == 2
RETRIEVAL_PENALTY_COEFFICIENT == 2

VARIABLES
    stage,  \* "waiting", "asked" or "scored"
    raw,    \* what the judge answered, "none" as long as it has not
    result  \* the dictionary compute_score returns

rewardVars == <<stage, raw, result>>
allVars == <<vars, rewardVars>>

\* Mutant: the excess is cubed.
PenaltyCubed(n) ==
    LET excess == IF n > FREE_RETRIEVAL_CALLS THEN n - FREE_RETRIEVAL_CALLS ELSE 0
    IN  RETRIEVAL_PENALTY_COEFFICIENT * (excess * excess * excess)

\* compute_retrieval_penalty
Penalty(n) ==
    LET excess == IF n > FREE_RETRIEVAL_CALLS THEN n - FREE_RETRIEVAL_CALLS ELSE 0
    IN  RETRIEVAL_PENALTY_COEFFICIENT * (excess * excess)

\* compute_total_reward
Total(judge, format, n) ==
    ANSWER_REWARD_WEIGHT * judge
    + (IF format THEN FORMAT_REWARD_WEIGHT ELSE 0)
    - Penalty(n)

\* The judge model may answer with the two scores it was asked for, with
\* another number, or with something that is not the requested object.
RawOutputs == {"score 1", "score 0", "score 0.5", "prose"}

None == -1

\* Mutant: a score that is neither 0 nor 1 is rounded up.
ParsedLeniently(r) ==
    IF r \in {"score 1", "score 0.5"} THEN 1
    ELSE IF r = "score 0" THEN 0 ELSE None

\* parse_judge_score
Parsed(r) ==
    IF r = "score 1" THEN 1 ELSE IF r = "score 0" THEN 0 ELSE None

Scored(judge, valid) ==
    [score |-> Total(judge, validate_sequence(text), calls),
     judge |-> judge,
     format |-> validate_sequence(text),
     judgeValid |-> valid]

NoResult == [score |-> 0, judge |-> 0, format |-> FALSE, judgeValid |-> FALSE]

RewardInit ==
    /\ Init
    /\ stage = "waiting"
    /\ raw = "none"
    /\ result = NoResult

Rollout == Next /\ UNCHANGED rewardVars

\* The sample has a question and a reference answer and the response has a
\* candidate answer: the judge is asked.
AskJudge ==
    /\ pc = "done" /\ stage = "waiting"
    /\ extract_answer(text) # NoAnswer
    /\ stage' = "asked"
    /\ UNCHANGED <<vars, raw, result>>

\* One of the three is missing: the failure score.
NothingToJudge ==
    /\ pc = "done" /\ stage = "waiting"
    /\ stage' = "scored"
    /\ result' = Scored(0, FALSE)
    /\ UNCHANGED <<vars, raw>>

JudgeAnswers ==
    /\ stage = "asked"
    /\ \E r \in RawOutputs :
        /\ raw' = r
        /\ result' = IF Parsed(r) = None THEN Scored(0, FALSE)
                     ELSE Scored(Parsed(r), TRUE)
    /\ stage' = "scored"
    /\ UNCHANGED vars

\* The request times out or fails: the failure score.
JudgeRaises ==
    /\ stage = "asked"
    /\ stage' = "scored"
    /\ result' = Scored(0, FALSE)
    /\ UNCHANGED <<vars, raw>>

RewardNext ==
    \/ Rollout
    \/ AskJudge
    \/ NothingToJudge
    \/ JudgeAnswers
    \/ JudgeRaises

RewardSpec == RewardInit /\ [][RewardNext]_allVars

-----------------------------------------------------------------------------
(* Properties.                                                             *)

\* The type of the added state.
RewardTypeOK ==
    /\ stage \in {"waiting", "asked", "scored"}
    /\ raw \in RawOutputs \union {"none"}
    /\ result \in [score : Int, judge : 0..1, format : BOOLEAN,
                   judgeValid : BOOLEAN]

\* A trajectory in the right format whose answer was judged correct scores
\* more than every one whose answer was not, however many searches either
\* used: within the attempts the agent loop allows, the search penalty never
\* makes giving up, or guessing, the better choice.
CorrectOutscoresWrong ==
    stage = "scored" /\ result.judge = 1 /\ result.format =>
        \A format \in BOOLEAN, n \in 0..MaxTurns :
            result.score > Total(0, format, n)

\* The answer reward is paid only for a judge's explicit 1, given after the
\* rollout was over and about a candidate answer; an outage or a malformed
\* verdict never pays.
PaidOnlyForVerdict ==
    result.judge = 1 =>
        /\ stage = "scored" /\ pc = "done"
        /\ raw = "score 1"
        /\ extract_answer(text) # NoAnswer

=============================================================================
