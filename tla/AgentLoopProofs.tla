-------------------------- MODULE AgentLoopProofs --------------------------
(***************************************************************************)
(* Proofs about AgentLoop, for every value of its constants.               *)
(***************************************************************************)
EXTENDS MCAgentLoop, FiniteSetTheorems, TLAPS

-----------------------------------------------------------------------------
(* The sequence helpers.                                                   *)

\* Take returns a prefix, no longer than asked for.
LEMMA TakePrefix ==
    ASSUME NEW S, NEW s \in Seq(S), NEW n \in Nat
    PROVE  /\ Take(s, n) \in Seq(S)
           /\ Len(Take(s, n)) \in Nat
           /\ Len(Take(s, n)) <= n
           /\ Len(Take(s, n)) <= Len(s)
           /\ \A i \in 1..Len(Take(s, n)) : Take(s, n)[i] = s[i]
<1>1. CASE Len(s) <= n
    BY <1>1 DEF Take
<1>2. CASE ~(Len(s) <= n)
    BY <1>2 DEF Take
<1> QED
    BY <1>1, <1>2

\* Repeat returns a sequence of n copies.
LEMMA RepeatIsSeq ==
    ASSUME NEW S, NEW x \in S, NEW n \in Nat
    PROVE  /\ Repeat(x, n) \in Seq(S)
           /\ Len(Repeat(x, n)) = n
           /\ \A i \in 1..n : Repeat(x, n)[i] = x
BY DEF Repeat

\* The type and the length of a concatenation.
LEMMA ConcatType ==
    ASSUME NEW S, NEW s \in Seq(S), NEW t \in Seq(S)
    PROVE  s \o t \in Seq(S) /\ Len(s \o t) = Len(s) + Len(t)
OBVIOUS

\* Marks(s, u) says that u marks the model tokens of s; LogprobsOf(s, v) that
\* v holds log probabilities of s or filler.  Both are pointwise, so both
\* survive concatenation.
Marks(s, u) ==
    /\ s \in Seq(Token) /\ u \in Seq(0..1) /\ Len(u) = Len(s)
    /\ \A i \in 1..Len(s) : u[i] = 1 <=> s[i].by = "model"

LogprobsOf(s, v) ==
    /\ s \in Seq(Token) /\ v \in Seq(Token \union {ZeroLogprob})
    /\ Len(v) = Len(s)
    /\ \A i \in 1..Len(s) : v[i] # ZeroLogprob => v[i] = s[i]

\* An index of a concatenation lies in one of the two parts.
LEMMA ConcatIndex ==
    ASSUME NEW S, NEW s \in Seq(S), NEW t \in Seq(S),
           NEW i \in 1..(Len(s) + Len(t))
    PROVE  \/ i \in 1..Len(s) /\ (s \o t)[i] = s[i]
           \/ i - Len(s) \in 1..Len(t) /\ (s \o t)[i] = t[i - Len(s)]
<1>1. Len(s) \in Nat /\ Len(t) \in Nat
    OBVIOUS
<1>2. CASE i <= Len(s)
    BY <1>1, <1>2
<1>3. CASE ~(i <= Len(s))
    BY <1>1, <1>3
<1> QED
    BY <1>2, <1>3

LEMMA MarksConcat ==
    ASSUME NEW s, NEW u, NEW t, NEW w, Marks(s, u), Marks(t, w)
    PROVE  Marks(s \o t, u \o w)
<1> DEFINE bits == 0..1
<1>1. /\ s \in Seq(Token) /\ t \in Seq(Token)
      /\ u \in Seq(bits) /\ w \in Seq(bits)
      /\ Len(u) = Len(s) /\ Len(w) = Len(t)
    BY DEF Marks
<1> HIDE DEF bits
<1>2. /\ s \o t \in Seq(Token) /\ Len(s \o t) = Len(s) + Len(t)
      /\ u \o w \in Seq(bits) /\ Len(u \o w) = Len(s) + Len(t)
  <2>1. s \o t \in Seq(Token) /\ Len(s \o t) = Len(s) + Len(t)
    BY <1>1, ConcatType, Zenon
  <2>2. u \o w \in Seq(bits) /\ Len(u \o w) = Len(u) + Len(w)
    BY <1>1, ConcatType, Zenon
  <2> QED
    BY <1>1, <2>1, <2>2
<1>3. ASSUME NEW i \in 1..(Len(s) + Len(t))
      PROVE  (u \o w)[i] = 1 <=> (s \o t)[i].by = "model"
  <2>1. \/ i \in 1..Len(s) /\ (s \o t)[i] = s[i]
        \/ i - Len(s) \in 1..Len(t) /\ (s \o t)[i] = t[i - Len(s)]
    BY <1>1, ConcatIndex
  <2>2. \/ i \in 1..Len(s) /\ (u \o w)[i] = u[i]
        \/ i - Len(s) \in 1..Len(t) /\ (u \o w)[i] = w[i - Len(s)]
    BY <1>1, ConcatIndex
  <2>3. ~(i \in 1..Len(s) /\ i - Len(s) \in 1..Len(t))
    BY <1>1
  <2> QED
    BY <2>1, <2>2, <2>3 DEF Marks
<1> QED
    BY <1>2, <1>3 DEF Marks, bits

LEMMA LogprobsConcat ==
    ASSUME NEW s, NEW u, NEW t, NEW w, LogprobsOf(s, u), LogprobsOf(t, w)
    PROVE  LogprobsOf(s \o t, u \o w)
<1> DEFINE LP == Token \union {ZeroLogprob}
<1>1. /\ s \in Seq(Token) /\ t \in Seq(Token)
      /\ u \in Seq(LP) /\ w \in Seq(LP)
      /\ Len(u) = Len(s) /\ Len(w) = Len(t)
    BY DEF LogprobsOf
<1> HIDE DEF LP
<1>2. /\ s \o t \in Seq(Token) /\ Len(s \o t) = Len(s) + Len(t)
      /\ u \o w \in Seq(LP) /\ Len(u \o w) = Len(s) + Len(t)
  <2>1. s \o t \in Seq(Token) /\ Len(s \o t) = Len(s) + Len(t)
    BY <1>1, ConcatType, Zenon
  <2>2. u \o w \in Seq(LP) /\ Len(u \o w) = Len(u) + Len(w)
    BY <1>1, ConcatType, Zenon
  <2> QED
    BY <1>1, <2>1, <2>2
<1>3. ASSUME NEW i \in 1..(Len(s) + Len(t)), (u \o w)[i] # ZeroLogprob
      PROVE  (u \o w)[i] = (s \o t)[i]
  <2>1. \/ i \in 1..Len(s) /\ (s \o t)[i] = s[i]
        \/ i - Len(s) \in 1..Len(t) /\ (s \o t)[i] = t[i - Len(s)]
    BY <1>1, ConcatIndex
  <2>2. \/ i \in 1..Len(s) /\ (u \o w)[i] = u[i]
        \/ i - Len(s) \in 1..Len(t) /\ (u \o w)[i] = w[i - Len(s)]
    BY <1>1, ConcatIndex
  <2>3. ~(i \in 1..Len(s) /\ i - Len(s) \in 1..Len(t))
    BY <1>1
  <2> QED
    BY <1>3, <2>1, <2>2, <2>3 DEF LogprobsOf
<1> QED
    BY <1>2, <1>3 DEF LogprobsOf, LP

\* Uniform marks, and pure filler.
LEMMA MarksRepeat ==
    ASSUME NEW s \in Seq(Token), NEW m \in 0..1,
           \A i \in 1..Len(s) : m = 1 <=> s[i].by = "model"
    PROVE  Marks(s, Repeat(m, Len(s)))
<1>1. Len(s) \in Nat
    OBVIOUS
<1>2. /\ Repeat(m, Len(s)) \in Seq(0..1)
      /\ Len(Repeat(m, Len(s))) = Len(s)
      /\ \A i \in 1..Len(s) : Repeat(m, Len(s))[i] = m
    BY <1>1, RepeatIsSeq
<1> QED
    BY <1>2 DEF Marks

LEMMA LogprobsRepeat ==
    ASSUME NEW s \in Seq(Token)
    PROVE  LogprobsOf(s, Repeat(ZeroLogprob, Len(s)))
<1>1. Len(s) \in Nat /\ ZeroLogprob \in Token \union {ZeroLogprob}
    OBVIOUS
<1>2. /\ Repeat(ZeroLogprob, Len(s)) \in Seq(Token \union {ZeroLogprob})
      /\ Len(Repeat(ZeroLogprob, Len(s))) = Len(s)
      /\ \A i \in 1..Len(s) : Repeat(ZeroLogprob, Len(s))[i] = ZeroLogprob
    BY <1>1, RepeatIsSeq
<1> QED
    BY <1>2 DEF LogprobsOf

-----------------------------------------------------------------------------
(* The inductive invariant.                                                *)

\* The three sequences: their types, their alignment, what they say.
Sequences3 ==
    /\ Marks(ids, mask)
    /\ Len(ids) <= ResponseLength
    /\ hasLogprobs \in BOOLEAN
    /\ hasLogprobs => LogprobsOf(ids, logprobs)
    /\ ~hasLogprobs => logprobs = <<>>

\* The pending tool response was not written by the model.
ContentFromTools ==
    /\ content \in Seq(Token)
    /\ \A i \in DOMAIN content : content[i].by \in ToolParts

\* BudgetRespected does not say enough about the two waiting phases.
Phases ==
    /\ pc \in {"turn", "tool", "observe", "done", "failed"}
    /\ answerOnly \in BOOLEAN
    /\ action \in Actions
    /\ stats \in Stats
    /\ turns \in Nat
    /\ stats.attempts <= MaxTurns
    /\ pc \in {"turn", "tool", "observe"} => turns = stats.attempts
    /\ turns <= stats.attempts + 1
    /\ pc = "tool" => ~answerOnly /\ stats.attempts > 0
    /\ pc \in {"turn", "observe"} => (answerOnly <=> stats.attempts = MaxTurns)
    /\ stats.exhausted = 1 <=> stats.attempts = MaxTurns /\ MaxTurns > 0
                               /\ pc # "tool"

IInv == Sequences3 /\ ContentFromTools /\ Phases /\ AttemptsAccounted

LEMMA MaxTurnsNat == MaxTurns \in Nat /\ MaxTurns <= MAX_TOOL_ATTEMPTS
BY ConfigAssumption DEF MaxTurns, Min2, Max2, MAX_TOOL_ATTEMPTS

\* The tokens of a generation are model tokens of the turn.
LEMMA GeneratedTokens ==
    ASSUME NEW t \in Nat, NEW n \in Nat
    PROVE  /\ Generated(t, n) \in Seq(Token)
           /\ Len(Generated(t, n)) = n
           /\ \A i \in 1..n : Generated(t, n)[i].by = "model"
BY DEF Generated, Token

\* The rendered tool response holds no model token.
LEMMA RenderedTokens ==
    ASSUME ContentFromTools, NEW t \in Nat, MaxObsLength >= WrapperLength
    PROVE  /\ Rendered(t, content) \in Seq(Token)
           /\ \A i \in 1..Len(Rendered(t, content)) :
                Rendered(t, content)[i].by \in ToolParts
<1> DEFINE part(p) == <<[by |-> p, turn |-> t, pos |-> 0]>>
           kept == Take(content, MaxObsLength - WrapperLength)
<1>1. /\ part("open") \in Seq(Token) /\ Len(part("open")) = 1
      /\ part("close") \in Seq(Token) /\ Len(part("close")) = 1
      /\ part("open")[1].by \in ToolParts /\ part("close")[1].by \in ToolParts
    BY DEF Token, ToolParts
<1>2. MaxObsLength - WrapperLength \in Nat
    BY ConfigAssumption DEF WrapperLength
<1>3. /\ kept \in Seq(Token)
      /\ \A i \in 1..Len(kept) : kept[i].by \in ToolParts
    BY <1>2, TakePrefix DEF ContentFromTools
<1> HIDE DEF part, kept
<1>4. /\ part("open") \o kept \in Seq(Token)
      /\ \A i \in 1..Len(part("open") \o kept) :
            (part("open") \o kept)[i].by \in ToolParts
    BY <1>1, <1>3
<1>5. /\ (part("open") \o kept) \o part("close") \in Seq(Token)
      /\ \A i \in 1..Len((part("open") \o kept) \o part("close")) :
            ((part("open") \o kept) \o part("close"))[i].by \in ToolParts
    BY <1>1, <1>4
<1>6. Rendered(t, content) = (part("open") \o kept) \o part("close")
    BY DEF Rendered, part, kept
<1> QED
    BY <1>5, <1>6

\* Appending the tokens of a generation that fit keeps the three sequences in
\* step, whether or not log probabilities came with them or had come before.
LEMMA GenerateKeeps ==
    ASSUME IInv, NEW n \in Nat, NEW a \in Actions,
           NEW withLogprobs \in BOOLEAN, NEW k \in Nat,
           Generate(n, a, withLogprobs, k)
    PROVE  Sequences3' /\ ContentFromTools'
<1> DEFINE all == Generated(turns + 1, n)
           new == Take(all, Remaining)
           base == IF hasLogprobs THEN logprobs
                   ELSE logprobs \o Repeat(ZeroLogprob, Len(ids))
           tail == IF withLogprobs THEN OutputLogprobs(new, k)
                   ELSE Repeat(ZeroLogprob, Len(new))
<1>1. /\ Remaining \in Nat /\ turns + 1 \in Nat
      /\ ids \in Seq(Token) /\ Len(ids) \in Nat
    BY ConfigAssumption DEF IInv, Phases, Sequences3, Remaining, Marks
<1>2. /\ new \in Seq(Token) /\ Len(new) \in Nat /\ Len(new) <= Remaining
      /\ \A i \in 1..Len(new) : new[i].by = "model"
  <2>1. /\ all \in Seq(Token) /\ Len(all) = n
        /\ \A i \in 1..n : all[i].by = "model"
    BY <1>1, GeneratedTokens
  <2> HIDE DEF all
  <2> QED
    BY <1>1, <2>1, TakePrefix
<1> HIDE DEF new
<1>3. Marks(ids \o new, mask \o Repeat(1, Len(new)))
  <2>1. Marks(new, Repeat(1, Len(new)))
    BY <1>2, MarksRepeat
  <2> QED
    BY <2>1, MarksConcat DEF IInv, Sequences3
<1>4. LogprobsOf(new, tail)
  <2>1. CASE withLogprobs
    BY <1>2, <2>1 DEF OutputLogprobs, LogprobsOf
  <2>2. CASE ~withLogprobs
    BY <1>2, <2>2, LogprobsRepeat
  <2> QED
    BY <2>1, <2>2
<1>5. LogprobsOf(ids, base)
  <2>1. CASE hasLogprobs
    BY <2>1 DEF IInv, Sequences3
  <2>2. CASE ~hasLogprobs
    <3>1. LogprobsOf(ids, Repeat(ZeroLogprob, Len(ids)))
        BY <1>1, LogprobsRepeat
    <3>2. Repeat(ZeroLogprob, Len(ids)) \in Seq(Token \union {ZeroLogprob})
        BY <3>1 DEF LogprobsOf
    <3>3. <<>> \o Repeat(ZeroLogprob, Len(ids)) = Repeat(ZeroLogprob, Len(ids))
        BY <3>2
    <3> QED
        BY <2>2, <3>1, <3>3 DEF IInv, Sequences3
  <2> QED
    BY <2>1, <2>2
<1>6. AppendGeneration(new, withLogprobs, k) /\ content' = content
    BY DEF Generate, new
<1>7. /\ ids' = ids \o new
      /\ mask' = mask \o Repeat(1, Len(new))
      /\ hasLogprobs' = (hasLogprobs \/ withLogprobs)
      /\ logprobs' = IF hasLogprobs \/ withLogprobs THEN base \o tail ELSE logprobs
    BY <1>6 DEF AppendGeneration
<1> HIDE DEF base, tail
<1>8. LogprobsOf(ids \o new, base \o tail)
    BY <1>4, <1>5, LogprobsConcat
<1>9. Len(ids') <= ResponseLength
  <2>1. Len(ids \o new) = Len(ids) + Len(new)
    BY <1>1, <1>2, ConcatType
  <2> QED
    BY <1>1, <1>2, <1>7, <2>1, ConfigAssumption DEF Remaining
<1>10. Sequences3'
    BY <1>3, <1>7, <1>8, <1>9 DEF IInv, Sequences3
<1> QED
    BY <1>6, <1>10 DEF IInv, ContentFromTools

\* So does appending a tool response, cut to the room that is left.
LEMMA AppendObservationKeeps ==
    ASSUME IInv, AppendObservation
    PROVE  Sequences3' /\ ContentFromTools'
<1> DEFINE all == Rendered(turns, content)
           new == Take(all, Remaining)
           filler == Repeat(ZeroLogprob, Len(new))
<1>1. /\ Remaining \in Nat /\ turns \in Nat /\ MaxObsLength >= WrapperLength
      /\ ids \in Seq(Token) /\ Len(ids) \in Nat
    BY ConfigAssumption DEF IInv, Phases, Sequences3, Remaining, Marks,
                            AppendObservation
<1>2. /\ new \in Seq(Token) /\ Len(new) \in Nat /\ Len(new) <= Remaining
      /\ \A i \in 1..Len(new) : new[i].by \in ToolParts
  <2>1. /\ all \in Seq(Token)
        /\ \A i \in 1..Len(all) : all[i].by \in ToolParts
    BY <1>1, RenderedTokens DEF IInv
  <2> HIDE DEF all
  <2>2. /\ new \in Seq(Token) /\ Len(new) \in Nat /\ Len(new) <= Remaining
        /\ Len(new) <= Len(all)
        /\ \A i \in 1..Len(new) : new[i] = all[i]
    BY <1>1, <2>1, TakePrefix
  <2>3. Len(all) \in Nat
    BY <2>1
  <2> HIDE DEF new
  <2> QED
    BY <2>1, <2>2, <2>3
<1>3. /\ UNCHANGED <<hasLogprobs, content>>
      /\ \/ UNCHANGED <<ids, mask, logprobs>>
         \/ /\ ids' = ids \o new
            /\ mask' = mask \o Repeat(0, Len(new))
            /\ logprobs' = IF hasLogprobs THEN logprobs \o filler ELSE logprobs
    BY DEF AppendObservation
<1> HIDE DEF new
<1>4. Marks(new, Repeat(0, Len(new)))
  <2>1. \A i \in 1..Len(new) : 0 = 1 <=> new[i].by = "model"
    BY <1>2 DEF ToolParts
  <2>2. 0 \in 0..1
    OBVIOUS
  <2> QED
    BY <1>2, <2>1, <2>2, MarksRepeat
<1>5. LogprobsOf(new, filler)
    BY <1>2, LogprobsRepeat
<1> HIDE DEF filler
<1>6. Marks(ids \o new, mask \o Repeat(0, Len(new)))
    BY <1>4, MarksConcat DEF IInv, Sequences3
<1>7. hasLogprobs => LogprobsOf(ids \o new, logprobs \o filler)
    BY <1>5, LogprobsConcat DEF IInv, Sequences3
<1>8. Len(ids \o new) <= ResponseLength
  <2>1. Len(ids \o new) = Len(ids) + Len(new)
    BY <1>1, <1>2, ConcatType
  <2> QED
    BY <1>1, <1>2, <2>1, ConfigAssumption DEF Remaining
<1>9. Sequences3'
    BY <1>3, <1>6, <1>7, <1>8 DEF IInv, Sequences3
<1> QED
    BY <1>3, <1>9 DEF IInv, ContentFromTools

-----------------------------------------------------------------------------
(* The invariant is inductive.                                             *)

LEMMA InitIInv == Init => IInv
<1> SUFFICES ASSUME Init PROVE IInv
    OBVIOUS
<1>1. Sequences3
  <2>1. /\ <<>> \in Seq(Token) /\ <<>> \in Seq(0..1) /\ Len(<<>>) = 0
        /\ \A i \in 1..0 : FALSE
    OBVIOUS
  <2>2. Marks(<<>>, <<>>)
    BY <2>1 DEF Marks
  <2>3. ids = <<>> /\ mask = <<>> /\ logprobs = <<>> /\ hasLogprobs = FALSE
    BY DEF Init
  <2>4. Len(<<>>) <= ResponseLength
    BY <2>1, ConfigAssumption
  <2> QED
    BY <2>2, <2>3, <2>4, Zenon DEF Sequences3
<1>2. ContentFromTools
    BY DEF Init, ContentFromTools
<1>3. Phases
  <2>1. stats \in Stats /\ stats.attempts = 0 /\ stats.exhausted = 0
    BY DEF Init, Stats
  <2>2. pc = "turn" /\ turns = 0 /\ action = "invalid"
    BY DEF Init
  <2>3. answerOnly \in BOOLEAN /\ (answerOnly <=> stats.attempts = MaxTurns)
    BY <2>1, MaxTurnsNat DEF Init
  <2>4. ~(stats.exhausted = 1) /\ ~(stats.attempts = MaxTurns /\ MaxTurns > 0)
    BY <2>1, MaxTurnsNat
  <2>5. /\ stats.attempts <= MaxTurns /\ turns = stats.attempts /\ turns \in Nat
        /\ turns <= stats.attempts + 1
    BY <2>1, <2>2, MaxTurnsNat
  <2>6. action \in Actions
    BY <2>2 DEF Actions
  <2> QED
    BY <2>1, <2>2, <2>3, <2>4, <2>5, <2>6 DEF Phases
<1>4. AttemptsAccounted
    BY DEF Init, AttemptsAccounted
<1> QED
    BY <1>1, <1>2, <1>3, <1>4 DEF IInv

\* Counting a success in the valid actions and for its tool.
LEMMA TwoCounters ==
    ASSUME NEW s \in Stats, NEW v \in Nat, NEW t \in Nat
    PROVE  /\ [s EXCEPT !.valid = v, !.search = t] \in Stats
           /\ [s EXCEPT !.valid = v, !.vision = t] \in Stats
BY DEF Stats

\* The tool phase: the response of an attempt is counted once, and the last
\* attempt of the budget makes the next turn answer-only.
LEMMA RespondKeeps ==
    ASSUME IInv, pc = "tool", NEW c \in Nat, NEW counted \in Stats,
           counted.attempts = stats.attempts,
           counted.exhausted = stats.exhausted,
           counted.attempts = counted.search + counted.vision
                              + counted.failures + counted.invalid,
           counted.valid = counted.search + counted.vision,
           Respond(c, counted)
    PROVE  IInv'
<1>1. Sequences3'
    BY DEF Respond, IInv, Sequences3
<1>2. ContentFromTools'
  <2> DEFINE token(p, i) == [by |-> p, turn |-> turns, pos |-> i]
             text == [i \in 1..c |-> token("text", i)]
             instruction == token("instruction", c + 1)
  <2>1. /\ text \in Seq(Token) /\ Len(text) = c
        /\ \A i \in 1..c : text[i].by \in ToolParts
    BY DEF IInv, Phases, Token, ToolParts
  <2>2. instruction \in Token /\ instruction.by \in ToolParts
    BY DEF IInv, Phases, Token, ToolParts
  <2>3. content' = text \/ content' = Append(text, instruction)
    BY DEF Respond
  <2> HIDE DEF text, instruction
  <2>4. /\ Append(text, instruction) \in Seq(Token)
        /\ \A i \in DOMAIN Append(text, instruction) :
            Append(text, instruction)[i].by \in ToolParts
    BY <2>1, <2>2
  <2> QED
    BY <2>1, <2>3, <2>4 DEF ContentFromTools
<1>3. /\ pc' = "observe" /\ turns' = turns /\ action' = action
      /\ stats' \in Stats
      /\ stats'.attempts = stats.attempts
      /\ stats'.search = counted.search /\ stats'.vision = counted.vision
      /\ stats'.failures = counted.failures /\ stats'.invalid = counted.invalid
      /\ stats'.valid = counted.valid
      /\ stats'.exhausted = IF stats.attempts >= MaxTurns THEN 1 ELSE stats.exhausted
      /\ answerOnly' = (answerOnly \/ stats.attempts >= MaxTurns)
  <2> DEFINE last == stats.attempts >= MaxTurns
  <2>1. /\ pc' = "observe" /\ turns' = turns /\ action' = action
        /\ answerOnly' = (answerOnly \/ last)
        /\ stats' = [counted EXCEPT !.exhausted = IF last THEN 1 ELSE @]
    BY DEF Respond
  <2> HIDE DEF last
  <2>2. (IF last THEN 1 ELSE counted.exhausted) \in 0..1
    BY DEF Stats
  <2>3. stats' \in Stats
    BY <2>1, <2>2 DEF Stats
  <2>4. stats'.exhausted = IF last THEN 1 ELSE counted.exhausted
    BY <2>1 DEF Stats
  <2>5. /\ stats'.attempts = counted.attempts
        /\ stats'.search = counted.search /\ stats'.vision = counted.vision
        /\ stats'.failures = counted.failures /\ stats'.invalid = counted.invalid
        /\ stats'.valid = counted.valid
    BY <2>1 DEF Stats
  <2> QED
    BY <2>1, <2>3, <2>4, <2>5 DEF last
<1>4. Phases'
  <2>1. /\ turns \in Nat /\ action \in Actions /\ answerOnly = FALSE
        /\ stats.attempts \in Nat /\ stats.attempts <= MaxTurns
        /\ stats.attempts > 0 /\ turns = stats.attempts
        /\ stats.exhausted \in 0..1 /\ stats.exhausted # 1
    BY DEF IInv, Phases, Stats
  <2>2. stats.attempts >= MaxTurns <=> stats.attempts = MaxTurns
    BY <2>1, MaxTurnsNat
  <2>3. answerOnly' \in BOOLEAN /\ (answerOnly' <=> stats.attempts = MaxTurns)
    BY <1>3, <2>1, <2>2, Zenon
  <2>4. stats'.exhausted = 1 <=> stats.attempts = MaxTurns
    BY <1>3, <2>1, <2>2, Zenon
  <2>5. MaxTurns > 0 \/ stats.attempts # MaxTurns
    BY <2>1, MaxTurnsNat
  <2>6. /\ pc' = "observe" /\ turns' = turns /\ action' = action
        /\ stats' \in Stats /\ stats'.attempts = stats.attempts
    BY <1>3, Zenon
  <2>7. turns <= stats.attempts + 1
    BY DEF IInv, Phases
  <2> QED
    BY <2>1, <2>3, <2>4, <2>5, <2>6, <2>7 DEF Phases
<1>5. AttemptsAccounted'
  <2>1. counted.search \in Nat /\ counted.vision \in Nat
        /\ counted.failures \in Nat /\ counted.invalid \in Nat
    BY DEF Stats
  <2>2. counted.attempts = counted.search + counted.vision
                           + counted.failures + counted.invalid
    OBVIOUS
  <2>3. counted.valid # counted.search + counted.vision + 1
    BY <2>1
  <2>4. /\ stats'.attempts = stats'.search + stats'.vision + stats'.failures
                             + stats'.invalid
        /\ stats'.valid = stats'.search + stats'.vision
        /\ stats'.valid # stats'.search + stats'.vision + 1
    BY <1>3, <2>2, <2>3, Zenon
  <2>5. stats'.search \in Nat /\ stats'.vision \in Nat /\ stats'.failures \in Nat
        /\ stats'.invalid \in Nat
    BY <1>3, <2>1
  <2> QED
    BY <1>3, <2>4, <2>5 DEF AttemptsAccounted
<1> QED
    BY <1>1, <1>2, <1>4, <1>5 DEF IInv

LEMMA NextIInv == IInv /\ [Next]_vars => IInv'
<1> SUFFICES ASSUME IInv, [Next]_vars PROVE IInv'
    OBVIOUS
<1> USE MaxTurnsNat
<1>1. CASE UNCHANGED vars
    BY <1>1 DEF vars, IInv, Sequences3, ContentFromTools, Phases, AttemptsAccounted
<1>2. CASE LoopExit \/ GenerateRaises \/ GenerateNothing \/ RenderRaises
  <2>1. UNCHANGED <<ids, mask, logprobs, hasLogprobs, content>>
    BY <1>2 DEF LoopExit, GenerateRaises, GenerateNothing, RenderRaises
  <2>2. Sequences3' /\ ContentFromTools'
    BY <2>1 DEF IInv, Sequences3, ContentFromTools
  <2>3. Phases' /\ AttemptsAccounted'
    BY <1>2 DEF LoopExit, GenerateRaises, GenerateNothing, RenderRaises,
                CanGenerate, IInv, Phases, AttemptsAccounted, Stats
  <2> QED
    BY <2>2, <2>3 DEF IInv
<1>3. ASSUME NEW n \in 1..GenMax, NEW withLogprobs \in BOOLEAN,
             NEW k \in 0..GenMax, GenerateAnswer(n, withLogprobs, k)
      PROVE  IInv'
  <2>1. Sequences3' /\ ContentFromTools'
    BY <1>3, GenerateKeeps, ConfigAssumption DEF GenerateAnswer, Actions
  <2>2. Phases' /\ AttemptsAccounted'
    BY <1>3 DEF GenerateAnswer, Generate, CanGenerate, IInv, Phases,
                AttemptsAccounted, Stats, Actions
  <2> QED
    BY <2>1, <2>2 DEF IInv
<1>4. ASSUME NEW n \in 1..GenMax, NEW withLogprobs \in BOOLEAN,
             NEW k \in 0..GenMax, NEW a \in Actions \ {"answer"},
             GenerateIgnored(n, a, withLogprobs, k)
      PROVE  IInv'
  <2>1. Sequences3' /\ ContentFromTools'
    BY <1>4, GenerateKeeps, ConfigAssumption DEF GenerateIgnored
  <2>2. Phases' /\ AttemptsAccounted'
    BY <1>4 DEF GenerateIgnored, Generate, CanGenerate, IInv, Phases,
                AttemptsAccounted, Stats
  <2> QED
    BY <2>1, <2>2 DEF IInv
<1>5. ASSUME NEW n \in 1..GenMax, NEW withLogprobs \in BOOLEAN,
             NEW k \in 0..GenMax, NEW a \in Actions \ {"answer"},
             GenerateCall(n, a, withLogprobs, k)
      PROVE  IInv'
  <2>1. Sequences3' /\ ContentFromTools'
    BY <1>5, GenerateKeeps, ConfigAssumption DEF GenerateCall
  <2>2. Phases' /\ AttemptsAccounted'
    BY <1>5 DEF GenerateCall, Generate, CanGenerate, IInv, Phases,
                AttemptsAccounted, Stats
  <2> QED
    BY <2>1, <2>2 DEF IInv
<1>6. ASSUME NEW c \in 0..ContentMax, ToolSucceeds(c)
      PROVE  IInv'
  <2>1. /\ pc = "tool" /\ stats \in Stats /\ c \in Nat
        /\ stats.attempts = stats.search + stats.vision + stats.failures
                            + stats.invalid + 1
        /\ stats.valid = stats.search + stats.vision
    BY <1>6, ConfigAssumption DEF ToolSucceeds, IInv, Phases, AttemptsAccounted, Stats
  <2>2. CASE action = "search"
    <3> DEFINE counted == [stats EXCEPT !.valid = @ + 1, !.search = @ + 1]
    <3>1. /\ counted.attempts = stats.attempts
          /\ counted.exhausted = stats.exhausted
          /\ counted.failures = stats.failures
          /\ counted.invalid = stats.invalid
          /\ counted.valid = stats.valid + 1
        BY <2>1 DEF Stats
    <3>2. counted.search = stats.search + 1 /\ counted.vision = stats.vision
        BY <2>1 DEF Stats
    <3>3. /\ stats.search \in Nat /\ stats.vision \in Nat /\ stats.failures \in Nat
          /\ stats.invalid \in Nat
        BY <2>1 DEF Stats
    <3>4. Respond(c, counted)
        BY <1>6, <2>2 DEF ToolSucceeds
    <3>5. /\ counted.attempts = counted.search + counted.vision
                                + counted.failures + counted.invalid
          /\ counted.valid = counted.search + counted.vision
        BY <2>1, <3>1, <3>2, <3>3
    <3>6. counted \in Stats
      <4>1. stats \in Stats /\ stats.valid + 1 \in Nat /\ stats.search + 1 \in Nat
            /\ stats.vision + 1 \in Nat
        BY <2>1, <3>3 DEF Stats
      <4> QED
        BY <4>1, TwoCounters, Zenon
    <3> HIDE DEF counted
    <3> QED
        BY <2>1, <3>1, <3>4, <3>5, <3>6, RespondKeeps
  <2>3. CASE action # "search"
    <3> DEFINE counted == [stats EXCEPT !.valid = @ + 1, !.vision = @ + 1]
    <3>1. /\ counted.attempts = stats.attempts
          /\ counted.exhausted = stats.exhausted
          /\ counted.failures = stats.failures
          /\ counted.invalid = stats.invalid
          /\ counted.valid = stats.valid + 1
        BY <2>1 DEF Stats
    <3>2. counted.search = stats.search /\ counted.vision = stats.vision + 1
        BY <2>1 DEF Stats
    <3>3. /\ stats.search \in Nat /\ stats.vision \in Nat /\ stats.failures \in Nat
          /\ stats.invalid \in Nat
        BY <2>1 DEF Stats
    <3>4. Respond(c, counted)
        BY <1>6, <2>3 DEF ToolSucceeds
    <3>5. /\ counted.attempts = counted.search + counted.vision
                                + counted.failures + counted.invalid
          /\ counted.valid = counted.search + counted.vision
        BY <2>1, <3>1, <3>2, <3>3
    <3>6. counted \in Stats
      <4>1. stats \in Stats /\ stats.valid + 1 \in Nat /\ stats.search + 1 \in Nat
            /\ stats.vision + 1 \in Nat
        BY <2>1, <3>3 DEF Stats
      <4> QED
        BY <4>1, TwoCounters, Zenon
    <3> HIDE DEF counted
    <3> QED
        BY <2>1, <3>1, <3>4, <3>5, <3>6, RespondKeeps
  <2> QED
    BY <2>2, <2>3
<1>7. ASSUME NEW c \in 0..ContentMax, ToolFails(c)
      PROVE  IInv'
    BY <1>7, RespondKeeps, ConfigAssumption
       DEF ToolFails, IInv, Phases, AttemptsAccounted, Stats
<1>8. ASSUME NEW c \in 0..ContentMax, RejectCall(c)
      PROVE  IInv'
    BY <1>8, RespondKeeps, ConfigAssumption
       DEF RejectCall, IInv, Phases, AttemptsAccounted, Stats
<1>9. CASE AppendObservation
  <2>1. Sequences3' /\ ContentFromTools'
    BY <1>9, AppendObservationKeeps
  <2>2. Phases' /\ AttemptsAccounted'
    BY <1>9 DEF AppendObservation, IInv, Phases, AttemptsAccounted, Stats
  <2> QED
    BY <2>1, <2>2 DEF IInv
<1> QED
    BY <1>1, <1>2, <1>3, <1>4, <1>5, <1>6, <1>7, <1>8, <1>9 DEF Next

LEMMA IInvAlways == Spec => []IInv
BY InitIInv, NextIInv, PTL DEF Spec

-----------------------------------------------------------------------------
(* The tool responses inside the response.                                 *)

\* The pending text holds no wrapper token: content[i].by \in ToolParts is
\* not enough to say that the wrapper of the response is its only one.
PlainContent ==
    pc = "observe" =>
        \A i \in 1..Len(content) : /\ content[i].by \in {"text", "instruction"}
                                   /\ content[i].turn = turns

\* A token carries a turn that has begun; and while the response of a turn is
\* awaited, the turn has none yet.
TurnsSoFar ==
    \A i \in 1..Len(ids) :
        /\ ids[i].turn <= turns
        /\ pc \in {"tool", "observe"} /\ ids[i].by # "model" =>
                ids[i].turn < turns

Closed(i) == \E j \in 1..Len(ids) : ids[j] = [ids[i] EXCEPT !.by = "close"]

\* What CutResponseIsLast leaves open: the cut fills the budget, and a full
\* budget leaves the loop nowhere to go but out.
CutIsEnd(i) ==
    /\ Len(ids) = ResponseLength
    /\ pc \in {"turn", "done"}
    /\ ids[Len(ids)].turn = ids[i].turn

ResponsesClosed ==
    \A i \in 1..Len(ids) : ids[i].by = "open" => Closed(i) \/ CutIsEnd(i)

\* The positions of the tool response of turn t.
ToolTokens(t) == {i \in 1..Len(ids) : ids[i].turn = t /\ ids[i].by # "model"}

ResponsesBounded ==
    \A t \in 1..turns : Cardinality(ToolTokens(t)) <= MaxObsLength

ResponsesInv ==
    PlainContent /\ TurnsSoFar /\ ResponsesClosed /\ ResponsesBounded

\* The rendered response begins with its only opening token, ends with the
\* closing one, belongs to its turn and respects the bound.
LEMMA RenderedShape ==
    ASSUME NEW t \in Nat, content \in Seq(Token), MaxObsLength >= WrapperLength,
           \A i \in 1..Len(content) : /\ content[i].by \in {"text", "instruction"}
                                      /\ content[i].turn = t
    PROVE  /\ Rendered(t, content) \in Seq(Token)
           /\ Len(Rendered(t, content)) \in Nat
           /\ Len(Rendered(t, content)) >= 2
           /\ Len(Rendered(t, content)) <= MaxObsLength
           /\ \A i \in 1..Len(Rendered(t, content)) :
                /\ Rendered(t, content)[i].turn = t
                /\ Rendered(t, content)[i].by # "model"
                /\ Rendered(t, content)[i].by = "open" =>
                     Rendered(t, content)[i] = [by |-> "open", turn |-> t, pos |-> 0]
           /\ Rendered(t, content)[Len(Rendered(t, content))]
                = [by |-> "close", turn |-> t, pos |-> 0]
<1> DEFINE open == [by |-> "open", turn |-> t, pos |-> 0]
           close == [by |-> "close", turn |-> t, pos |-> 0]
           kept == Take(content, MaxObsLength - WrapperLength)
           all == (<<open>> \o kept) \o <<close>>
<1>1. /\ open \in Token /\ close \in Token
      /\ open.turn = t /\ close.turn = t
      /\ open.by = "open" /\ close.by = "close"
    BY DEF Token, ToolParts
<1>2. MaxObsLength - 2 \in Nat /\ WrapperLength = 2 /\ MaxObsLength \in Nat
    BY ConfigAssumption DEF WrapperLength
<1>3. /\ kept \in Seq(Token) /\ Len(kept) \in Nat
      /\ Len(kept) <= MaxObsLength - 2
      /\ Len(kept) <= Len(content)
      /\ \A i \in 1..Len(kept) : kept[i] = content[i]
    BY <1>2, TakePrefix
<1>4. Rendered(t, content) = all
    BY DEF Rendered, all
<1> HIDE DEF open, close, kept
<1>5. \A i \in 1..Len(kept) : /\ kept[i].by \in {"text", "instruction"}
                              /\ kept[i].turn = t
  <2>1. Len(content) \in Nat
    OBVIOUS
  <2> QED
    BY <2>1, <1>3
<1>6. /\ all \in Seq(Token) /\ Len(all) = Len(kept) + 2
      /\ all[1] = open /\ all[Len(kept) + 2] = close
      /\ \A i \in 2..(Len(kept) + 1) : all[i] = kept[i - 1]
    BY <1>1, <1>3
<1> HIDE DEF all
<1>7. ASSUME NEW i \in 1..Len(all)
      PROVE  /\ all[i].turn = t /\ all[i].by # "model"
             /\ all[i].by = "open" => all[i] = open
  <2>1. CASE i = 1
    BY <2>1, <1>6, <1>1
  <2>2. CASE i = Len(kept) + 2
    BY <2>2, <1>6, <1>1
  <2>3. CASE i \in 2..(Len(kept) + 1)
    <3>1. all[i] = kept[i - 1] /\ i - 1 \in 1..Len(kept)
        BY <2>3, <1>6, <1>3
    <3> QED
        BY <3>1, <1>5
  <2>4. i = 1 \/ i = Len(kept) + 2 \/ i \in 2..(Len(kept) + 1)
    BY <1>6, <1>3
  <2> QED
    BY <2>1, <2>2, <2>3, <2>4
<1>8. /\ Len(all) \in Nat /\ Len(all) >= 2 /\ Len(all) <= MaxObsLength
      /\ all[Len(all)] = close
    BY <1>2, <1>3, <1>6
<1> QED
    BY <1>4, <1>6, <1>7, <1>8 DEF open, close

\* ids only ever grows at its end.
Grows(new) ==
    /\ new \in Seq(Token) /\ Len(new) \in Nat
    /\ ids' \in Seq(Token) /\ Len(ids') = Len(ids) + Len(new)
    /\ \A i \in 1..Len(ids) : ids'[i] = ids[i]
    /\ \A i \in 1..Len(new) : ids'[Len(ids) + i] = new[i]

LEMMA GrowsBy ==
    ASSUME ids \in Seq(Token), NEW new \in Seq(Token), ids' = ids \o new
    PROVE  Grows(new)
<1>1. Len(new) \in Nat /\ Len(ids) \in Nat
    OBVIOUS
<1>2. ids' \in Seq(Token) /\ Len(ids') = Len(ids) + Len(new)
    BY ConcatType
<1>3. \A i \in 1..Len(ids) : ids'[i] = ids[i]
    OBVIOUS
<1>4. \A i \in 1..Len(new) : ids'[Len(ids) + i] = new[i]
    OBVIOUS
<1> QED
    BY <1>1, <1>2, <1>3, <1>4 DEF Grows

\* A position of the grown response is an old one or one of the new tokens.
LEMMA GrownIndex ==
    ASSUME ids \in Seq(Token), NEW new, Grows(new), NEW i \in 1..Len(ids')
    PROVE  \/ i \in 1..Len(ids) /\ ids'[i] = ids[i]
           \/ /\ i - Len(ids) \in 1..Len(new)
              /\ ids'[i] = new[i - Len(ids)]
              /\ i \notin 1..Len(ids)
<1>1. Len(new) \in Nat /\ Len(ids) \in Nat /\ Len(ids') = Len(ids) + Len(new)
    BY DEF Grows
<1>2. i \in 1..Len(ids) \/ i - Len(ids) \in 1..Len(new)
    BY <1>1
<1>3. ~(i \in 1..Len(ids) /\ i - Len(ids) \in 1..Len(new))
    BY <1>1
<1>4. ASSUME i - Len(ids) \in 1..Len(new)
      PROVE  ids'[i] = new[i - Len(ids)]
  <2>1. i = Len(ids) + (i - Len(ids))
    BY <1>1
  <2> QED
    BY <1>4, <2>1 DEF Grows
<1> QED
    BY <1>2, <1>3, <1>4 DEF Grows

\* A response that had been closed stays closed.
LEMMA ClosedStays ==
    ASSUME ids \in Seq(Token), NEW new, Grows(new), NEW i \in 1..Len(ids),
           Closed(i)
    PROVE  Closed(i)'
<1>1. PICK j \in 1..Len(ids) : ids[j] = [ids[i] EXCEPT !.by = "close"]
    BY DEF Closed
<1>2. ids'[j] = ids[j] /\ ids'[i] = ids[i] /\ j \in 1..Len(ids')
    BY DEF Grows
<1> QED
    BY <1>1, <1>2 DEF Closed

\* Steps that append nothing: the invariant only looks at the phase.
LEMMA ResponsesUnchanged ==
    ASSUME ResponsesInv, IInv, UNCHANGED ids, turns' \in Nat, turns' >= turns,
           turns' > turns => pc' = "done",
           pc' = "observe" => PlainContent',
           pc' \in {"tool", "observe"} => pc \in {"tool", "observe"},
           pc \in {"turn", "done"} => pc' \in {"turn", "done"}
                                      \/ Len(ids) < ResponseLength
    PROVE  ResponsesInv'
<1>1. turns \in Nat /\ turns' \in Nat /\ turns' >= turns
    BY DEF IInv, Phases
<1>2. PlainContent'
    BY DEF PlainContent
<1>3. TurnsSoFar'
  <2>1. ids \in Seq(Token)
    BY DEF IInv, Sequences3, Marks
  <2>2. ASSUME NEW i \in 1..Len(ids)
        PROVE  /\ ids[i].turn <= turns'
               /\ pc' \in {"tool", "observe"} /\ ids[i].by # "model" =>
                       ids[i].turn < turns'
    <3>1. ids[i].turn \in Nat
      <4>1. ids[i] \in Token
        BY <2>1
      <4> QED
        BY <4>1 DEF Token
    <3>2. /\ ids[i].turn <= turns
          /\ pc \in {"tool", "observe"} /\ ids[i].by # "model" =>
                  ids[i].turn < turns
        BY DEF ResponsesInv, TurnsSoFar
    <3> QED
        BY <1>1, <3>1, <3>2
  <2> QED
    BY <2>2 DEF TurnsSoFar
<1>4. ResponsesClosed'
  <2>1. ASSUME NEW i \in 1..Len(ids), ids[i].by = "open"
        PROVE  Closed(i) \/ CutIsEnd(i)'
    <3>1. Closed(i) \/ CutIsEnd(i)
        BY <2>1 DEF ResponsesInv, ResponsesClosed
    <3>2. ASSUME CutIsEnd(i) PROVE CutIsEnd(i)'
      <4>1. Len(ids) = ResponseLength /\ ResponseLength \in Nat
        BY <3>2, ConfigAssumption DEF CutIsEnd
      <4> QED
        BY <3>2, <4>1 DEF CutIsEnd
    <3> QED
        BY <3>1, <3>2
  <2>2. \A i \in 1..Len(ids) : Closed(i)' <=> Closed(i)
    BY DEF Closed
  <2> QED
    BY <2>1, <2>2 DEF ResponsesClosed
<1>5. ResponsesBounded'
  <2>1. \A t : ToolTokens(t)' = ToolTokens(t)
    BY DEF ToolTokens
  <2>2. ASSUME NEW t \in 1..turns' PROVE Cardinality(ToolTokens(t)) <= MaxObsLength
    <3>1. CASE t \in 1..turns
        BY <3>1 DEF ResponsesInv, ResponsesBounded
    <3>2. CASE t \notin 1..turns
      <4>1. \A i \in 1..Len(ids) : ids[i].turn # t
        <5>1. t > turns
            BY <1>1, <3>2
        <5>2. \A i \in 1..Len(ids) : ids[i].turn <= turns
            BY DEF ResponsesInv, TurnsSoFar
        <5> QED
            BY <5>1, <5>2, <1>1
      <4>2. ToolTokens(t) = {}
        BY <4>1 DEF ToolTokens
      <4> QED
        BY <4>2, FS_EmptySet, ConfigAssumption
    <3> QED
        BY <3>1, <3>2
  <2> QED
    BY <2>1, <2>2 DEF ResponsesBounded
<1> QED
    BY <1>2, <1>3, <1>4, <1>5 DEF ResponsesInv

\* A generation adds model tokens of a new turn, and is made only while there
\* is room: every response before it is closed.
LEMMA GenerateWhole ==
    ASSUME IInv, ResponsesInv, NEW n \in Nat, NEW a \in Actions,
           NEW withLogprobs \in BOOLEAN, NEW k \in Nat,
           Generate(n, a, withLogprobs, k), pc' \in {"tool", "done"}
    PROVE  ResponsesInv'
<1> DEFINE all == Generated(turns + 1, n)
           new == Take(all, Remaining)
<1>1. /\ turns \in Nat /\ turns' = turns + 1 /\ pc = "turn"
      /\ ids \in Seq(Token) /\ Len(ids) \in Nat /\ Remaining \in Nat
      /\ Len(ids) < ResponseLength
    BY ConfigAssumption DEF IInv, Phases, Sequences3, Marks, Generate,
                            CanGenerate, Remaining
<1>2. /\ new \in Seq(Token) /\ Len(new) \in Nat
      /\ \A i \in 1..Len(new) : new[i].by = "model" /\ new[i].turn = turns + 1
  <2>1. /\ all \in Seq(Token) /\ Len(all) = n
        /\ \A i \in 1..n : all[i].by = "model" /\ all[i].turn = turns + 1
    BY <1>1 DEF Generated, Token
  <2> HIDE DEF all
  <2>2. /\ new \in Seq(Token) /\ Len(new) \in Nat /\ Len(new) <= Len(all)
        /\ \A i \in 1..Len(new) : new[i] = all[i]
    BY <1>1, <2>1, TakePrefix
  <2> HIDE DEF new
  <2> QED
    BY <2>1, <2>2
<1>3. ids' = ids \o new
    BY DEF Generate, AppendGeneration
<1> HIDE DEF new
<1>4. Grows(new)
    BY <1>1, <1>2, <1>3, GrowsBy
<1>5. PlainContent'
    BY DEF PlainContent
<1>6. ASSUME NEW i \in 1..Len(ids')
      PROVE  \/ i \in 1..Len(ids) /\ ids'[i] = ids[i] /\ ids[i].turn \in Nat
                /\ ids[i].turn <= turns
             \/ i \notin 1..Len(ids) /\ ids'[i].by = "model" /\ ids'[i].turn = turns + 1
  <2>1. CASE i \in 1..Len(ids) /\ ids'[i] = ids[i]
    <3>1. ids[i] \in Token /\ ids[i].turn <= turns
        BY <1>1, <2>1 DEF ResponsesInv, TurnsSoFar
    <3> QED
        BY <2>1, <3>1 DEF Token
  <2>2. CASE i - Len(ids) \in 1..Len(new) /\ ids'[i] = new[i - Len(ids)] /\ i \notin 1..Len(ids)
    BY <2>2, <1>2
  <2> QED
    BY <1>1, <1>4, <2>1, <2>2, GrownIndex
<1>7. TurnsSoFar'
    BY <1>1, <1>6 DEF TurnsSoFar
<1>8. ResponsesClosed'
  <2>1. ASSUME NEW i \in 1..Len(ids'), ids'[i].by = "open"
        PROVE  Closed(i)'
    <3>1. i \in 1..Len(ids) /\ ids'[i] = ids[i]
        BY <2>1, <1>6
    <3>2. Closed(i) \/ CutIsEnd(i)
        BY <2>1, <3>1 DEF ResponsesInv, ResponsesClosed
    <3>3. ~CutIsEnd(i)
        BY <1>1 DEF CutIsEnd
    <3> QED
        BY <1>1, <1>4, <3>1, <3>2, <3>3, ClosedStays
  <2> QED
    BY <2>1 DEF ResponsesClosed
<1>9. ResponsesBounded'
  <2>1. ASSUME NEW t \in 1..(turns + 1)
        PROVE  Cardinality(ToolTokens(t)') <= MaxObsLength
    <3>1. CASE t \in 1..turns
      <4>1. ToolTokens(t)' \subseteq ToolTokens(t)
        BY <1>6, <1>1, <3>1 DEF ToolTokens
      <4>2. ToolTokens(t) \subseteq ToolTokens(t)'
        BY <1>4 DEF ToolTokens, Grows
      <4>3. ToolTokens(t)' = ToolTokens(t)
        BY <4>1, <4>2
      <4> QED
        BY <4>3, <3>1 DEF ResponsesInv, ResponsesBounded
    <3>2. CASE t = turns + 1
      <4>1. ToolTokens(t)' = {}
        BY <1>6, <1>1, <3>2 DEF ToolTokens
      <4> QED
        BY <4>1, FS_EmptySet, ConfigAssumption
    <3> QED
        BY <1>1, <3>1, <3>2
  <2> QED
    BY <2>1, <1>1 DEF ResponsesBounded
<1> QED
    BY <1>5, <1>7, <1>8, <1>9 DEF ResponsesInv

\* Appending the response of the turn: whole, its closing token comes with
\* it; cut, it fills the budget.
LEMMA ObservationWhole ==
    ASSUME IInv, ResponsesInv, AppendObservation
    PROVE  ResponsesInv'
<1> DEFINE all == Rendered(turns, content)
           new == Take(all, Remaining)
           close == [by |-> "close", turn |-> turns, pos |-> 0]
           open == [by |-> "open", turn |-> turns, pos |-> 0]
<1>1. /\ turns \in Nat /\ turns' = turns /\ pc = "observe"
      /\ ids \in Seq(Token) /\ Len(ids) \in Nat /\ Remaining \in Nat
      /\ MaxObsLength >= WrapperLength
    BY ConfigAssumption DEF IInv, Phases, Sequences3, Marks,
                            AppendObservation, Remaining
<1>2. /\ all \in Seq(Token) /\ Len(all) \in Nat
      /\ Len(all) >= 2 /\ Len(all) <= MaxObsLength
      /\ \A i \in 1..Len(all) :
            /\ all[i].turn = turns /\ all[i].by # "model"
            /\ all[i].by = "open" => all[i] = open
      /\ all[Len(all)] = close
  <2>1. content \in Seq(Token)
    BY DEF IInv, ContentFromTools
  <2>2. \A i \in 1..Len(content) : /\ content[i].by \in {"text", "instruction"}
                                   /\ content[i].turn = turns
    BY <1>1 DEF ResponsesInv, PlainContent
  <2> QED
    BY <1>1, <2>1, <2>2, RenderedShape
<1> HIDE DEF all
<1>3. /\ new \in Seq(Token) /\ Len(new) \in Nat
      /\ Len(new) <= Remaining /\ Len(new) <= Len(all)
      /\ \A i \in 1..Len(new) : new[i] = all[i]
    BY <1>1, <1>2, TakePrefix
<1>4. Len(new) = Len(all) \/ Len(new) = Remaining
    BY <1>1, <1>2 DEF Take
<1>5. CASE new = <<>>
  <2>1. UNCHANGED ids /\ pc' = "done"
    BY <1>5 DEF AppendObservation, all
  <2> QED
    BY <1>1, <2>1, ResponsesUnchanged
<1>6. CASE new # <<>>
  <2>1. ids' = ids \o new /\ pc' = "turn"
    BY <1>6 DEF AppendObservation, all
  <2> HIDE DEF new
  <2>2. Grows(new)
    BY <1>1, <1>3, <2>1, GrowsBy
  <2>3. ASSUME NEW i \in 1..Len(new)
        PROVE  /\ new[i].turn = turns /\ new[i].by # "model"
               /\ new[i].by = "open" => new[i] = open
    BY <1>2, <1>3
  <2>4. ASSUME NEW i \in 1..Len(ids')
        PROVE  \/ /\ i \in 1..Len(ids) /\ ids'[i] = ids[i] /\ ids[i].turn \in Nat
                  /\ ids[i].turn <= turns
                  /\ ids[i].by # "model" => ids[i].turn < turns
               \/ /\ i \notin 1..Len(ids) /\ ids'[i].turn = turns
                  /\ ids'[i].by # "model"
                  /\ ids'[i].by = "open" => ids'[i] = open
    <3>1. CASE i \in 1..Len(ids) /\ ids'[i] = ids[i]
      <4>1. ids[i] \in Token /\ ids[i].turn <= turns
            /\ (ids[i].by # "model" => ids[i].turn < turns)
        BY <1>1, <3>1 DEF ResponsesInv, TurnsSoFar
      <4> QED
        BY <3>1, <4>1 DEF Token
    <3>2. CASE i - Len(ids) \in 1..Len(new) /\ ids'[i] = new[i - Len(ids)]
               /\ i \notin 1..Len(ids)
        BY <3>2, <2>3
    <3> QED
        BY <1>1, <2>2, <3>1, <3>2, GrownIndex
  <2>5. PlainContent'
    BY <2>1 DEF PlainContent
  <2>6. TurnsSoFar'
    BY <1>1, <2>1, <2>4 DEF TurnsSoFar
  <2>7. Len(new) > 0 /\ Len(ids') \in 1..Len(ids') /\ Len(ids') \notin 1..Len(ids)
    BY <1>3, <1>1, <1>6, <2>2 DEF Grows
  <2>8. ASSUME NEW i \in 1..Len(ids'), ids'[i].by = "open"
        PROVE  Closed(i)' \/ CutIsEnd(i)'
    <3>1. CASE i \in 1..Len(ids) /\ ids'[i] = ids[i]
      <4>1. Closed(i) \/ CutIsEnd(i)
        BY <2>8, <3>1 DEF ResponsesInv, ResponsesClosed
      <4>2. ~CutIsEnd(i)
        BY <1>1 DEF CutIsEnd
      <4> QED
        BY <1>1, <2>2, <3>1, <4>1, <4>2, ClosedStays
    <3>2. CASE i \notin 1..Len(ids) /\ ids'[i] = open
      <4>1. CASE Len(new) = Len(all)
        <5>1. ids'[Len(ids) + Len(new)] = new[Len(new)]
            BY <1>3, <2>2, <2>7 DEF Grows
        <5>2. new[Len(new)] = close
            BY <4>1, <1>2, <1>3
        <5>3. ids'[Len(ids')] = close
            BY <5>1, <5>2, <2>2 DEF Grows
        <5>4. close = [open EXCEPT !.by = "close"]
            OBVIOUS
        <5> QED
            BY <2>7, <3>2, <5>3, <5>4 DEF Closed
      <4>2. CASE Len(new) = Remaining
        <5>1. Len(ids') = ResponseLength
            BY <4>2, <1>1, <2>2, ConfigAssumption DEF Grows, Remaining
        <5>2. ids'[Len(ids')].turn = turns /\ ids'[i].turn = turns
            BY <2>4, <2>7, <3>2
        <5> QED
            BY <5>1, <5>2, <2>1 DEF CutIsEnd
      <4> QED
        BY <1>4, <4>1, <4>2
    <3> QED
        BY <2>4, <2>8, <3>1, <3>2
  <2>9. ResponsesBounded'
    <3>1. ASSUME NEW t \in 1..turns
          PROVE  Cardinality(ToolTokens(t)') <= MaxObsLength
      <4>1. CASE t < turns
        <5>1. ToolTokens(t)' \subseteq ToolTokens(t)
            BY <2>4, <1>1, <4>1 DEF ToolTokens
        <5>2. ToolTokens(t) \subseteq ToolTokens(t)'
            BY <2>2 DEF ToolTokens, Grows
        <5>3. ToolTokens(t)' = ToolTokens(t)
            BY <5>1, <5>2
        <5> QED
            BY <5>3 DEF ResponsesInv, ResponsesBounded
      <4>2. CASE t = turns
        <5> DEFINE range == (Len(ids) + 1)..(Len(ids) + Len(new))
        <5>1. ToolTokens(t)' \subseteq range
          <6>1. ASSUME NEW i \in 1..Len(ids'), ids'[i].turn = t, ids'[i].by # "model"
                PROVE  i \notin 1..Len(ids)
            BY <6>1, <2>4, <4>2, <1>1
          <6>2. Len(ids') = Len(ids) + Len(new)
            BY <2>2 DEF Grows
          <6> QED
            BY <6>1, <6>2, <1>1, <1>3 DEF ToolTokens
        <5>2. IsFiniteSet(range) /\ Cardinality(range) = Len(new)
          <6>1. Len(ids) + 1 \in Int /\ Len(ids) + Len(new) \in Int
            BY <1>1, <1>3
          <6>2. IsFiniteSet(range) /\
                Cardinality(range) = IF Len(ids) + 1 > Len(ids) + Len(new) THEN 0
                                     ELSE Len(ids) + Len(new) - (Len(ids) + 1) + 1
            BY <6>1, FS_Interval
          <6> QED
            BY <6>2, <1>1, <1>3
        <5> HIDE DEF range
        <5>3. IsFiniteSet(ToolTokens(t)') /\ Cardinality(ToolTokens(t)') <= Len(new)
            BY <5>1, <5>2, FS_Subset
        <5>4. Cardinality(ToolTokens(t)') \in Nat
            BY <5>3, FS_CardinalityType
        <5> QED
            BY <5>3, <5>4, <1>2, <1>3, ConfigAssumption
      <4> QED
        BY <1>1, <4>1, <4>2
    <3> QED
        BY <1>1, <3>1 DEF ResponsesBounded
  <2> QED
    BY <2>5, <2>6, <2>8, <2>9 DEF ResponsesInv, ResponsesClosed
<1> QED
    BY <1>5, <1>6

\* The text of a tool response is plain.
LEMMA RespondPlain ==
    ASSUME IInv, NEW c \in Nat, NEW counted, Respond(c, counted)
    PROVE  PlainContent' /\ pc' = "observe" /\ UNCHANGED <<ids, turns>>
<1> DEFINE token(p, i) == [by |-> p, turn |-> turns, pos |-> i]
           text == [i \in 1..c |-> token("text", i)]
           instruction == token("instruction", c + 1)
<1>1. content' = text \/ content' = Append(text, instruction)
    BY DEF Respond
<1>2. pc' = "observe" /\ UNCHANGED <<ids, turns>> /\ turns \in Nat
    BY DEF Respond, IInv, Phases
<1>3. /\ text \in Seq(Token) /\ Len(text) = c
      /\ \A i \in 1..c : text[i].by = "text" /\ text[i].turn = turns
    BY <1>2 DEF Token, ToolParts
<1>4. /\ instruction \in Token /\ instruction.by = "instruction"
      /\ instruction.turn = turns
    BY <1>2 DEF Token, ToolParts
<1> HIDE DEF text, instruction
<1>5. /\ Len(Append(text, instruction)) = c + 1
      /\ Append(text, instruction)[c + 1] = instruction
      /\ \A i \in 1..c : Append(text, instruction)[i] = text[i]
    BY <1>3, <1>4
<1>6. \A i \in 1..(c + 1) : i \in 1..c \/ i = c + 1
    OBVIOUS
<1> QED
    BY <1>1, <1>2, <1>3, <1>4, <1>5, <1>6 DEF PlainContent

LEMMA NextResponses == IInv /\ ResponsesInv /\ [Next]_vars => ResponsesInv'
<1> SUFFICES ASSUME IInv, ResponsesInv, [Next]_vars PROVE ResponsesInv'
    OBVIOUS
<1>0. turns \in Nat /\ pc \in {"turn", "tool", "observe", "done", "failed"}
    BY DEF IInv, Phases
<1>1. CASE UNCHANGED vars
  <2>1. UNCHANGED <<pc, ids, turns, content>>
    BY <1>1 DEF vars
  <2>2. PlainContent'
    BY <2>1 DEF ResponsesInv, PlainContent
  <2> QED
    BY <1>0, <2>1, <2>2, ResponsesUnchanged
<1>2. CASE LoopExit \/ GenerateNothing
  <2>1. /\ pc = "turn" /\ pc' = "done" /\ UNCHANGED ids
        /\ turns' = turns \/ turns' = turns + 1
    BY <1>2 DEF LoopExit, GenerateNothing, CanGenerate
  <2> QED
    BY <1>0, <2>1, ResponsesUnchanged
<1>3. CASE GenerateRaises
  <2>1. pc = "turn" /\ pc' = "failed" /\ UNCHANGED <<ids, turns>>
        /\ Len(ids) \in Nat /\ Remaining > 0
    BY <1>3 DEF GenerateRaises, CanGenerate, IInv, Sequences3, Marks
  <2>2. Len(ids) < ResponseLength
    BY <2>1, ConfigAssumption DEF Remaining
  <2> QED
    BY <1>0, <2>1, <2>2, ResponsesUnchanged
<1>4. CASE RenderRaises
  <2>1. pc = "observe" /\ pc' = "failed" /\ UNCHANGED <<ids, turns>>
    BY <1>4 DEF RenderRaises
  <2> QED
    BY <1>0, <2>1, ResponsesUnchanged
<1>5. ASSUME NEW n \in 1..GenMax, NEW withLogprobs \in BOOLEAN,
             NEW k \in 0..GenMax, NEW a \in Actions,
             \/ GenerateAnswer(n, withLogprobs, k) /\ a = "answer"
             \/ GenerateIgnored(n, a, withLogprobs, k)
             \/ GenerateCall(n, a, withLogprobs, k)
      PROVE  ResponsesInv'
  <2>1. Generate(n, a, withLogprobs, k) /\ pc' \in {"tool", "done"}
    BY <1>5 DEF GenerateAnswer, GenerateIgnored, GenerateCall
  <2>2. n \in Nat /\ k \in Nat
    BY ConfigAssumption
  <2> QED
    BY <2>1, <2>2, GenerateWhole
<1>6. ASSUME NEW c \in 0..ContentMax,
             ToolSucceeds(c) \/ ToolFails(c) \/ RejectCall(c)
      PROVE  ResponsesInv'
  <2>1. pc = "tool" /\ c \in Nat
    BY <1>6, ConfigAssumption DEF ToolSucceeds, ToolFails, RejectCall
  <2>2. PICK counted : Respond(c, counted)
    BY <1>6 DEF ToolSucceeds, ToolFails, RejectCall
  <2>3. PlainContent' /\ pc' = "observe" /\ UNCHANGED <<ids, turns>>
    BY <2>1, <2>2, RespondPlain
  <2> QED
    BY <1>0, <2>1, <2>3, ResponsesUnchanged
<1>7. CASE AppendObservation
    BY <1>7, ObservationWhole
<1>8. "answer" \in Actions
    BY DEF Actions
<1> QED
    BY <1>1, <1>2, <1>3, <1>4, <1>5, <1>6, <1>7, <1>8 DEF Next

\* A rendered response is never shorter than its wrapper.
LEMMA RenderedLong ==
    ASSUME ContentFromTools, NEW t \in Nat, MaxObsLength >= WrapperLength
    PROVE  Len(Rendered(t, content)) \in Nat /\ Len(Rendered(t, content)) >= 2
<1> DEFINE open == <<[by |-> "open", turn |-> t, pos |-> 0]>>
           close == <<[by |-> "close", turn |-> t, pos |-> 0]>>
           kept == Take(content, MaxObsLength - WrapperLength)
<1>1. /\ open \in Seq(Token) /\ Len(open) = 1
      /\ close \in Seq(Token) /\ Len(close) = 1
    BY DEF Token, ToolParts
<1>2. kept \in Seq(Token) /\ Len(kept) \in Nat
  <2>1. MaxObsLength - WrapperLength \in Nat
    BY ConfigAssumption DEF WrapperLength
  <2> QED
    BY <2>1, TakePrefix DEF ContentFromTools
<1>3. Rendered(t, content) = (open \o kept) \o close
    BY DEF Rendered
<1> HIDE DEF open, close, kept
<1>4. open \o kept \in Seq(Token) /\ Len(open \o kept) = 1 + Len(kept)
    BY <1>1, <1>2, ConcatType
<1>5. Len((open \o kept) \o close) = Len(kept) + 2
    BY <1>1, <1>2, <1>4, ConcatType
<1> QED
    BY <1>2, <1>3, <1>5

\* An answer-only turn is taken away by a full response budget alone.
LEMMA NextGranted == IInv /\ AnswerOnlyTurnGranted /\ [Next]_vars
                        => AnswerOnlyTurnGranted'
<1> SUFFICES ASSUME IInv, AnswerOnlyTurnGranted, [Next]_vars,
                    pc' = "done", stats'.attempts = MaxTurns
             PROVE  turns' = MaxTurns + 1 \/ Len(ids') = ResponseLength
    BY DEF AnswerOnlyTurnGranted
<1>0. /\ turns \in Nat /\ stats \in Stats /\ stats.attempts \in Nat
      /\ stats.attempts <= MaxTurns /\ MaxTurns \in Nat
      /\ pc \in {"turn", "tool", "observe"} => turns = stats.attempts
      /\ Len(ids) \in Nat /\ Len(ids) <= ResponseLength /\ ResponseLength \in Nat
    BY MaxTurnsNat, ConfigAssumption DEF IInv, Phases, Sequences3, Marks, Stats
<1>1. CASE UNCHANGED vars
    BY <1>1 DEF vars, AnswerOnlyTurnGranted
<1>2. CASE LoopExit
  <2>1. pc = "turn" /\ UNCHANGED <<turns, ids>>
        /\ (turns >= MaxTurns + 1 \/ Remaining <= 0)
    BY <1>2 DEF LoopExit
  <2> QED
    BY <1>0, <2>1 DEF Remaining
<1>3. CASE GenerateNothing
  <2>1. pc = "turn" /\ turns' = turns + 1 /\ UNCHANGED stats
    BY <1>3 DEF GenerateNothing, CanGenerate
  <2> QED
    BY <1>0, <2>1
<1>4. ASSUME NEW n \in 1..GenMax, NEW withLogprobs \in BOOLEAN,
             NEW k \in 0..GenMax, NEW a \in Actions,
             \/ GenerateAnswer(n, withLogprobs, k)
             \/ GenerateIgnored(n, a, withLogprobs, k)
      PROVE  turns' = MaxTurns + 1
  <2>1. pc = "turn" /\ turns' = turns + 1
    BY <1>4 DEF GenerateAnswer, GenerateIgnored, Generate, CanGenerate
  <2>2. stats'.attempts = stats.attempts
    BY <1>4, <1>0 DEF GenerateAnswer, GenerateIgnored, Stats
  <2> QED
    BY <1>0, <2>1, <2>2
<1>5. ASSUME NEW n \in 1..GenMax, NEW withLogprobs \in BOOLEAN,
             NEW k \in 0..GenMax, NEW a \in Actions,
             GenerateCall(n, a, withLogprobs, k)
      PROVE  FALSE
    BY <1>5 DEF GenerateCall
<1>6. ASSUME NEW c \in 0..ContentMax,
             ToolSucceeds(c) \/ ToolFails(c) \/ RejectCall(c)
      PROVE  FALSE
    BY <1>6 DEF ToolSucceeds, ToolFails, RejectCall, Respond
<1>7. CASE GenerateRaises \/ RenderRaises
    BY <1>7 DEF GenerateRaises, RenderRaises
<1>8. CASE AppendObservation
  <2> DEFINE all == Rendered(turns, content)
  <2>1. all \in Seq(Token) /\ Len(all) \in Nat /\ Len(all) >= 2
    BY <1>0, <1>8, RenderedTokens, RenderedLong DEF AppendObservation, IInv
  <2>2. Take(all, Remaining) = <<>> /\ UNCHANGED ids
    BY <1>8 DEF AppendObservation
  <2> HIDE DEF all
  <2>3. Remaining \in Nat
    BY <1>0 DEF Remaining
  <2>4. Remaining = 0
    BY <2>1, <2>2, <2>3 DEF Take
  <2> QED
    BY <1>0, <2>2, <2>4 DEF Remaining
<1>9. "answer" \in Actions
    BY DEF Actions
<1> QED
    BY <1>1, <1>2, <1>3, <1>4, <1>5, <1>6, <1>7, <1>8, <1>9 DEF Next

-----------------------------------------------------------------------------
(* The theorems.                                                           *)

\* Type correctness of the rollout loop.
THEOREM TypeCorrect == Spec => []TypeOK
<1>1. IInv => TypeOK
  <2> SUFFICES ASSUME IInv PROVE TypeOK
    OBVIOUS
  <2>1. ids \in Seq(Token) /\ mask \in Seq(0..1) /\ hasLogprobs \in BOOLEAN
    BY DEF IInv, Sequences3, Marks
  <2>2. logprobs \in Seq(Token \union {ZeroLogprob})
    <3>1. CASE hasLogprobs
        BY <3>1 DEF IInv, Sequences3, LogprobsOf
    <3>2. CASE ~hasLogprobs
        BY <3>2 DEF IInv, Sequences3
    <3> QED
        BY <3>1, <3>2
  <2> QED
    BY <2>1, <2>2 DEF IInv, ContentFromTools, Phases, TypeOK
<1> QED
    BY <1>1, IInvAlways, PTL

\* Tokens, mask and log probabilities stay in step and within the response
\* budget, no token of a tool response is ever trained on, and a log
\* probability never stands beside another token than its own: for every
\* response_length, max_obs_length and max_turns.
THEOREM AlignedAlways == Spec => []TrainerInputAligned
<1>1. IInv => Aligned
    BY DEF IInv, Sequences3, Marks, LogprobsOf, Aligned
<1>2. IInv => MaskMarksModelTokens
    BY DEF IInv, Sequences3, Marks, MaskMarksModelTokens
<1>3. IInv => LogprobsBelongToTokens
    BY DEF IInv, Sequences3, LogprobsOf, LogprobsBelongToTokens
<1>4. IInv => TrainerInputAligned
    BY <1>1, <1>2, <1>3 DEF TrainerInputAligned
<1> QED
    BY <1>4, IInvAlways, PTL

\* The counters partition the attempts, the budget holds for every configured
\* max_turns, and the answer-only turn starts exactly when it is used up.
THEOREM BudgetCorrect == Spec => []BudgetAccounted
<1>1. IInv => AttemptsAccounted
    BY DEF IInv
<1>2. IInv => BudgetRespected
    BY MaxTurnsNat DEF IInv, Phases, BudgetRespected, Stats
<1>3. IInv => BudgetAccounted
    BY <1>1, <1>2 DEF BudgetAccounted
<1> QED
    BY <1>3, IInvAlways, PTL

\* The invariant behind the last two theorems about the response.
LEMMA ResponsesAlways == Spec => [](IInv /\ ResponsesInv)
<1>1. Init => ResponsesInv
  <2> SUFFICES ASSUME Init PROVE ResponsesInv
    OBVIOUS
  <2>1. pc = "turn" /\ turns = 0 /\ ids = <<>>
    BY DEF Init
  <2> QED
    BY <2>1 DEF ResponsesInv, PlainContent, TurnsSoFar, ResponsesClosed,
                ResponsesBounded
<1> QED
    BY <1>1, InitIInv, NextIInv, NextResponses, PTL DEF Spec

\* Whatever the lengths of the texts and of the budgets, no tool response
\* takes more than max_obs_length tokens, and one whose closing wrapper was
\* cut off ends the rollout: the model never continues from it.
THEOREM ResponsesAreWhole == Spec => []ToolResponsesWhole
<1>1. IInv /\ ResponsesInv => CutResponseIsLast
  <2> SUFFICES ASSUME IInv, ResponsesInv,
                      NEW i \in DOMAIN ids, ids[i].by = "open"
               PROVE  \/ \E j \in DOMAIN ids : ids[j] = [ids[i] EXCEPT !.by = "close"]
                      \/ ~CanGenerate /\ ids[Len(ids)].turn = ids[i].turn
    BY DEF CutResponseIsLast
  <2>1. ids \in Seq(Token) /\ DOMAIN ids = 1..Len(ids)
    BY DEF IInv, Sequences3, Marks
  <2>2. Closed(i) \/ CutIsEnd(i)
    BY <2>1 DEF ResponsesInv, ResponsesClosed
  <2>3. ASSUME CutIsEnd(i) PROVE ~CanGenerate
    <3>1. Remaining = 0
        BY <2>3, ConfigAssumption DEF CutIsEnd, Remaining
    <3> QED
        BY <3>1 DEF CanGenerate
  <2> QED
    BY <2>1, <2>2, <2>3 DEF Closed, CutIsEnd
<1>2. IInv /\ ResponsesInv => ObservationBounded
  <2> SUFFICES ASSUME IInv, ResponsesInv PROVE ObservationBounded
    OBVIOUS
  <2>1. DOMAIN ids = 1..Len(ids)
    BY DEF IInv, Sequences3, Marks
  <2> QED
    BY <2>1 DEF ResponsesInv, ResponsesBounded, ToolTokens, ObservationBounded
<1>3. IInv /\ ResponsesInv => ToolResponsesWhole
    BY <1>1, <1>2 DEF ToolResponsesWhole
<1> QED
    BY <1>3, ResponsesAlways, PTL

\* A rollout that used up its attempts still gets its answer-only generation,
\* for every max_turns, unless the response is full or the backend fails.
THEOREM AnswerOnlyGranted == Spec => []AnswerOnlyTurnGranted
<1>1. Init => AnswerOnlyTurnGranted
    BY DEF Init, AnswerOnlyTurnGranted
<1> QED
    BY <1>1, InitIInv, NextIInv, NextGranted, PTL DEF Spec

-----------------------------------------------------------------------------
(* The refinement of Dialogue.                                             *)

\* The stream of Dialogue is ids with mask, the writer instead of the token.
Stream == [i \in 1..Len(ids) |-> [writer |-> Writer(ids[i]), train |-> mask[i]]]
Speaker == IF pc = "turn" THEN "model"
           ELSE IF pc \in {"tool", "observe"} THEN "tool" ELSE "over"

\* What a step that appends tokens shows of itself in the stream.
LEMMA StreamGrows ==
    ASSUME Sequences3, Sequences3', NEW new, NEW w \in {"model", "tool"},
           Grows(new),
           \A i \in 1..Len(new) : new[i].by = "model" <=> w = "model"
    PROVE  /\ Len(Stream) <= Len(Stream') /\ Len(Stream') <= ResponseLength
           /\ \A i \in 1..Len(Stream) : Stream'[i] = Stream[i]
           /\ \A i \in (Len(Stream) + 1)..Len(Stream') :
                Stream'[i] = [writer |-> w, train |-> IF w = "model" THEN 1 ELSE 0]
<1>1. /\ ids \in Seq(Token) /\ Len(ids) \in Nat /\ Len(new) \in Nat
      /\ Len(ids') = Len(ids) + Len(new) /\ Len(ids') <= ResponseLength
    BY DEF Sequences3, Marks, Grows
<1>2. Len(Stream) = Len(ids) /\ Len(Stream') = Len(ids')
    BY <1>1 DEF Stream
<1>3. ASSUME NEW i \in 1..Len(ids)
      PROVE  Stream'[i] = Stream[i]
  <2>1. ids'[i] = ids[i] /\ i \in 1..Len(ids')
    BY <1>1 DEF Grows
  <2>2. mask[i] \in 0..1 /\ (mask[i] = 1 <=> ids[i].by = "model")
    BY DEF Sequences3, Marks
  <2>3. mask'[i] \in 0..1 /\ (mask'[i] = 1 <=> ids'[i].by = "model")
    BY <2>1 DEF Sequences3, Marks
  <2>4. mask'[i] = mask[i]
    BY <2>1, <2>2, <2>3
  <2> QED
    BY <2>1, <2>4 DEF Stream, Writer
<1>4. ASSUME NEW i \in (Len(ids) + 1)..Len(ids')
      PROVE  Stream'[i] = [writer |-> w, train |-> IF w = "model" THEN 1 ELSE 0]
  <2>1. i \in 1..Len(ids') /\ i \notin 1..Len(ids)
    BY <1>1
  <2>2. i - Len(ids) \in 1..Len(new) /\ ids'[i] = new[i - Len(ids)]
    BY <1>1, <2>1, GrownIndex
  <2>3. mask'[i] \in 0..1 /\ (mask'[i] = 1 <=> ids'[i].by = "model")
    BY <2>1 DEF Sequences3, Marks
  <2>4. ids'[i].by = "model" <=> w = "model"
    BY <2>2
  <2>5. mask'[i] = IF w = "model" THEN 1 ELSE 0
    BY <2>3, <2>4
  <2>6. Writer(ids'[i]) = w
    BY <2>4 DEF Writer
  <2>7. Stream'[i] = [writer |-> Writer(ids'[i]), train |-> mask'[i]]
    BY <2>1 DEF Stream
  <2> QED
    BY <2>5, <2>6, <2>7
<1> QED
    BY <1>1, <1>2, <1>3, <1>4

\* A generation is a turn of the model.
LEMMA ModelTurn ==
    ASSUME IInv, IInv', NEW n \in Nat, NEW a \in Actions,
           NEW withLogprobs \in BOOLEAN, NEW k \in Nat,
           Generate(n, a, withLogprobs, k),
           \/ pc' = "done" /\ stats'.attempts = stats.attempts
           \/ /\ pc' = "tool" /\ stats.attempts < MaxTurns
              /\ stats'.attempts = stats.attempts + 1
    PROVE  D!ModelSpeaks
<1> DEFINE new == Take(Generated(turns + 1, n), Remaining)
<1>1. Sequences3 /\ Sequences3'
    BY DEF IInv
<1>2. pc = "turn"
    BY DEF Generate, CanGenerate
<1>3. /\ Remaining \in Nat /\ turns + 1 \in Nat
      /\ ids \in Seq(Token) /\ Len(ids) \in Nat
    BY ConfigAssumption DEF IInv, Phases, Sequences3, Remaining, Marks
<1>4. /\ new \in Seq(Token)
      /\ \A i \in 1..Len(new) : new[i].by = "model"
  <2> DEFINE all == Generated(turns + 1, n)
  <2>1. /\ all \in Seq(Token) /\ Len(all) = n
        /\ \A i \in 1..n : all[i].by = "model"
    BY <1>3, GeneratedTokens
  <2> HIDE DEF all
  <2>2. /\ Take(all, Remaining) \in Seq(Token)
        /\ \A i \in 1..Len(Take(all, Remaining)) : Take(all, Remaining)[i].by = "model"
    BY <1>3, <2>1, TakePrefix
  <2> QED
    BY <2>2 DEF all
<1>5. ids' = ids \o new
    BY DEF Generate, AppendGeneration
<1> HIDE DEF new
<1>6. Grows(new)
    BY <1>3, <1>4, <1>5, GrowsBy
<1>7. D!Speaks("model")
    BY <1>1, <1>4, <1>6, StreamGrows DEF D!Speaks, Stream
<1>8. Speaker = "model"
    BY <1>2 DEF Speaker
<1>9. \/ Speaker' = "over" /\ stats'.attempts = stats.attempts
      \/ Speaker' = "tool" /\ stats.attempts < MaxTurns
         /\ stats'.attempts = stats.attempts + 1
    BY DEF Speaker
<1> QED
    BY <1>7, <1>8, <1>9 DEF D!ModelSpeaks, Speaker

\* Appending a tool response is a turn of the tool, and a response that no
\* longer fits stops the dialogue.
LEMMA ToolTurn ==
    ASSUME IInv, IInv', AppendObservation
    PROVE  D!ToolSpeaks \/ D!Stop
<1> DEFINE all == Rendered(turns, content)
           new == Take(all, Remaining)
<1>1. /\ Sequences3 /\ Sequences3' /\ pc = "observe" /\ stats' = stats
    BY DEF IInv, AppendObservation
<1>2. /\ Remaining \in Nat /\ turns \in Nat
      /\ ids \in Seq(Token) /\ Len(ids) \in Nat /\ MaxObsLength >= WrapperLength
    BY ConfigAssumption DEF IInv, Phases, Sequences3, Remaining, Marks,
                            AppendObservation
<1>3. /\ new \in Seq(Token)
      /\ \A i \in 1..Len(new) : new[i].by # "model"
  <2>1. /\ all \in Seq(Token)
        /\ \A i \in 1..Len(all) : all[i].by # "model"
    BY <1>2, RenderedTokens DEF IInv, ToolParts
  <2> HIDE DEF all
  <2>2. Len(all) \in Nat
    BY <2>1
  <2>3. /\ new \in Seq(Token) /\ Len(new) \in Nat /\ Len(new) <= Len(all)
        /\ \A i \in 1..Len(new) : new[i] = all[i]
    BY <1>2, <2>1, TakePrefix
  <2> HIDE DEF new
  <2> QED
    BY <2>1, <2>2, <2>3
<1>4. \/ pc' = "done" /\ UNCHANGED <<ids, mask>>
      \/ pc' = "turn" /\ ids' = ids \o new
    BY DEF AppendObservation
<1> HIDE DEF new
<1>5. CASE pc' = "done" /\ UNCHANGED <<ids, mask>>
  <2>1. Speaker = "tool" /\ Speaker' = "over" /\ UNCHANGED Stream
    BY <1>1, <1>5 DEF Speaker, Stream
  <2> QED
    BY <1>1, <2>1 DEF D!Stop, Speaker, Stream
<1>6. CASE pc' = "turn" /\ ids' = ids \o new
  <2>1. Grows(new)
    BY <1>2, <1>3, <1>6, GrowsBy
  <2>2. D!Speaks("tool")
    BY <1>1, <1>3, <2>1, StreamGrows DEF D!Speaks, Stream
  <2>3. Speaker = "tool" /\ Speaker' = "model"
    BY <1>1, <1>6 DEF Speaker
  <2> QED
    BY <1>1, <2>2, <2>3 DEF D!ToolSpeaks, Speaker
<1> QED
    BY <1>4, <1>5, <1>6

\* Leaving the loop without a token stops the dialogue.
LEMMA StopTurn ==
    ASSUME pc \in {"turn", "tool", "observe"}, pc' \in {"done", "failed"},
           UNCHANGED <<ids, mask, stats>>
    PROVE  D!Stop
<1>1. Speaker # "over" /\ Speaker' = "over" /\ UNCHANGED Stream
    BY DEF Speaker, Stream
<1> QED
    BY <1>1 DEF D!Stop, Speaker, Stream

LEMMA StepIsDialogue ==
    ASSUME IInv, IInv', [Next]_vars
    PROVE  [D!Next]_(D!vars)
<1>1. CASE UNCHANGED vars
  <2>1. UNCHANGED <<pc, ids, mask, stats>>
    BY <1>1 DEF vars
  <2> QED
    BY <2>1 DEF D!vars
<1>2. CASE LoopExit \/ GenerateRaises \/ GenerateNothing \/ RenderRaises
  <2>1. /\ pc \in {"turn", "tool", "observe"} /\ pc' \in {"done", "failed"}
        /\ UNCHANGED <<ids, mask, stats>>
    BY <1>2 DEF LoopExit, GenerateRaises, GenerateNothing, RenderRaises, CanGenerate
  <2> QED
    BY <2>1, StopTurn DEF D!Next
<1>3. ASSUME NEW n \in 1..GenMax, NEW withLogprobs \in BOOLEAN,
             NEW k \in 0..GenMax, NEW a \in Actions,
             \/ GenerateAnswer(n, withLogprobs, k) /\ a = "answer"
             \/ GenerateIgnored(n, a, withLogprobs, k)
             \/ GenerateCall(n, a, withLogprobs, k)
      PROVE  D!ModelSpeaks
  <2>1. /\ n \in Nat /\ k \in Nat /\ stats \in Stats /\ stats.attempts \in Nat
        /\ stats.attempts <= MaxTurns /\ MaxTurns \in Nat
        /\ pc \in {"turn", "observe"} => (answerOnly <=> stats.attempts = MaxTurns)
    BY ConfigAssumption, MaxTurnsNat DEF IInv, Phases, Stats
  <2>2. Generate(n, a, withLogprobs, k) /\ pc = "turn"
    BY <1>3 DEF GenerateAnswer, GenerateIgnored, GenerateCall, Generate, CanGenerate
  <2>3. CASE GenerateAnswer(n, withLogprobs, k) \/ GenerateIgnored(n, a, withLogprobs, k)
    <3>1. pc' = "done" /\ stats'.attempts = stats.attempts
        BY <2>1, <2>3 DEF GenerateAnswer, GenerateIgnored, Stats
    <3> QED
        BY <2>1, <2>2, <3>1, ModelTurn
  <2>4. CASE GenerateCall(n, a, withLogprobs, k)
    <3>1. pc' = "tool" /\ stats'.attempts = stats.attempts + 1 /\ ~answerOnly
        BY <2>1, <2>4 DEF GenerateCall, Stats
    <3>2. stats.attempts < MaxTurns
        BY <2>1, <2>2, <3>1
    <3> QED
        BY <2>1, <2>2, <3>1, <3>2, ModelTurn
  <2> QED
    BY <1>3, <2>3, <2>4
<1>4. ASSUME NEW c \in 0..ContentMax,
             ToolSucceeds(c) \/ ToolFails(c) \/ RejectCall(c)
      PROVE  UNCHANGED D!vars
  <2>0. /\ stats \in Stats /\ stats.valid + 1 \in Nat /\ stats.search + 1 \in Nat
        /\ stats.vision + 1 \in Nat
    BY DEF IInv, Phases, Stats
  <2>1. PICK counted \in Stats :
            Respond(c, counted) /\ counted.attempts = stats.attempts
    <3>1. ASSUME ToolSucceeds(c), action = "search"
          PROVE  \E counted \in Stats :
                    Respond(c, counted) /\ counted.attempts = stats.attempts
      <4> DEFINE s == [stats EXCEPT !.valid = @ + 1, !.search = @ + 1]
      <4>1. Respond(c, s)
        BY <3>1 DEF ToolSucceeds
      <4>2. s.attempts = stats.attempts
        BY <2>0 DEF Stats
      <4>3. s \in Stats
        BY <2>0, TwoCounters, Zenon
      <4> HIDE DEF s
      <4> QED
        BY <4>1, <4>2, <4>3
    <3>2. ASSUME ToolSucceeds(c), action # "search"
          PROVE  \E counted \in Stats :
                    Respond(c, counted) /\ counted.attempts = stats.attempts
      <4> DEFINE s == [stats EXCEPT !.valid = @ + 1, !.vision = @ + 1]
      <4>1. Respond(c, s)
        BY <3>2 DEF ToolSucceeds
      <4>2. s.attempts = stats.attempts
        BY <2>0 DEF Stats
      <4>3. s \in Stats
        BY <2>0, TwoCounters, Zenon
      <4> HIDE DEF s
      <4> QED
        BY <4>1, <4>2, <4>3
    <3>3. ASSUME ToolFails(c)
          PROVE  \E counted \in Stats :
                    Respond(c, counted) /\ counted.attempts = stats.attempts
        BY <3>3, <2>0 DEF ToolFails, Stats
    <3>4. ASSUME RejectCall(c)
          PROVE  \E counted \in Stats :
                    Respond(c, counted) /\ counted.attempts = stats.attempts
        BY <3>4, <2>0 DEF RejectCall, Stats
    <3> QED
        BY <1>4, <3>1, <3>2, <3>3, <3>4
  <2>2. /\ pc = "tool" /\ pc' = "observe" /\ UNCHANGED <<ids, mask>>
        /\ stats'.attempts = stats.attempts
    BY <1>4, <2>1 DEF ToolSucceeds, ToolFails, RejectCall, Respond, Stats
  <2> QED
    BY <2>2 DEF D!vars
<1>5. CASE AppendObservation
    BY <1>5, ToolTurn DEF D!Next
<1>6. "answer" \in Actions
    BY DEF Actions
<1> QED
    BY <1>1, <1>2, <1>3, <1>4, <1>5, <1>6 DEF Next, D!Next

\* The loop keeps the promise of Dialogue: model and tools strictly
\* alternate in a stream of at most response_length tokens that only grows,
\* trained on exactly where the model wrote, with at most max_turns calls;
\* whatever is cut, fails or is aborted on the way.
THEOREM RolloutIsDialogue == Spec => ImplementsDialogue
<1>1. Init => D!Init
    BY DEF Init, D!Init
<1>2. IInv /\ IInv' /\ [Next]_vars => [D!Next]_(D!vars)
    BY StepIsDialogue
<1> QED
    BY <1>1, <1>2, IInvAlways, PTL DEF Spec, ImplementsDialogue, D!Spec
=============================================================================
