---------------------------- MODULE RewardProofs ----------------------------
(***************************************************************************)
(* For every vocabulary and every number of attempts up to the limit of    *)
(* the agent loop: the two readers of a trajectory agree, the reward pays  *)
(* only for the judge's explicit verdict, and a correct, well-formed       *)
(* rollout outscores every wrong one.                                      *)
(*                                                                         *)
(* validate_sequence and extract_answer are recursive along the text.      *)
(* That their functions exist is proved from the end of the text, by its   *)
(* last position where they would not (TurnUnfolds, LastUnfolds); after    *)
(* that, each turn can be read off from the next.  The rollout's own       *)
(* invariant (TextInv) looks ahead: a response whose turns were well       *)
(* formed is Passed, which says of every text that begins with it that it  *)
(* is in the format exactly if the rest is.                                *)
(***************************************************************************)
EXTENDS Reward, FiniteSetTheorems, SequenceTheorems, WellFoundedInduction,
        NaturalsInduction, TLAPS

-----------------------------------------------------------------------------
(* Numbers.                                                                *)

\* A set of numbers has a least one,
LEMMA LeastOf ==
    ASSUME NEW S, S \subseteq Nat, S # {}
    PROVE  \E k \in S : \A j \in S : k <= j
<1>1. PICK k \in S : \A j \in S : <<j, k>> \notin OpToRel(<, Nat)
    BY WFMin, NatLessThanWellFounded, Zenon
<1>2. \A j \in S : ~(j < k)
    BY <1>1 DEF OpToRel
<1> QED
    BY <1>2

\* and one below n a greatest.
LEMMA GreatestOf ==
    ASSUME NEW n \in Nat, NEW S, S \subseteq 0..n, S # {}
    PROVE  \E k \in S : \A j \in S : j <= k
<1> DEFINE R == {i \in Nat : i <= n /\ n - i \in S}
<1>1. R \subseteq Nat /\ R # {}
  <2>1. PICK j \in S : TRUE
    OBVIOUS
  <2>2. n - j \in Nat /\ n - j <= n /\ n - (n - j) = j
    BY <2>1
  <2>3. n - j \in R
    BY <2>1, <2>2
  <2> QED
    BY <2>3
<1>2. PICK i \in R : \A j \in R : i <= j
  <2> HIDE DEF R
  <2> QED
    BY <1>1, LeastOf
<1>3. ASSUME NEW j \in S PROVE j <= n - i
  <2>1. j \in Nat /\ n - j \in Nat /\ n - j <= n /\ n - (n - j) = j
    OBVIOUS
  <2>2. n - j \in R
    BY <2>1
  <2> QED
    BY <2>1, <2>2, <1>2
<1> QED
    BY <1>2, <1>3

-----------------------------------------------------------------------------
\* A text is a sequence of symbols.
LEMMA SymbolAt ==
    ASSUME NEW t \in Seq(Symbols)
    PROVE  /\ Len(t) \in Nat /\ DOMAIN t = 1..Len(t)
           /\ \A i \in 1..Len(t) : t[i] \in Symbols
BY LenProperties, ElementOfSeq

\* What stands between two positions.
LEMMA InsideFacts ==
    ASSUME NEW t \in Seq(Symbols), NEW c \in Nat, NEW e \in 1..Len(t), c < e
    PROVE  /\ Inside(t, c, e) \in Seq(Symbols)
           /\ Len(Inside(t, c, e)) = e - c - 1
           /\ \A i \in 1..(e - c - 1) : Inside(t, c, e)[i] = t[c + i]
<1> DEFINE p == c + 1
           q == e - 1
           u == SubSeq(t, p, q)
<1>1. Len(t) \in Nat /\ p \in Int /\ q \in Int /\ p >= 1 /\ q <= Len(t)
    BY SymbolAt
<1>2. q - p + 1 = e - c - 1 /\ e - c - 1 \in Nat
      /\ \A i \in Int : p + i - 1 = c + i
    BY <1>1
<1>3. u = Inside(t, c, e)
    BY DEF Inside
<1> HIDE DEF p, q
<1>4. \A i \in p..q : t[i] \in Symbols
    BY <1>1, SymbolAt
<1>5. /\ u \in Seq(Symbols)
      /\ Len(u) = IF p <= q THEN q - p + 1 ELSE 0
      /\ \A i \in 1..(q - p + 1) : u[i] = t[p + i - 1]
    BY <1>1, <1>4, SubSeqProperties
<1> HIDE DEF u
<1>6. Len(u) = e - c - 1
    BY <1>1, <1>2, <1>5
<1>7. ASSUME NEW i \in 1..(e - c - 1) PROVE u[i] = t[c + i]
  <2>1. i \in 1..(q - p + 1) /\ p + i - 1 = c + i
    BY <1>2
  <2>2. u[i] = t[p + i - 1]
    BY <1>5, <2>1
  <2> QED
    BY <2>1, <2>2
<1> QED
    BY <1>3, <1>5, <1>6, <1>7

\* e is the first position behind c with symbol s.
FirstAfter(t, c, e, s) ==
    /\ e \in 1..Len(t) /\ e > c /\ t[e] = s
    /\ \A j \in 1..Len(t) : j > c /\ j < e => t[j] # s

NoneAfter(t, c, s) == \A j \in 1..Len(t) : j > c => t[j] # s

\* Find returns 0, or the first position it may return,
LEMMA FindFacts ==
    ASSUME NEW t \in Seq(Symbols), NEW c \in Int, NEW s
    PROVE  \/ /\ Find(t, c, s) = 0
              /\ \A j \in 1..Len(t) : j >= c => t[j] # s
           \/ /\ Find(t, c, s) \in 1..Len(t)
              /\ Find(t, c, s) >= c
              /\ t[Find(t, c, s)] = s
              /\ \A j \in 1..Len(t) : j >= c /\ j < Find(t, c, s) => t[j] # s
<1> DEFINE later == {i \in Positions(t, s) : i >= c}
<1>1. Len(t) \in Nat /\ DOMAIN t = 1..Len(t)
    BY SymbolAt
<1>2. \A i : i \in later <=> i \in 1..Len(t) /\ t[i] = s /\ i >= c
    BY <1>1 DEF Positions
<1>3. CASE later = {}
  <2>1. Find(t, c, s) = 0
    BY <1>3 DEF Find
  <2> QED
    BY <1>2, <1>3, <2>1
<1>4. CASE later # {}
  <2>1. Find(t, c, s) = CHOOSE i \in later : \A j \in later : i <= j
    BY <1>4 DEF Find
  <2> DEFINE p == Find(t, c, s)
  <2>2. p \in later /\ \A j \in later : p <= j
    <3>1. later \subseteq Nat
      BY <1>2
    <3>2. \E i \in later : \A j \in later : i <= j
      <4> HIDE DEF later
      <4> QED
        BY <1>4, <3>1, LeastOf
    <3> HIDE DEF later, p
    <3>3. p = CHOOSE i \in later : \A j \in later : i <= j
      BY <2>1 DEF p
    <3> QED
      BY <3>2, <3>3, Zenon
  <2>3. \A j \in 1..Len(t) : j >= c /\ t[j] = s => p <= j
    BY <1>2, <2>2
  <2>4. p \in 1..Len(t) /\ t[p] = s /\ p >= c
    BY <1>2, <2>2
  <2> HIDE DEF p, later
  <2>5. \A j \in 1..Len(t) : j >= c /\ j < p => t[j] # s
    BY <2>3, <2>4, <1>1
  <2> QED
    BY <2>4, <2>5 DEF p
<1> QED
    BY <1>3, <1>4

\* which is the only one,
LEMMA FindIs ==
    ASSUME NEW t \in Seq(Symbols), NEW c \in Int, NEW s,
           NEW p \in 1..Len(t), p >= c, t[p] = s,
           \A j \in 1..Len(t) : j >= c /\ j < p => t[j] # s
    PROVE  Find(t, c, s) = p
<1>1. Len(t) \in Nat
    BY SymbolAt
<1> DEFINE q == Find(t, c, s)
<1>2. \/ \A j \in 1..Len(t) : j >= c => t[j] # s
      \/ /\ q \in 1..Len(t) /\ q >= c /\ t[q] = s
         /\ \A j \in 1..Len(t) : j >= c /\ j < q => t[j] # s
    BY FindFacts
<1> HIDE DEF q
<1>3. q = p
    BY <1>1, <1>2
<1> QED
    BY <1>3 DEF q

\* and 0 when there is none.
LEMMA FindNone ==
    ASSUME NEW t \in Seq(Symbols), NEW c \in Int, NEW s,
           \A j \in 1..Len(t) : j >= c => t[j] # s
    PROVE  Find(t, c, s) = 0
<1> DEFINE q == Find(t, c, s)
<1>2. \/ q = 0
      \/ q \in 1..Len(t) /\ q >= c /\ t[q] = s
    BY FindFacts
<1> HIDE DEF q
<1>3. q = 0
    BY <1>2
<1> QED
    BY <1>3 DEF q

-----------------------------------------------------------------------------
\* A block is closed at the first closing tag after its start.
LEMMA ClosesFacts ==
    ASSUME NEW t \in Seq(Symbols), NEW c \in Int, NEW open, NEW close,
           Closes(t, c, open, close) # 0
    PROVE  /\ c \in 1..Len(t) /\ t[c] = open
           /\ FirstAfter(t, c, Closes(t, c, open, close), close)
           /\ Closes(t, c, open, close) \in (c + 1)..Len(t)
           /\ t[Closes(t, c, open, close)] = close
<1>1. /\ c \in DOMAIN t /\ t[c] = open
      /\ Closes(t, c, open, close) = Find(t, c + 1, close)
    BY DEF Closes
<1>2. Len(t) \in Nat /\ DOMAIN t = 1..Len(t)
    BY SymbolAt
<1> DEFINE p == Find(t, c + 1, close)
<1>3. /\ p \in 1..Len(t) /\ p >= c + 1 /\ t[p] = close
      /\ \A j \in 1..Len(t) : j >= c + 1 /\ j < p => t[j] # close
  <2>1. p # 0 /\ c + 1 \in Int
    BY <1>1
  <2> QED
    BY <2>1, FindFacts
<1> HIDE DEF p
<1>4. /\ p \in (c + 1)..Len(t)
      /\ p \in 1..Len(t) /\ p > c
      /\ \A j \in 1..Len(t) : j > c /\ j < p => t[j] # close
    BY <1>2, <1>3
<1>5. FirstAfter(t, c, p, close)
    BY <1>3, <1>4 DEF FirstAfter
<1> QED
    BY <1>1, <1>2, <1>3, <1>4, <1>5 DEF p

\* So a block is closed where its closing tag is first.
LEMMA ClosesAt ==
    ASSUME NEW t \in Seq(Symbols), NEW open, NEW close, NEW c, NEW e,
           c \in 1..Len(t), t[c] = open, FirstAfter(t, c, e, close)
    PROVE  Closes(t, c, open, close) = e
<1>1. Len(t) \in Nat /\ DOMAIN t = 1..Len(t)
    BY SymbolAt
<1>2. Closes(t, c, open, close) = Find(t, c + 1, close)
    BY <1>1 DEF Closes
<1>3. e \in 1..Len(t) /\ e > c /\ t[e] = close
    BY DEF FirstAfter
<1>4. /\ c + 1 \in Int /\ e >= c + 1
      /\ \A j \in 1..Len(t) : j >= c + 1 /\ j < e => t[j] # close
    BY <1>1, <1>3 DEF FirstAfter
<1> QED
    BY <1>2, <1>3, <1>4, FindIs

\* A text without the tag has no block,
LEMMA NeverClosed ==
    ASSUME NEW t \in Seq(Symbols), NEW open, NEW close, NEW c \in Int,
           \/ c \notin 1..Len(t)
           \/ t[c] # open
           \/ NoneAfter(t, c, close)
    PROVE  Closes(t, c, open, close) = 0
<1>1. Len(t) \in Nat /\ DOMAIN t = 1..Len(t)
    BY SymbolAt
<1>2. CASE c \notin 1..Len(t) \/ t[c] # open
    BY <1>1, <1>2 DEF Closes
<1>3. CASE NoneAfter(t, c, close)
  <2>1. \A j \in 1..Len(t) : j >= c + 1 => t[j] # close
    BY <1>1, <1>3 DEF NoneAfter
  <2>2. Find(t, c + 1, close) = 0
    BY <2>1, FindNone
  <2> QED
    BY <2>2 DEF Closes
<1> QED
    BY <1>2, <1>3

\* a role name is skipped if it is there,
LEMMA SkipFacts ==
    ASSUME NEW t \in Seq(Symbols), NEW c \in Int, NEW role
    PROVE  /\ Skip(t, c, role) \in {c, c + 1}
           /\ c \in 1..Len(t) /\ t[c] = role => Skip(t, c, role) = c + 1
           /\ c \notin 1..Len(t) => Skip(t, c, role) = c
BY SymbolAt DEF Skip

\* and a thought ends at its first closing tag and is not empty.
LEMMA AfterThinkFacts ==
    ASSUME NEW t \in Seq(Symbols), NEW c \in Nat, AfterThink(t, c) # 0
    PROVE  /\ c \in 1..Len(t) /\ t[c] = "<think>"
           /\ AfterThink(t, c) \in (c + 3)..(Len(t) + 1)
           /\ FirstAfter(t, c, AfterThink(t, c) - 1, "</think>")
<1> DEFINE e == Closes(t, c, "<think>", "</think>")
           a == AfterThink(t, c)
<1>1. a # 0 /\ a = IF e > c + 1 THEN e + 1 ELSE 0
    BY DEF AfterThink
<1>2. Len(t) \in Nat
    BY SymbolAt
<1>3. e # 0
  <2> HIDE DEF e, a
  <2> QED
    BY <1>1
<1>4. /\ c \in 1..Len(t) /\ t[c] = "<think>"
      /\ e \in (c + 1)..Len(t) /\ FirstAfter(t, c, e, "</think>")
    BY <1>3, ClosesFacts
<1> HIDE DEF e, a
<1>5. e > c + 1 /\ a = e + 1 /\ a - 1 = e /\ a \in (c + 3)..(Len(t) + 1)
    BY <1>1, <1>2, <1>4
<1> QED
    BY <1>4, <1>5 DEF a

\* Where that tag is, the action begins.
LEMMA AfterThinkIs ==
    ASSUME NEW t \in Seq(Symbols), NEW c, NEW e,
           c \in 1..Len(t), t[c] = "<think>",
           e > c + 1, FirstAfter(t, c, e, "</think>")
    PROVE  AfterThink(t, c) = e + 1
<1>1. Closes(t, c, "<think>", "</think>") = e
    BY ClosesAt
<1> QED
    BY <1>1 DEF AfterThink

\* A turn that goes on goes on behind its tool call.
LEMMA AfterCallFacts ==
    ASSUME NEW t \in Seq(Symbols), NEW c \in Nat,
           Closes(t, c, "<tool_call>", "</tool_call>") # 0, AfterCall(t, c) # 0
    PROVE  AfterCall(t, c) \in (c + 3)..(Len(t) + 1)
<1> DEFINE e == Closes(t, c, "<tool_call>", "</tool_call>")
           b == Skip(t, e + 1, "user")
           r == Closes(t, b, "<tool_response>", "</tool_response>")
           d == Skip(t, r + 1, "assistant")
<1>1. r # 0 /\ AfterCall(t, c) = d
    BY DEF AfterCall
<1>2. Len(t) \in Nat
    BY SymbolAt
<1>3. c \in 1..Len(t) /\ e \in (c + 1)..Len(t)
    BY ClosesFacts
<1>4. b \in {e + 1, e + 2}
  <2>1. e + 1 \in Int /\ (e + 1) + 1 = e + 2
    <3> HIDE DEF e
    <3> QED
      BY <1>3
  <2>2. b \in {e + 1, (e + 1) + 1}
    <3> HIDE DEF e
    <3> QED
      BY <2>1, SkipFacts
  <2> HIDE DEF e, b
  <2> QED
    BY <2>1, <2>2
<1>5. r \in (b + 1)..Len(t)
  <2>1. b \in Int
    <3> HIDE DEF b, e
    <3> QED
      BY <1>3, <1>4
  <2> HIDE DEF b
  <2> QED
    BY <1>1, <2>1, ClosesFacts
<1>6. /\ d \in {r + 1, (r + 1) + 1}
      /\ r + 1 \notin 1..Len(t) => d = r + 1
  <2>1. r + 1 \in Int
    <3> HIDE DEF b, e, r
    <3> QED
      BY <1>3, <1>4, <1>5
  <2> HIDE DEF r
  <2> QED
    BY <2>1, SkipFacts
<1> HIDE DEF e, b, r, d
<1>7. d \in (c + 3)..(Len(t) + 1)
    BY <1>2, <1>3, <1>4, <1>5, <1>6
<1> QED
    BY <1>1, <1>7

-----------------------------------------------------------------------------
\* The recursive function of validate_sequence, and its value in a turn.
TurnBody(t, f, c) ==
    LET a == AfterThink(t, c)
    IN  /\ a # 0
        /\ IF Closes(t, a, "<tool_call>", "</tool_call>") # 0
           THEN AfterCall(t, a) # 0 /\ f[AfterCall(t, a)]
           ELSE FinalAnswer(t, a)
TurnFun(t) == CHOOSE f : f = [c \in 1..(Len(t) + 1) |-> TurnBody(t, f, c)]
Turn(t, c) == TurnFun(t)[c]

\* validate_sequence is what it says of the first turn.
LEMMA ValidateByTurns ==
    ASSUME NEW t
    PROVE  validate_sequence(t) <=> ~Legacy(t) /\ Turn(t, 1)
BY DEF validate_sequence, Turn, TurnFun, TurnBody

\* A turn looks only at later ones.
LEMMA TurnLooksAhead ==
    ASSUME NEW t \in Seq(Symbols), NEW c \in Nat, NEW f, NEW g,
           \A d \in (c + 1)..(Len(t) + 1) : f[d] = g[d]
    PROVE  TurnBody(t, f, c) = TurnBody(t, g, c)
<1> DEFINE a == AfterThink(t, c)
           d == AfterCall(t, a)
<1>1. CASE a = 0
    BY <1>1 DEF TurnBody
<1>2. CASE a # 0 /\ Closes(t, a, "<tool_call>", "</tool_call>") # 0 /\ d # 0
  <2>1. Len(t) \in Nat /\ a \in (c + 3)..(Len(t) + 1)
    BY <1>2, AfterThinkFacts, SymbolAt
  <2>2. d \in (a + 3)..(Len(t) + 1)
    <3>1. a \in Nat
      <4> HIDE DEF a
      <4> QED
        BY <2>1
    <3> HIDE DEF a
    <3> QED
      BY <1>2, <3>1, AfterCallFacts
  <2>3. d \in (c + 1)..(Len(t) + 1)
    <3> HIDE DEF a, d
    <3> QED
      BY <2>1, <2>2
  <2> QED
    BY <2>3, <1>2 DEF TurnBody
<1>3. CASE ~(Closes(t, a, "<tool_call>", "</tool_call>") # 0 /\ d # 0)
    BY <1>3 DEF TurnBody
<1> QED
    BY <1>1, <1>2, <1>3

\* So the function exists: it is built from the end of the text.
LEMMA TurnUnfolds ==
    ASSUME NEW t \in Seq(Symbols)
    PROVE  \A c \in 1..(Len(t) + 1) : Turn(t, c) = TurnBody(t, TurnFun(t), c)
<1> DEFINE n == Len(t) + 1
           Solves(f, k) == f = [c \in k..n |-> TurnBody(t, f, c)]
           Open == {k \in 1..(n + 1) : ~\E f : Solves(f, k)}
<1>1. n \in Nat /\ n >= 1
    BY SymbolAt
<1>2. \E f : Solves(f, n + 1)
  <2>1. (n + 1)..n = {}
    <3> HIDE DEF n
    <3> QED
      BY <1>1
  <2>2. [c \in (n + 1)..n |-> 0] = [c \in (n + 1)..n |->
            TurnBody(t, [d \in (n + 1)..n |-> 0], c)]
    BY <2>1
  <2> QED
    BY <2>2
<1>3. ASSUME NEW k \in 1..n, \E f : Solves(f, k + 1)
      PROVE  \E f : Solves(f, k)
  <2>1. PICK f : Solves(f, k + 1)
    BY <1>3
  <2> DEFINE g == [c \in k..n |-> IF c = k THEN TurnBody(t, f, k) ELSE f[c]]
  <2>2. \A d \in (k + 1)..n : g[d] = f[d]
    <3> HIDE DEF n
    <3> QED
      BY <1>1
  <2>3. ASSUME NEW c \in k..n PROVE TurnBody(t, f, c) = TurnBody(t, g, c)
    <3>1. c \in Nat /\ (c + 1)..(Len(t) + 1) \subseteq (k + 1)..n
      <4> HIDE DEF n
      <4>1. c \in Nat /\ (c + 1)..n \subseteq (k + 1)..n
        BY <1>1
      <4> QED
        BY <4>1 DEF n
    <3> HIDE DEF g
    <3>2. \A d \in (c + 1)..(Len(t) + 1) : f[d] = g[d]
      BY <3>1, <2>2
    <3> QED
      BY <3>1, <3>2, TurnLooksAhead
  <2>4. ASSUME NEW c \in k..n PROVE g[c] = TurnBody(t, g, c)
    <3>1. CASE c = k
      BY <3>1, <2>3
    <3>2. CASE c # k
      <4>1. c \in (k + 1)..n
        <5> HIDE DEF n
        <5> QED
          BY <3>2, <1>1
      <4>2. f[c] = TurnBody(t, f, c)
        <5> HIDE DEF n, TurnBody
        <5> QED
          BY <4>1, <2>1
      <4> QED
        BY <3>2, <4>2, <2>3
    <3> QED
      BY <3>1, <3>2
  <2>5. Solves(g, k)
    <3>1. g = [c \in k..n |-> g[c]]
      OBVIOUS
    <3>2. \A c \in k..n : g[c] = TurnBody(t, g, c)
      BY <2>4
    <3> HIDE DEF g, n, TurnBody
    <3>3. [c \in k..n |-> g[c]] = [c \in k..n |-> TurnBody(t, g, c)]
      BY <3>2
    <3>4. g = [c \in k..n |-> TurnBody(t, g, c)]
      BY <3>1, <3>3, Zenon
    <3> QED
      BY <3>4
  <2> QED
    BY <2>5
<1>4. \E f : Solves(f, 1)
  <2> SUFFICES ASSUME 1 \in Open PROVE FALSE
    <3> HIDE DEF n, Solves
    <3> QED
      BY <1>1
  <2>1. Open \subseteq 0..(n + 1) /\ Open # {}
    <3>1. Open \subseteq 1..(n + 1)
      OBVIOUS
    <3>2. 1..(n + 1) \subseteq 0..(n + 1)
      <4> HIDE DEF n
      <4> QED
        BY <1>1
    <3> HIDE DEF n, Open
    <3> QED
      BY <3>1, <3>2
  <2>2. n + 1 \in Nat
    <3> HIDE DEF n
    <3> QED
      BY <1>1
  <2>3. PICK k \in Open : \A j \in Open : j <= k
    <3> HIDE DEF n, Open
    <3> QED
      BY <2>1, <2>2, GreatestOf
  <2> HIDE DEF n, Solves
  <2>4. k \in 1..n
    BY <1>1, <1>2, <2>3
  <2>5. k + 1 \notin Open /\ k + 1 \in 1..(n + 1)
    <3>1. ~(k + 1 <= k) /\ k + 1 \in 1..(n + 1)
      BY <2>4, <1>1
    <3> QED
      BY <3>1, <2>3
  <2>6. \E f : Solves(f, k + 1)
    BY <2>5
  <2> QED
    BY <2>4, <2>6, <1>3, <2>3
<1>5. Solves(TurnFun(t), 1)
  <2> DEFINE Q(f) == Solves(f, 1)
  <2>1. TurnFun(t) = CHOOSE f : Q(f)
    BY DEF TurnFun
  <2>2. \E f : Q(f)
    BY <1>4
  <2> HIDE DEF Q
  <2>3. Q(TurnFun(t))
    BY <2>1, <2>2, Zenon
  <2> QED
    BY <2>3 DEF Q
<1> QED
  <2> HIDE DEF TurnBody, TurnFun
  <2> QED
    BY <1>5 DEF Turn

-----------------------------------------------------------------------------
\* The recursive function of extract_answer, and its value at a position.
LastBody(t, f, c) ==
    LET o == Find(t, c, "<answer>")
        e == Closes(t, o, "<answer>", "</answer>")
    IN  IF e = 0 THEN 0
        ELSE IF f[e + 1] # 0 THEN f[e + 1] ELSE o
LastFun(t) == CHOOSE f : f = [c \in 1..(Len(t) + 1) |-> LastBody(t, f, c)]
Last(t, c) == LastFun(t)[c]

\* extract_answer returns the block it says is the last.
LEMMA ExtractByLast ==
    ASSUME NEW t
    PROVE  extract_answer(t) =
            IF Last(t, 1) = 0 THEN NoAnswer
            ELSE Inside(t, Last(t, 1),
                        Closes(t, Last(t, 1), "<answer>", "</answer>"))
BY DEF extract_answer, Last, LastFun, LastBody

\* The search goes on behind the block it has met.
LEMMA LastLooksAhead ==
    ASSUME NEW t \in Seq(Symbols), NEW c \in Nat, NEW f, NEW g,
           \A d \in (c + 1)..(Len(t) + 1) : f[d] = g[d]
    PROVE  LastBody(t, f, c) = LastBody(t, g, c)
<1> DEFINE o == Find(t, c, "<answer>")
           e == Closes(t, o, "<answer>", "</answer>")
<1>1. CASE e = 0
    BY <1>1 DEF LastBody
<1>2. CASE e # 0
  <2>1. Len(t) \in Nat /\ \/ o = 0
                          \/ o \in 1..Len(t) /\ o >= c
    BY FindFacts, SymbolAt
  <2>2. o \in 1..Len(t) /\ e \in (o + 1)..Len(t)
    <3>1. o \in Int
      <4> HIDE DEF o
      <4> QED
        BY <2>1
    <3> HIDE DEF o
    <3> QED
      BY <1>2, <3>1, ClosesFacts
  <2>3. e + 1 \in (c + 1)..(Len(t) + 1)
    <3> HIDE DEF o, e
    <3> QED
      BY <2>1, <2>2
  <2> QED
    BY <2>3, <1>2 DEF LastBody
<1> QED
    BY <1>1, <1>2

\* So this function exists too.
LEMMA LastUnfolds ==
    ASSUME NEW t \in Seq(Symbols)
    PROVE  \A c \in 1..(Len(t) + 1) : Last(t, c) = LastBody(t, LastFun(t), c)
<1> DEFINE n == Len(t) + 1
           Solves(f, k) == f = [c \in k..n |-> LastBody(t, f, c)]
           Open == {k \in 1..(n + 1) : ~\E f : Solves(f, k)}
<1>1. n \in Nat /\ n >= 1
    BY SymbolAt
<1>2. \E f : Solves(f, n + 1)
  <2>1. (n + 1)..n = {}
    <3> HIDE DEF n
    <3> QED
      BY <1>1
  <2>2. [c \in (n + 1)..n |-> 0] = [c \in (n + 1)..n |->
            LastBody(t, [d \in (n + 1)..n |-> 0], c)]
    BY <2>1
  <2> QED
    BY <2>2
<1>3. ASSUME NEW k \in 1..n, \E f : Solves(f, k + 1)
      PROVE  \E f : Solves(f, k)
  <2>1. PICK f : Solves(f, k + 1)
    BY <1>3
  <2> DEFINE g == [c \in k..n |-> IF c = k THEN LastBody(t, f, k) ELSE f[c]]
  <2>2. \A d \in (k + 1)..n : g[d] = f[d]
    <3> HIDE DEF n
    <3> QED
      BY <1>1
  <2>3. ASSUME NEW c \in k..n PROVE LastBody(t, f, c) = LastBody(t, g, c)
    <3>1. c \in Nat /\ (c + 1)..(Len(t) + 1) \subseteq (k + 1)..n
      <4> HIDE DEF n
      <4>1. c \in Nat /\ (c + 1)..n \subseteq (k + 1)..n
        BY <1>1
      <4> QED
        BY <4>1 DEF n
    <3> HIDE DEF g
    <3>2. \A d \in (c + 1)..(Len(t) + 1) : f[d] = g[d]
      BY <3>1, <2>2
    <3> QED
      BY <3>1, <3>2, LastLooksAhead
  <2>4. ASSUME NEW c \in k..n PROVE g[c] = LastBody(t, g, c)
    <3>1. CASE c = k
      BY <3>1, <2>3
    <3>2. CASE c # k
      <4>1. c \in (k + 1)..n
        <5> HIDE DEF n
        <5> QED
          BY <3>2, <1>1
      <4>2. f[c] = LastBody(t, f, c)
        <5> HIDE DEF n, LastBody
        <5> QED
          BY <4>1, <2>1
      <4> QED
        BY <3>2, <4>2, <2>3
    <3> QED
      BY <3>1, <3>2
  <2>5. Solves(g, k)
    <3>1. g = [c \in k..n |-> g[c]]
      OBVIOUS
    <3>2. \A c \in k..n : g[c] = LastBody(t, g, c)
      BY <2>4
    <3> HIDE DEF g, n, LastBody
    <3>3. [c \in k..n |-> g[c]] = [c \in k..n |-> LastBody(t, g, c)]
      BY <3>2
    <3>4. g = [c \in k..n |-> LastBody(t, g, c)]
      BY <3>1, <3>3, Zenon
    <3> QED
      BY <3>4
  <2> QED
    BY <2>5
<1>4. \E f : Solves(f, 1)
  <2> SUFFICES ASSUME 1 \in Open PROVE FALSE
    <3> HIDE DEF n, Solves
    <3> QED
      BY <1>1
  <2>1. Open \subseteq 0..(n + 1) /\ Open # {}
    <3>1. Open \subseteq 1..(n + 1)
      OBVIOUS
    <3>2. 1..(n + 1) \subseteq 0..(n + 1)
      <4> HIDE DEF n
      <4> QED
        BY <1>1
    <3> HIDE DEF n, Open
    <3> QED
      BY <3>1, <3>2
  <2>2. n + 1 \in Nat
    <3> HIDE DEF n
    <3> QED
      BY <1>1
  <2>3. PICK k \in Open : \A j \in Open : j <= k
    <3> HIDE DEF n, Open
    <3> QED
      BY <2>1, <2>2, GreatestOf
  <2> HIDE DEF n, Solves
  <2>4. k \in 1..n
    BY <1>1, <1>2, <2>3
  <2>5. k + 1 \notin Open /\ k + 1 \in 1..(n + 1)
    <3>1. ~(k + 1 <= k) /\ k + 1 \in 1..(n + 1)
      BY <2>4, <1>1
    <3> QED
      BY <3>1, <2>3
  <2>6. \E f : Solves(f, k + 1)
    BY <2>5
  <2> QED
    BY <2>4, <2>6, <1>3, <2>3
<1>5. Solves(LastFun(t), 1)
  <2> DEFINE Q(f) == Solves(f, 1)
  <2>1. LastFun(t) = CHOOSE f : Q(f)
    BY DEF LastFun
  <2>2. \E f : Q(f)
    BY <1>4
  <2> HIDE DEF Q
  <2>3. Q(LastFun(t))
    BY <2>1, <2>2, Zenon
  <2> QED
    BY <2>3 DEF Q
<1> QED
  <2> HIDE DEF LastBody, LastFun
  <2> QED
    BY <1>5 DEF Last

\* What the search finds at c: nothing, the block it meets there, or what it
\* finds behind it.
LEMMA LastCases ==
    ASSUME NEW t \in Seq(Symbols), NEW c \in 1..(Len(t) + 1)
    PROVE  LET o == Find(t, c, "<answer>")
               e == Closes(t, o, "<answer>", "</answer>")
           IN  Last(t, c) = IF e = 0 THEN 0
                            ELSE IF Last(t, e + 1) # 0 THEN Last(t, e + 1) ELSE o
BY LastUnfolds DEF LastBody, Last

\* At the end there is nothing.
LEMMA LastAtEnd ==
    ASSUME NEW t \in Seq(Symbols)
    PROVE  Last(t, Len(t) + 1) = 0
<1>1. Len(t) \in Nat /\ Len(t) + 1 \in 1..(Len(t) + 1)
    BY SymbolAt
<1>2. Find(t, Len(t) + 1, "<answer>") = 0
  <2>1. \A j \in 1..Len(t) : j >= Len(t) + 1 => t[j] # "<answer>"
    BY <1>1
  <2> QED
    BY <1>1, <2>1, FindNone
<1>3. Closes(t, 0, "<answer>", "</answer>") = 0
    BY NeverClosed
<1> QED
    BY <1>1, <1>2, <1>3, LastCases

\* When a text ends with an answer block that is not empty, and is the last one
\* its opening tag belongs to, the search finds a block that is not empty from
\* everywhere before it.
LEMMA LastFindsBlock ==
    ASSUME NEW t \in Seq(Symbols), NEW a \in 1..Len(t), t[a] = "<answer>",
           Closes(t, a, "<answer>", "</answer>") = Len(t), Len(t) > a + 1
    PROVE  \A c \in 1..a :
             /\ Last(t, c) \in 1..a
             /\ Closes(t, Last(t, c), "<answer>", "</answer>") \in
                    (Last(t, c) + 2)..Len(t)
<1> DEFINE n == Len(t)
           Closed(c) == Closes(t, c, "<answer>", "</answer>")
           Found(c) == /\ Last(t, c) \in 1..a
                       /\ Closed(Last(t, c)) \in (Last(t, c) + 2)..n
           Lost == {c \in 1..a : ~Found(c)}
<1> HIDE DEF Closed
<1>1. n \in Nat /\ a \in Nat
    BY SymbolAt
<1>2. FirstAfter(t, a, n, "</answer>")
    BY <1>1, ClosesFacts
<1>3. SUFFICES ASSUME Lost # {} PROVE FALSE
    BY DEF Closed
<1>4. Lost \subseteq 0..a
    BY <1>1
<1>5. PICK c \in Lost : \A d \in Lost : d <= c
  <2> HIDE DEF Lost
  <2> QED
    BY <1>1, <1>3, <1>4, GreatestOf
<1> DEFINE o == Find(t, c, "<answer>")
<1>6. o \in c..a /\ t[o] = "<answer>" /\ o \in 1..Len(t)
  <2>1. \/ \A j \in 1..Len(t) : j >= c => t[j] # "<answer>"
        \/ /\ o \in 1..Len(t) /\ o >= c /\ t[o] = "<answer>"
           /\ \A j \in 1..Len(t) : j >= c /\ j < o => t[j] # "<answer>"
    BY <1>1, FindFacts
  <2>2. c \in 1..a
    BY <1>5
  <2> HIDE DEF o, Lost
  <2>3. a \in 1..Len(t) /\ a >= c /\ t[a] = "<answer>"
    BY <1>1, <2>2
  <2>4. o \in 1..Len(t) /\ o >= c /\ t[o] = "<answer>"
    BY <2>1, <2>3, Zenon
  <2>5. ~(a < o)
    BY <2>1, <2>3, Zenon
  <2> QED
    BY <1>1, <2>2, <2>4, <2>5
<1> HIDE DEF o
<1>7. Closed(o) \in (o + 1)..n /\ FirstAfter(t, o, Closed(o), "</answer>")
  <2>1. n > o /\ n \in 1..Len(t) /\ t[n] = "</answer>"
    BY <1>1, <1>2, <1>6 DEF FirstAfter
  <2>2. Closed(o) # 0
    <3>1. ~NoneAfter(t, o, "</answer>")
      BY <2>1 DEF NoneAfter
    <3>2. \/ Find(t, o + 1, "</answer>") # 0
          \/ \A j \in 1..Len(t) : j >= o + 1 => t[j] # "</answer>"
      <4>1. o + 1 \in Int
        BY <1>6
      <4> QED
        BY <4>1, FindFacts
    <3>3. Find(t, o + 1, "</answer>") # 0
      BY <1>1, <1>6, <2>1, <3>2
    <3> QED
      BY <1>6, <3>3, SymbolAt DEF Closed, Closes
  <2> QED
    BY <1>6, <2>2, ClosesFacts DEF Closed
<1>8. Last(t, c) = IF Last(t, Closed(o) + 1) # 0
                   THEN Last(t, Closed(o) + 1) ELSE o
  <2>1. c \in 1..(Len(t) + 1) /\ Closed(o) # 0
    BY <1>1, <1>6, <1>7
  <2> QED
    BY <2>1, LastCases DEF Closed, o
<1>9. CASE Closed(o) = n
  <2>1. Last(t, c) = o
    BY <1>8, <1>9, LastAtEnd
  <2>2. o \in 1..a /\ n \in (o + 2)..n
    BY <1>1, <1>6
  <2> QED
    BY <1>5, <1>9, <2>1, <2>2
<1>10. CASE Closed(o) # n
  <2>1. Closed(o) < a
    <3>1. ~(Closed(o) > a)
      BY <1>1, <1>2, <1>6, <1>7, <1>10 DEF FirstAfter
    <3>2. Closed(o) # a
      BY <1>7 DEF FirstAfter
    <3> QED
      BY <1>1, <1>6, <1>7, <3>1, <3>2
  <2>2. Closed(o) + 1 \in 1..a /\ Closed(o) + 1 > c
    BY <1>1, <1>6, <1>7, <2>1
  <2>3. Found(Closed(o) + 1)
    BY <1>5, <2>2
  <2>4. Last(t, c) = Last(t, Closed(o) + 1)
    BY <1>8, <2>3
  <2> QED
    BY <1>5, <2>3, <2>4
<1> QED
    BY <1>9, <1>10

\* No trajectory has the format without an answer that can be judged.
LEMMA FormatHasAnswer ==
    ASSUME NEW t \in Seq(Symbols), validate_sequence(t)
    PROVE  extract_answer(t) # NoAnswer
<1> DEFINE n == Len(t) + 1
           Good == {c \in 1..n : Turn(t, c)}
<1>1. n \in Nat /\ n >= 1 /\ Len(t) \in Nat
    BY SymbolAt
<1>2. PICK c \in Good : \A d \in Good : d <= c
  <2>1. 1 \in Good
    BY <1>1, ValidateByTurns
  <2>2. Good \subseteq 0..n
    BY <1>1
  <2> HIDE DEF Good, n
  <2> QED
    BY <1>1, <2>1, <2>2, GreatestOf
<1> DEFINE a == AfterThink(t, c)
<1>3. /\ a # 0
      /\ IF Closes(t, a, "<tool_call>", "</tool_call>") # 0
         THEN AfterCall(t, a) # 0 /\ Turn(t, AfterCall(t, a))
         ELSE FinalAnswer(t, a)
    BY TurnUnfolds DEF TurnBody, Turn
<1>4. c \in Nat /\ a \in (c + 3)..n /\ a \in Nat
  <2>1. c \in Nat
    BY <1>1
  <2>2. a \in (c + 3)..n
    BY <1>3, <2>1, AfterThinkFacts
  <2> HIDE DEF a
  <2> QED
    BY <1>1, <2>1, <2>2
<1>5. FinalAnswer(t, a)
  <2> SUFFICES ASSUME Closes(t, a, "<tool_call>", "</tool_call>") # 0
               PROVE  FALSE
    BY <1>3
  <2>1. AfterCall(t, a) \in (a + 3)..n /\ Turn(t, AfterCall(t, a))
    <3> HIDE DEF a
    <3> QED
      BY <1>3, <1>4, AfterCallFacts
  <2> HIDE DEF a
  <2>2. AfterCall(t, a) \in 1..n /\ AfterCall(t, a) > c
    BY <1>1, <1>4, <2>1
  <2> QED
    BY <1>2, <2>1, <2>2
<1> HIDE DEF a
<1> DEFINE e == Closes(t, a, "<answer>", "</answer>")
<1>6. e > a + 1 /\ e = Len(t)
    BY <1>5 DEF FinalAnswer
<1>7. a \in 1..Len(t) /\ t[a] = "<answer>"
    BY <1>1, <1>4, <1>6, ClosesFacts
<1> DEFINE o == Last(t, 1)
           z == Closes(t, o, "<answer>", "</answer>")
<1>8. o \in 1..a /\ z \in (o + 2)..Len(t)
    BY <1>1, <1>6, <1>7, LastFindsBlock
<1>9. extract_answer(t) = Inside(t, o, z)
    BY <1>8, ExtractByLast
<1> HIDE DEF o, z
<1>10. Inside(t, o, z) # NoAnswer
  <2>1. o \in Nat /\ z \in 1..Len(t) /\ o < z /\ z - o - 1 # 0
    BY <1>1, <1>4, <1>8
  <2>2. Len(Inside(t, o, z)) = z - o - 1 /\ Len(<<>>) = 0
    BY <2>1, InsideFacts, EmptySeq
  <2> QED
    BY <2>1, <2>2 DEF NoAnswer
<1> QED
    BY <1>9, <1>10

\* No tag is left, of this protocol or the old one.
Harmless(t) == \A i \in 1..Len(t) : t[i] \notin Tags \union {"legacy"}

\* Such a text is free of controls.
LEMMA HarmlessFacts ==
    ASSUME NEW t \in Seq(Symbols), Harmless(t)
    PROVE  ~Control(t) /\ ~Legacy(t)
<1>1. \A i \in DOMAIN t : t[i] \notin Tags \union {"legacy"}
    BY SymbolAt DEF Harmless
<1>2. ~Legacy(t)
    BY <1>1 DEF Legacy, CompletedAt
<1> QED
    BY <1>1, <1>2 DEF Control

\* Sanitizing leaves no tag,
LEMMA SanitizeFacts ==
    ASSUME NEW x \in Seq(Symbols)
    PROVE  Sanitize(x) \in Seq(Symbols) /\ Harmless(Sanitize(x))
<1> DEFINE s == Sanitize(x)
<1>1. /\ DOMAIN x = 1..Len(x) /\ Len(x) \in Nat
      /\ \A i \in 1..Len(x) : x[i] \in Symbols
    BY SymbolAt
<1>2. "word" \in Symbols /\ "word" \notin Tags \union {"legacy"}
    BY DEF Symbols, Tags
<1>3. \A i \in 1..Len(x) : s[i] \in Symbols /\ s[i] \notin Tags \union {"legacy"}
    BY <1>1, <1>2 DEF Sanitize
<1>4. s = [i \in 1..Len(x) |-> s[i]]
    BY <1>1 DEF Sanitize
<1> HIDE DEF s
<1>5. s \in Seq(Symbols) /\ Len(s) = Len(x)
    BY <1>1, <1>3, <1>4
<1> QED
    BY <1>3, <1>5 DEF Harmless, s

\* and a cut text is a prefix.
LEMMA CutFacts ==
    ASSUME NEW t \in Seq(Symbols), NEW n \in Nat
    PROVE  /\ Cut(t, n) \in Seq(Symbols)
           /\ Len(Cut(t, n)) = IF Len(t) <= n THEN Len(t) ELSE n
           /\ \A i \in 1..Len(Cut(t, n)) : Cut(t, n)[i] = t[i]
<1>1. Len(t) \in Nat
    BY SymbolAt
<1>2. CASE Len(t) <= n
    BY <1>2 DEF Cut
<1>3. CASE ~(Len(t) <= n)
  <2> DEFINE c == SubSeq(t, 1, n)
  <2>1. Cut(t, n) = c
    BY <1>3 DEF Cut
  <2>2. \A i \in 1..n : i \in 1..Len(t)
    BY <1>1, <1>3
  <2>3. \A i \in 1..n : t[i] \in Symbols
    BY <2>2, SymbolAt
  <2>4. /\ c \in Seq(Symbols)
        /\ Len(c) = IF 1 <= n THEN n - 1 + 1 ELSE 0
        /\ \A i \in 1..(n - 1 + 1) : c[i] = t[1 + i - 1]
    BY <2>3, SubSeqProperties
  <2> HIDE DEF c
  <2>5. Len(c) = n /\ \A i \in 1..Len(c) : c[i] = t[i]
    BY <2>4
  <2> QED
    BY <1>3, <2>1, <2>4, <2>5
<1> QED
    BY <1>2, <1>3

\* A tool response as it is rendered: its content has no tag, whatever the
\* tool returned.
LEMMA RenderedFacts ==
    ASSUME NEW x \in Seq(Symbols)
    PROVE  LET R == Rendered(x)
           IN  /\ R \in Seq(Symbols)
               /\ Len(R) \in Nat /\ Len(R) >= 4
               /\ R[1] = "user" /\ R[2] = "<tool_response>"
               /\ R[Len(R) - 1] = "</tool_response>" /\ R[Len(R)] = "assistant"
               /\ \A i \in 3..(Len(R) - 2) : R[i] \notin Tags \union {"legacy"}
<1> DEFINE s == Sanitize(x)
           b == Cut(s, MaxObsLength)
           h == <<"user", "<tool_response>">>
           z == <<"</tool_response>", "assistant">>
           front == h \o b
           R == front \o z
<1>1. R = Rendered(x)
    BY DEF Rendered
<1>2. s \in Seq(Symbols) /\ Harmless(s)
    BY SanitizeFacts
<1> HIDE DEF s
<1>3. /\ b \in Seq(Symbols) /\ Len(b) \in Nat
      /\ \A i \in 1..Len(b) : b[i] \notin Tags \union {"legacy"}
  <2>1. /\ b \in Seq(Symbols)
        /\ Len(b) = IF Len(s) <= MaxObsLength THEN Len(s) ELSE MaxObsLength
        /\ \A i \in 1..Len(b) : b[i] = s[i]
    BY <1>2, BoundsAssumption, CutFacts
  <2> HIDE DEF b
  <2>2. Len(b) \in Nat /\ Len(b) <= Len(s) /\ Len(s) \in Nat
    BY <1>2, <2>1, BoundsAssumption, SymbolAt
  <2>3. \A i \in 1..Len(b) : i \in 1..Len(s)
    BY <2>2
  <2> QED
    BY <1>2, <2>1, <2>2, <2>3 DEF Harmless
<1> HIDE DEF b
<1>4. /\ h \in Seq(Symbols) /\ Len(h) = 2
      /\ h[1] = "user" /\ h[2] = "<tool_response>"
      /\ z \in Seq(Symbols) /\ Len(z) = 2
      /\ z[1] = "</tool_response>" /\ z[2] = "assistant"
    BY DEF Symbols, Tags
<1> HIDE DEF h, z
<1>5. /\ front \in Seq(Symbols) /\ Len(front) = 2 + Len(b)
      /\ front[1] = "user" /\ front[2] = "<tool_response>"
      /\ \A i \in 3..(2 + Len(b)) : front[i] \notin Tags \union {"legacy"}
  <2>1. /\ front \in Seq(Symbols) /\ Len(front) = Len(h) + Len(b)
        /\ \A i \in 1..(Len(h) + Len(b)) :
              front[i] = IF i <= Len(h) THEN h[i] ELSE b[i - Len(h)]
    <3>1. h \in Seq(Symbols) /\ b \in Seq(Symbols)
      BY <1>3, <1>4
    <3> QED
      BY <3>1, ConcatProperties
  <2> HIDE DEF front
  <2>2. \A i \in 3..(2 + Len(b)) : front[i] = b[i - 2] /\ i - 2 \in 1..Len(b)
    BY <1>3, <1>4, <2>1
  <2>3. /\ front[1] = "user" /\ front[2] = "<tool_response>"
        /\ Len(front) = 2 + Len(b)
    BY <1>3, <1>4, <2>1
  <2> QED
    BY <1>3, <2>1, <2>2, <2>3
<1> HIDE DEF front
<1>6. /\ R \in Seq(Symbols) /\ Len(R) = Len(front) + 2
      /\ \A i \in 1..(Len(front) + 2) :
              R[i] = IF i <= Len(front) THEN front[i] ELSE z[i - Len(front)]
  <2>1. /\ R \in Seq(Symbols) /\ Len(R) = Len(front) + Len(z)
        /\ \A i \in 1..(Len(front) + Len(z)) :
              R[i] = IF i <= Len(front) THEN front[i] ELSE z[i - Len(front)]
    BY <1>4, <1>5, ConcatProperties
  <2> QED
    BY <1>4, <2>1
<1> HIDE DEF R
<1>7. Len(R) \in Nat /\ Len(R) = Len(b) + 4
    BY <1>3, <1>5, <1>6
<1>8. R[1] = "user" /\ R[2] = "<tool_response>"
    BY <1>3, <1>5, <1>6
<1>9. R[Len(R) - 1] = "</tool_response>" /\ R[Len(R)] = "assistant"
  <2>1. Len(front) \in Nat
    BY <1>3, <1>5
  <2>2. /\ Len(R) - 1 \in 1..(Len(front) + 2) /\ ~(Len(R) - 1 <= Len(front))
        /\ (Len(R) - 1) - Len(front) = 1
        /\ Len(R) \in 1..(Len(front) + 2) /\ ~(Len(R) <= Len(front))
        /\ Len(R) - Len(front) = 2
    BY <1>6, <2>1
  <2>3. R[Len(R) - 1] = z[1] /\ R[Len(R)] = z[2]
    BY <1>6, <2>2
  <2> QED
    BY <1>4, <2>3
<1>10. \A i \in 3..(Len(R) - 2) : R[i] \notin Tags \union {"legacy"}
  <2>1. \A i \in 3..(Len(R) - 2) : i \in 3..(2 + Len(b)) /\ R[i] = front[i]
    BY <1>3, <1>5, <1>6, <1>7
  <2> QED
    BY <1>5, <2>1
<1> QED
    BY <1>1, <1>3, <1>6, <1>7, <1>8, <1>9, <1>10

-----------------------------------------------------------------------------
\* m is a part of t, behind position k.
Window(t, k, m) ==
    /\ k + Len(m) <= Len(t)
    /\ \A i \in 1..Len(m) : t[k + i] = m[i]

\* What is first in the part is first in the text behind the same place,
LEMMA WindowFirstAfter ==
    ASSUME NEW t \in Seq(Symbols), NEW m \in Seq(Symbols), NEW k \in Nat,
           Window(t, k, m), NEW c \in Nat, NEW e, NEW s, FirstAfter(m, c, e, s)
    PROVE  FirstAfter(t, k + c, k + e, s)
<1>1. Len(t) \in Nat /\ Len(m) \in Nat
    BY SymbolAt
<1>2. e \in 1..Len(m) /\ e > c /\ m[e] = s
    BY DEF FirstAfter
<1>3. k + e \in 1..Len(t) /\ k + e > k + c /\ t[k + e] = s
    BY <1>1, <1>2 DEF Window
<1>4. ASSUME NEW j \in 1..Len(t), j > k + c, j < k + e
      PROVE  t[j] # s
  <2>1. j - k \in 1..Len(m) /\ j - k > c /\ j - k < e /\ k + (j - k) = j
    BY <1>1, <1>2, <1>4
  <2>2. m[j - k] # s
    BY <2>1 DEF FirstAfter
  <2>3. t[k + (j - k)] = m[j - k]
    BY <2>1 DEF Window
  <2> QED
    BY <2>1, <2>2, <2>3
<1> QED
    BY <1>3, <1>4 DEF FirstAfter

\* so a generation's thought is read in the text as it was alone.
LEMMA WindowThink ==
    ASSUME NEW t \in Seq(Symbols), NEW m \in Seq(Symbols), NEW k \in Nat,
           Window(t, k, m), AfterThink(m, 1) # 0
    PROVE  AfterThink(t, k + 1) = k + AfterThink(m, 1)
<1> DEFINE a == AfterThink(m, 1)
<1>1. Len(t) \in Nat /\ Len(m) \in Nat
    BY SymbolAt
<1>2. /\ 1 \in 1..Len(m) /\ m[1] = "<think>"
      /\ a \in (1 + 3)..(Len(m) + 1) /\ FirstAfter(m, 1, a - 1, "</think>")
    BY AfterThinkFacts
<1> HIDE DEF a
<1>3. FirstAfter(t, k + 1, k + (a - 1), "</think>")
    BY <1>2, WindowFirstAfter
<1>4. k + 1 \in 1..Len(t) /\ t[k + 1] = "<think>"
    BY <1>1, <1>2 DEF Window
<1>5. k + (a - 1) > (k + 1) + 1 /\ (k + (a - 1)) + 1 = k + a
    BY <1>2
<1>6. AfterThink(t, k + 1) = (k + (a - 1)) + 1
    BY <1>3, <1>4, <1>5, AfterThinkIs
<1> QED
    BY <1>5, <1>6 DEF a

\* No symbol s occurs, or one does, at one place.
LEMMA CountFacts ==
    ASSUME NEW t \in Seq(Symbols), NEW s
    PROVE  /\ Count(t, s) = 0 => \A i \in 1..Len(t) : t[i] # s
           /\ Count(t, s) = 1 =>
                \A i, j \in 1..Len(t) : t[i] = s /\ t[j] = s => i = j
<1> DEFINE P == Positions(t, s)
<1>1. IsFiniteSet(P) /\ \A i \in 1..Len(t) : t[i] = s => i \in P
  <2>1. Len(t) \in Nat /\ DOMAIN t = 1..Len(t)
    BY SymbolAt
  <2>2. IsFiniteSet(1..Len(t)) /\ P \subseteq 1..Len(t)
    BY <2>1, FS_Interval DEF Positions
  <2>3. IsFiniteSet(P)
    <3> HIDE DEF P
    <3> QED
      BY <2>2, FS_Subset
  <2> QED
    BY <2>1, <2>3 DEF Positions
<1>2. Count(t, s) = Cardinality(P)
    BY DEF Count
<1> HIDE DEF P
<1>3. Cardinality(P) = 0 => P = {}
    BY <1>1, FS_EmptySet
<1>4. Cardinality(P) = 1 => \A i, j \in P : i = j
  <2> SUFFICES ASSUME Cardinality(P) = 1 PROVE \A i, j \in P : i = j
    OBVIOUS
  <2>1. PICK i : P = {i}
    BY <1>1, FS_Singleton
  <2> QED
    BY <2>1
<1> QED
    BY <1>1, <1>2, <1>3, <1>4

\* What stands between the tags of the block behind the thought.
LEMMA FramedFacts ==
    ASSUME NEW m \in Seq(Symbols), NEW open, NEW close,
           AfterThink(m, 1) # 0,
           Framed(SubSeq(m, AfterThink(m, 1), Len(m)), open, close)
    PROVE  LET a == AfterThink(m, 1)
               rest == SubSeq(m, a, Len(m))
           IN  /\ a \in 4..(Len(m) - 1)
               /\ m[a] = open /\ m[Len(m)] = close
               /\ Inside(rest, 1, Len(rest)) = Inside(m, a, Len(m))
               /\ Inside(m, a, Len(m)) \in Seq(Symbols)
               /\ Len(Inside(m, a, Len(m))) = Len(m) - a - 1
               /\ \A i \in 1..(Len(m) - a - 1) : Inside(m, a, Len(m))[i] = m[a + i]
<1> DEFINE a == AfterThink(m, 1)
           n == Len(m)
           rest == SubSeq(m, a, n)
           l == Len(rest)
<1>1. n \in Nat /\ \A i \in 1..n : m[i] \in Symbols
    BY SymbolAt
<1>2. a \in 4..(n + 1)
  <2>1. a \in (1 + 3)..(Len(m) + 1)
    BY AfterThinkFacts
  <2> HIDE DEF a
  <2> QED
    BY <2>1
<1>3. Framed(rest, open, close)
    OBVIOUS
<1> HIDE DEF a
<1>4. /\ rest \in Seq(Symbols)
      /\ l = IF a <= n THEN n - a + 1 ELSE 0
      /\ \A i \in 1..(n - a + 1) : rest[i] = m[a + i - 1]
  <2>1. a \in Int /\ n \in Int /\ \A i \in a..n : m[i] \in Symbols
    <3> HIDE DEF n
    <3> QED
      BY <1>1, <1>2
  <2> HIDE DEF n
  <2> QED
    BY <2>1, SubSeqProperties
<1>5. l >= 2 /\ rest[1] = open /\ rest[l] = close
    BY <1>3 DEF Framed
<1> DEFINE u == SubSeq(rest, 1 + 1, l - 1)
           v == SubSeq(m, a + 1, n - 1)
<1> HIDE DEF l, rest, n
<1>6. /\ l = n - a + 1 /\ a \in 4..(n - 1)
      /\ m[a] = open /\ m[n] = close
  <2>1. l = n - a + 1 /\ a \in 4..(n - 1)
    BY <1>1, <1>2, <1>4, <1>5
  <2>2. /\ 1 \in 1..(n - a + 1) /\ a + 1 - 1 = a
        /\ l \in 1..(n - a + 1) /\ a + l - 1 = n
    BY <1>1, <2>1
  <2>3. rest[1] = m[a] /\ rest[l] = m[n]
    BY <1>4, <2>2
  <2> QED
    BY <1>5, <2>1, <2>3
<1>7. /\ v \in Seq(Symbols)
      /\ Len(v) = n - a - 1
      /\ \A i \in 1..(n - a - 1) : v[i] = m[a + i]
  <2>1. a \in Nat /\ n \in 1..Len(m) /\ a < n
    BY <1>1, <1>6 DEF n
  <2> HIDE DEF v
  <2> QED
    BY <2>1, InsideFacts DEF v, Inside
<1>8. /\ u \in Seq(Symbols)
      /\ Len(u) = n - a - 1
      /\ \A i \in 1..(n - a - 1) : u[i] = m[a + i]
  <2>1. /\ 1 + 1 \in Int /\ l - 1 \in Int
        /\ \A i \in (1 + 1)..(l - 1) : rest[i] \in Symbols
    <3>1. \A i \in (1 + 1)..(l - 1) : i \in 1..(n - a + 1) /\ a + i - 1 \in 1..n
      BY <1>1, <1>6
    <3>2. l - 1 \in Int
      BY <1>1, <1>6
    <3> QED
      BY <1>1, <1>4, <3>1, <3>2
  <2>2. /\ u \in Seq(Symbols)
        /\ Len(u) = IF 1 + 1 <= l - 1 THEN (l - 1) - (1 + 1) + 1 ELSE 0
        /\ \A i \in 1..((l - 1) - (1 + 1) + 1) : u[i] = rest[(1 + 1) + i - 1]
    BY <2>1, SubSeqProperties
  <2> HIDE DEF u
  <2>3. Len(u) = n - a - 1
    BY <1>1, <1>6, <2>2
  <2>4. \A i \in 1..(n - a - 1) : u[i] = rest[i + 1] /\ i + 1 \in 1..(n - a + 1)
    BY <1>1, <1>6, <2>2
  <2>5. \A i \in 1..(n - a - 1) : rest[i + 1] = m[a + i]
    BY <1>1, <1>2, <1>4, <2>4
  <2> QED
    BY <2>2, <2>3, <2>4, <2>5
<1>9. u = v
  <2>1. Len(u) = Len(v) /\ \A i \in 1..Len(u) : u[i] = v[i]
    BY <1>7, <1>8
  <2> HIDE DEF u, v
  <2> QED
    BY <1>7, <1>8, <2>1, SeqEqual
<1> QED
    BY <1>6, <1>7, <1>9 DEF Inside, a, l, rest, n

\* A generation that parses as a tool call ends with it, and has no tag of an
\* answer.
LEMMA ToolCallFacts ==
    ASSUME NEW m \in Seq(Symbols), ParsesAsTool(m)
    PROVE  LET a == AfterThink(m, 1)
           IN  /\ a # 0 /\ a \in 4..Len(m) /\ Len(m) = a + 2
               /\ m[a] = "<tool_call>" /\ m[a + 1] \in Payloads
               /\ m[a + 2] = "</tool_call>"
               /\ \A i \in 1..Len(m) :
                    m[i] \notin {"legacy", "<answer>", "</answer>"}
<1> DEFINE a == AfterThink(m, 1)
           rest == SubSeq(m, a, Len(m))
           body == Inside(m, a, Len(m))
<1>1. Len(m) \in Nat /\ DOMAIN m = 1..Len(m)
    BY SymbolAt
<1>2. /\ a # 0 /\ Framed(rest, "<tool_call>", "</tool_call>")
      /\ PayloadOK(Inside(rest, 1, Len(rest)), TRUE)
      /\ Count(m, "<answer>") = 0 /\ Count(m, "</answer>") = 0
      /\ ~Legacy(m)
    BY DEF ParsesAsTool
<1>3. /\ a \in 4..(Len(m) - 1)
      /\ m[a] = "<tool_call>" /\ m[Len(m)] = "</tool_call>"
      /\ Inside(rest, 1, Len(rest)) = body
      /\ Len(body) = Len(m) - a - 1
      /\ \A i \in 1..(Len(m) - a - 1) : body[i] = m[a + i]
    BY <1>2, FramedFacts
<1>4. Len(body) = 1 /\ body[1] \in Payloads
    BY <1>2, <1>3 DEF PayloadOK
<1> HIDE DEF a, rest, body
<1>5. /\ a \in 4..Len(m) /\ Len(m) = a + 2 /\ m[a + 1] \in Payloads
      /\ m[a + 2] = "</tool_call>"
  <2>1. Len(m) - a - 1 = 1 /\ 1 \in 1..(Len(m) - a - 1)
    <3>1. Len(m) - a - 1 = Len(body)
      BY <1>3
    <3>2. Len(m) - a - 1 = 1
      BY <1>4, <3>1
    <3> QED
      BY <3>2
  <2>2. body[1] = m[a + 1]
    BY <1>3, <2>1
  <2>3. a \in 4..Len(m) /\ Len(m) = a + 2
    <3> DEFINE n == Len(m)
    <3>1. a \in 4..(n - 1) /\ n \in Nat /\ n - a - 1 = 1
      BY <1>1, <1>3, <2>1
    <3>2. a \in 4..n /\ n = a + 2
      <4> HIDE DEF n
      <4> QED
        BY <3>1
    <3> QED
      BY <3>2
  <2> QED
    BY <1>3, <1>4, <2>2, <2>3
<1>6. \A i \in 1..Len(m) : m[i] \notin {"legacy", "<answer>", "</answer>"}
    BY <1>1, <1>2, CountFacts DEF Legacy
<1> QED
    BY <1>2, <1>3, <1>5, <1>6 DEF a

\* One that parses as an answer ends with the only block of that kind.
LEMMA AnswerFacts ==
    ASSUME NEW m \in Seq(Symbols), ParsedAnswer(m) # NoAnswer
    PROVE  LET a == AfterThink(m, 1)
           IN  /\ a # 0 /\ a \in 4..(Len(m) - 2)
               /\ m[a] = "<answer>" /\ m[Len(m)] = "</answer>"
               /\ ParsedAnswer(m) \in Seq(Symbols) /\ ~Control(ParsedAnswer(m))
               /\ Len(ParsedAnswer(m)) = Len(m) - a - 1
               /\ \A i \in 1..(Len(m) - a - 1) : ParsedAnswer(m)[i] = m[a + i]
               /\ \A i \in 1..Len(m) :
                    /\ m[i] # "legacy"
                    /\ m[i] = "<answer>" => i = a
                    /\ m[i] = "</answer>" => i = Len(m)
<1> DEFINE a == AfterThink(m, 1)
           rest == SubSeq(m, a, Len(m))
           body == Inside(m, a, Len(m))
           q == ParsedAnswer(m)
<1>1. Len(m) \in Nat /\ DOMAIN m = 1..Len(m)
    BY SymbolAt
<1>2. /\ a # 0 /\ Framed(rest, "<answer>", "</answer>")
      /\ q = Inside(rest, 1, Len(rest)) /\ ~Control(q)
      /\ Count(m, "<answer>") = 1 /\ Count(m, "</answer>") = 1
      /\ ~Legacy(m)
    BY DEF ParsedAnswer
<1>3. /\ a \in 4..(Len(m) - 1)
      /\ m[a] = "<answer>" /\ m[Len(m)] = "</answer>"
      /\ Inside(rest, 1, Len(rest)) = body
      /\ body \in Seq(Symbols)
      /\ Len(body) = Len(m) - a - 1
      /\ \A i \in 1..(Len(m) - a - 1) : body[i] = m[a + i]
    BY <1>2, FramedFacts
<1>4. q = body
    BY <1>2, <1>3
<1>5. Len(q) # 0
  <2> HIDE DEF q
  <2> QED
    BY <1>3, <1>4, EmptySeq DEF NoAnswer, q
<1> HIDE DEF a, rest, body, q
<1>6. a \in 4..(Len(m) - 2)
    BY <1>1, <1>3, <1>4, <1>5
<1>7. a \in 1..Len(m) /\ Len(m) \in 1..Len(m)
    BY <1>1, <1>3
<1>8. \A i \in 1..Len(m) : /\ m[i] # "legacy"
                           /\ m[i] = "<answer>" => i = a
                           /\ m[i] = "</answer>" => i = Len(m)
  <2>1. \A i \in 1..Len(m) : m[i] # "legacy"
    BY <1>1, <1>2 DEF Legacy
  <2>2. \A i, j \in 1..Len(m) : m[i] = "<answer>" /\ m[j] = "<answer>" => i = j
    BY <1>2, CountFacts
  <2>3. \A i, j \in 1..Len(m) : m[i] = "</answer>" /\ m[j] = "</answer>" => i = j
    BY <1>2, CountFacts
  <2> QED
    BY <1>3, <1>7, <2>1, <2>2, <2>3
<1> QED
    BY <1>2, <1>3, <1>4, <1>6, <1>8 DEF a, q

-----------------------------------------------------------------------------
\* Where the text goes on behind a tool call that ends at e, or 0.
AfterResponse(t, e) ==
    LET b == Skip(t, e + 1, "user")
        r == Closes(t, b, "<tool_response>", "</tool_response>")
    IN  IF r # 0 /\ ~Control(Inside(t, b, r))
        THEN Skip(t, r + 1, "assistant") ELSE 0

\* A turn that starts with such a generation goes on behind its response.
LEMMA CallTurn ==
    ASSUME NEW t \in Seq(Symbols), NEW m \in Seq(Symbols), NEW k \in Nat,
           Window(t, k, m), ParsesAsTool(m)
    PROVE  LET d == AfterResponse(t, k + Len(m))
           IN  Turn(t, k + 1) = (d # 0 /\ Turn(t, d))
<1> DEFINE a == AfterThink(m, 1)
           c == k + a
           e == k + Len(m)
<1>1. /\ a # 0 /\ a \in 4..Len(m) /\ Len(m) = a + 2
      /\ m[a] = "<tool_call>" /\ m[a + 1] \in Payloads
      /\ m[a + 2] = "</tool_call>"
    BY ToolCallFacts
<1>2. Len(t) \in Nat /\ Len(m) \in Nat /\ e <= Len(t)
    BY SymbolAt DEF Window
<1>3. AfterThink(t, k + 1) = c
    BY <1>1, WindowThink
<1>4. c \in 1..Len(t) /\ t[c] = "<tool_call>" /\ t[c + 1] \in Payloads
  <2>1. a \in 1..Len(m) /\ a + 1 \in 1..Len(m) /\ k + (a + 1) = k + a + 1
        /\ k + a \in 1..Len(t)
    <3> HIDE DEF a
    <3> QED
      BY <1>1, <1>2
  <2>2. t[k + a] = m[a] /\ t[k + (a + 1)] = m[a + 1]
    <3> HIDE DEF a
    <3> QED
      BY <2>1 DEF Window
  <2> QED
    BY <1>1, <2>1, <2>2
<1>5. FirstAfter(t, c, e, "</tool_call>") /\ e = c + 2
  <2> HIDE DEF a
  <2>1. FirstAfter(m, a, a + 2, "</tool_call>")
    <3>1. \A j \in 1..Len(m) : j > a /\ j < a + 2 => m[j] # "</tool_call>"
      <4>1. \A j \in 1..Len(m) : j > a /\ j < a + 2 => j = a + 1
        BY <1>1
      <4>2. m[a + 1] # "</tool_call>"
        BY <1>1 DEF Payloads
      <4> QED
        BY <4>1, <4>2
    <3>2. a + 2 \in 1..Len(m) /\ a + 2 > a
      BY <1>1
    <3> QED
      BY <1>1, <3>1, <3>2 DEF FirstAfter
  <2>2. FirstAfter(t, k + a, k + (a + 2), "</tool_call>")
    <3>1. a \in Nat
      BY <1>1
    <3> QED
      BY <2>1, <3>1, WindowFirstAfter
  <2> QED
    BY <1>1, <2>2
<1>6. Closes(t, c, "<tool_call>", "</tool_call>") = e
    BY <1>4, <1>5, ClosesAt
<1>7. PayloadOK(Inside(t, c, e), FALSE)
  <2> HIDE DEF c, e
  <2>1. c \in Nat /\ e \in 1..Len(t) /\ c < e /\ e - c - 1 = 1
    BY <1>2, <1>4, <1>5
  <2> DEFINE u == Inside(t, c, e)
  <2>2. Len(u) = e - c - 1 /\ \A i \in 1..(e - c - 1) : u[i] = t[c + i]
    BY <2>1, InsideFacts
  <2> HIDE DEF u
  <2>3. Len(u) = 1 /\ 1 \in 1..(e - c - 1)
    BY <2>1, <2>2
  <2>4. u[1] = t[c + 1]
    BY <2>2, <2>3
  <2> QED
    BY <1>4, <2>3, <2>4 DEF u, PayloadOK
<1>8. AfterCall(t, c) = AfterResponse(t, e)
    BY <1>6, <1>7 DEF AfterCall, AfterResponse
<1>9. k + 1 \in 1..(Len(t) + 1) /\ c # 0 /\ e # 0
  <2> HIDE DEF a
  <2> QED
    BY <1>1, <1>2
<1>10. Turn(t, k + 1) = TurnBody(t, TurnFun(t), k + 1)
    BY <1>9, TurnUnfolds
<1> HIDE DEF c, e
<1> QED
    BY <1>3, <1>6, <1>8, <1>9, <1>10 DEF TurnBody, Turn, c, e

\* Behind the end of the text there is no turn.
LEMMA NoTurnAtEnd ==
    ASSUME NEW t \in Seq(Symbols)
    PROVE  ~Turn(t, Len(t) + 1)
<1>1. Len(t) \in Nat /\ Len(t) + 1 \in 1..(Len(t) + 1) /\ Len(t) + 1 \in Nat
      /\ Len(t) + 1 \notin 1..Len(t)
    BY SymbolAt
<1>2. AfterThink(t, Len(t) + 1) = 0
    BY <1>1, AfterThinkFacts
<1>3. Turn(t, Len(t) + 1) = TurnBody(t, TurnFun(t), Len(t) + 1)
    BY <1>1, TurnUnfolds
<1> QED
    BY <1>2, <1>3 DEF TurnBody

\* A rendered response is skipped as a whole.
LEMMA WholeResponse ==
    ASSUME NEW t \in Seq(Symbols), NEW e \in Nat, NEW x \in Seq(Symbols),
           Window(t, e, Rendered(x))
    PROVE  AfterResponse(t, e) = e + Len(Rendered(x)) + 1
<1> DEFINE R == Rendered(x)
           n == Len(R)
<1>1. /\ n \in Nat /\ n >= 4
      /\ R[1] = "user" /\ R[2] = "<tool_response>"
      /\ R[n - 1] = "</tool_response>" /\ R[n] = "assistant"
      /\ \A i \in 3..(n - 2) : R[i] \notin Tags \union {"legacy"}
    BY RenderedFacts
<1>2. R \in Seq(Symbols) /\ Len(t) \in Nat /\ e + n <= Len(t)
      /\ \A i \in 1..n : t[e + i] = R[i]
    BY SymbolAt, RenderedFacts DEF Window
<1> HIDE DEF n, R
<1>3. /\ t[e + 1] = "user" /\ t[e + 2] = "<tool_response>"
      /\ t[e + n - 1] = "</tool_response>" /\ t[e + n] = "assistant"
      /\ \A j \in (e + 3)..(e + n - 2) : t[j] \notin Tags \union {"legacy"}
  <2>1. t[e + 1] = R[1] /\ t[e + 2] = R[2] /\ t[e + n] = R[n]
    <3>1. 1 \in 1..n /\ 2 \in 1..n /\ n \in 1..n
      BY <1>1
    <3> QED
      BY <1>2, <3>1
  <2>2. t[e + (n - 1)] = R[n - 1] /\ e + (n - 1) = e + n - 1
    <3>1. n - 1 \in 1..n /\ e + (n - 1) = e + n - 1
      BY <1>1
    <3> QED
      BY <1>2, <3>1
  <2>3. ASSUME NEW j \in (e + 3)..(e + n - 2)
        PROVE  t[j] \notin Tags \union {"legacy"}
    <3>1. j - e \in 3..(n - 2) /\ j - e \in 1..n /\ e + (j - e) = j
      BY <1>1
    <3>2. t[e + (j - e)] = R[j - e]
      BY <1>2, <3>1
    <3> QED
      BY <1>1, <3>1, <3>2
  <2> QED
    BY <1>1, <2>1, <2>2, <2>3
<1> DEFINE b == e + 2
           r == e + n - 1
<1>4. /\ e + 1 \in 1..Len(t) /\ b \in 1..Len(t) /\ r \in 1..Len(t) /\ r > b
      /\ r + 1 \in 1..Len(t) /\ r + 1 = e + n /\ (r + 1) + 1 = e + n + 1
      /\ (e + 1) + 1 = b /\ b \in Nat /\ r # 0
    BY <1>1, <1>2
<1>5. Skip(t, e + 1, "user") = b
    BY <1>3, <1>4, SkipFacts
<1>6. FirstAfter(t, b, r, "</tool_response>")
  <2>1. \A j \in 1..Len(t) : j > b /\ j < r => j \in (e + 3)..(e + n - 2)
    BY <1>1, <1>2
  <2>2. "</tool_response>" \in Tags
    BY DEF Tags
  <2>3. \A j \in 1..Len(t) : j > b /\ j < r => t[j] # "</tool_response>"
    BY <1>3, <2>1, <2>2
  <2> QED
    BY <1>3, <1>4, <2>3 DEF FirstAfter
<1>7. Closes(t, b, "<tool_response>", "</tool_response>") = r
    BY <1>3, <1>4, <1>6, ClosesAt
<1>8. ~Control(Inside(t, b, r))
  <2> DEFINE u == SubSeq(t, b + 1, r - 1)
  <2>1. /\ b + 1 \in Int /\ r - 1 \in Int
        /\ (r - 1) - (b + 1) + 1 \in Nat
        /\ \A i \in (b + 1)..(r - 1) : i \in 1..Len(t)
        /\ (b + 1 <= r - 1) \/ (r - 1) - (b + 1) + 1 = 0
    BY <1>1, <1>2
  <2>2. \A i \in (b + 1)..(r - 1) : t[i] \in Symbols
    BY <2>1, SymbolAt
  <2>3. /\ u \in Seq(Symbols)
        /\ Len(u) = IF b + 1 <= r - 1 THEN (r - 1) - (b + 1) + 1 ELSE 0
        /\ \A i \in 1..((r - 1) - (b + 1) + 1) : u[i] = t[(b + 1) + i - 1]
    <3> HIDE DEF b, r
    <3> QED
      BY <2>1, <2>2, SubSeqProperties
  <2> HIDE DEF u
  <2>4. \A i \in 1..((r - 1) - (b + 1) + 1) :
            (b + 1) + i - 1 \in (e + 3)..(e + n - 2)
    BY <1>1, <1>2
  <2>5. Len(u) = (r - 1) - (b + 1) + 1
    <3> HIDE DEF b, r
    <3> QED
      BY <2>1, <2>3
  <2>6. Harmless(u)
    <3> HIDE DEF b, r
    <3> QED
      BY <1>3, <2>3, <2>4, <2>5 DEF Harmless
  <2> QED
    BY <2>3, <2>6, HarmlessFacts DEF u, Inside
<1>9. Skip(t, r + 1, "assistant") = (r + 1) + 1
  <2>1. t[r + 1] = "assistant" /\ r + 1 \in Int
    BY <1>3, <1>4
  <2> HIDE DEF r
  <2> QED
    BY <1>4, <2>1, SkipFacts
<1>10. AfterResponse(t, e) = (r + 1) + 1
  <2> HIDE DEF b, r
  <2> QED
    BY <1>4, <1>5, <1>7, <1>8, <1>9 DEF AfterResponse
<1> QED
    BY <1>4, <1>10 DEF n, R

\* A response that was cut is not, or there is nothing behind it.
LEMMA CutResponse ==
    ASSUME NEW t \in Seq(Symbols), NEW e \in Nat, NEW x \in Seq(Symbols),
           NEW n \in Nat, n < Len(Rendered(x)), Len(t) = e + n,
           \A i \in 1..n : t[e + i] = Rendered(x)[i]
    PROVE  AfterResponse(t, e) \in {0, Len(t) + 1}
<1> DEFINE R == Rendered(x)
<1>1. /\ Len(R) \in Nat /\ Len(R) >= 4
      /\ R[1] = "user" /\ R[2] = "<tool_response>"
      /\ \A i \in 3..(Len(R) - 2) : R[i] \notin Tags \union {"legacy"}
    BY RenderedFacts
<1>2. n < Len(R) /\ \A i \in 1..n : t[e + i] = R[i]
    OBVIOUS
<1> HIDE DEF R
<1>3. CASE n < 2
  <2> DEFINE b == Skip(t, e + 1, "user")
  <2>1. b \notin 1..Len(t)
    <3>1. CASE n = 0
      <4>1. e + 1 \notin 1..Len(t) /\ e + 1 \in Int
        BY <3>1
      <4> QED
        BY <4>1, SkipFacts
    <3>2. CASE n = 1
      <4>1. t[e + 1] = "user" /\ e + 1 \in 1..Len(t) /\ e + 1 \in Int
        BY <1>1, <1>2, <3>2
      <4>2. b = (e + 1) + 1
        <5> HIDE DEF b
        <5> QED
          BY <4>1, SkipFacts DEF b
      <4> HIDE DEF b
      <4> QED
        BY <4>2, <3>2
    <3> QED
      BY <1>3, <3>1, <3>2
  <2>2. b \in Int
    <3>1. b \in {e + 1, (e + 1) + 1}
      BY SkipFacts
    <3> HIDE DEF b
    <3> QED
      BY <3>1
  <2>3. Closes(t, b, "<tool_response>", "</tool_response>") = 0
    <3> HIDE DEF b
    <3> QED
      BY <2>1, <2>2, NeverClosed
  <2> QED
    BY <2>3 DEF AfterResponse
<1>4. CASE n >= 2
  <2> DEFINE b == e + 2
  <2>1. /\ t[e + 1] = "user" /\ t[e + 2] = "<tool_response>"
        /\ \A j \in 1..Len(t) : j > b /\ j <= e + (Len(R) - 2) =>
                t[j] \notin Tags \union {"legacy"}
    <3>1. t[e + 1] = R[1] /\ t[e + 2] = R[2]
      <4>1. 1 \in 1..n /\ 2 \in 1..n
        BY <1>4
      <4> QED
        BY <1>2, <4>1
    <3>2. ASSUME NEW j \in 1..Len(t), j > b, j <= e + (Len(R) - 2)
          PROVE  t[j] \notin Tags \union {"legacy"}
      <4>1. j - e \in 3..(Len(R) - 2) /\ j - e \in 1..n /\ e + (j - e) = j
        BY <1>1, <1>2, <3>2
      <4>2. t[e + (j - e)] = R[j - e]
        BY <1>2, <4>1
      <4> QED
        BY <1>1, <4>1, <4>2
    <3> QED
      BY <1>1, <3>1, <3>2
  <2>2. /\ e + 1 \in 1..Len(t) /\ e + 1 \in Int /\ (e + 1) + 1 = b /\ b \in Int
    BY <1>4
  <2>3. Skip(t, e + 1, "user") = b
    BY <2>1, <2>2, SkipFacts
  <2> DEFINE r == Closes(t, b, "<tool_response>", "</tool_response>")
  <2>4. CASE r = 0
    BY <2>3, <2>4 DEF AfterResponse
  <2>5. CASE r # 0
    <3>1. r \in (b + 1)..Len(t) /\ t[r] = "</tool_response>"
      <4> HIDE DEF b
      <4> QED
        BY <2>2, <2>5, ClosesFacts
    <3> HIDE DEF r
    <3>2. r = Len(t)
      <4>1. "</tool_response>" \in Tags
        BY DEF Tags
      <4>2. ~(r <= e + (Len(R) - 2))
        BY <2>1, <2>2, <3>1, <4>1
      <4> QED
        BY <1>1, <1>2, <3>1, <4>2
    <3>3. Skip(t, r + 1, "assistant") = Len(t) + 1
      <4>1. r + 1 \in Int /\ r + 1 \notin 1..Len(t) /\ r + 1 = Len(t) + 1
        BY <3>1, <3>2
      <4> QED
        BY <4>1, SkipFacts
    <3> QED
      BY <2>3, <3>3 DEF AfterResponse, r
  <2> QED
    BY <2>4, <2>5
<1> QED
    BY <1>3, <1>4

\* How the answer block of a generation looks in the text it ends.
LEMMA AnswerBlock ==
    ASSUME NEW t \in Seq(Symbols), NEW m \in Seq(Symbols), NEW k \in Nat,
           Window(t, k, m), Len(t) = k + Len(m), ParsedAnswer(m) # NoAnswer
    PROVE  LET c == k + AfterThink(m, 1)
           IN  /\ AfterThink(t, k + 1) = c /\ c \in (k + 4)..(Len(t) - 2)
               /\ t[c] = "<answer>"
               /\ Closes(t, c, "<answer>", "</answer>") = Len(t)
               /\ Inside(t, c, Len(t)) = ParsedAnswer(m)
<1> DEFINE a == AfterThink(m, 1)
           c == k + a
           q == ParsedAnswer(m)
<1>1. /\ a # 0 /\ a \in 4..(Len(m) - 2)
      /\ m[a] = "<answer>" /\ m[Len(m)] = "</answer>"
      /\ q \in Seq(Symbols)
      /\ Len(q) = Len(m) - a - 1
      /\ \A i \in 1..(Len(m) - a - 1) : q[i] = m[a + i]
      /\ \A i \in 1..Len(m) : m[i] = "</answer>" => i = Len(m)
    BY AnswerFacts
<1>2. Len(t) \in Nat /\ Len(m) \in Nat
    BY SymbolAt
<1>3. AfterThink(t, k + 1) = c
    BY <1>1, WindowThink
<1> HIDE DEF a, q
<1>4. c \in (k + 4)..(Len(t) - 2) /\ c \in 1..Len(t) /\ c \in Nat
    BY <1>1, <1>2
<1>5. t[c] = "<answer>"
  <2>1. a \in 1..Len(m)
    BY <1>1, <1>2
  <2> QED
    BY <1>1, <2>1 DEF Window
<1>6. FirstAfter(m, a, Len(m), "</answer>")
  <2>1. Len(m) \in 1..Len(m) /\ Len(m) > a
    BY <1>1, <1>2
  <2>2. ASSUME NEW j \in 1..Len(m), j < Len(m) PROVE m[j] # "</answer>"
    BY <1>1, <2>2
  <2> QED
    BY <1>1, <2>1, <2>2 DEF FirstAfter
<1>7. FirstAfter(t, c, Len(t), "</answer>")
  <2>1. a \in Nat
    BY <1>1
  <2> QED
    BY <1>6, <2>1, WindowFirstAfter
<1>8. Closes(t, c, "<answer>", "</answer>") = Len(t)
  <2> HIDE DEF c
  <2> QED
    BY <1>4, <1>5, <1>7, ClosesAt
<1>9. Inside(t, c, Len(t)) = q
  <2> DEFINE u == Inside(t, c, Len(t))
  <2>1. /\ u \in Seq(Symbols)
        /\ Len(u) = Len(t) - c - 1
        /\ \A i \in 1..(Len(t) - c - 1) : u[i] = t[c + i]
    <3>1. Len(t) \in 1..Len(t) /\ c < Len(t)
      BY <1>2, <1>4
    <3> HIDE DEF c
    <3> QED
      BY <1>4, <3>1, InsideFacts
  <2> HIDE DEF u
  <2>2. Len(u) = Len(q)
    BY <1>1, <1>2, <2>1
  <2>3. ASSUME NEW i \in 1..Len(u) PROVE u[i] = q[i]
    <3>1. /\ i \in 1..(Len(t) - c - 1) /\ i \in 1..(Len(m) - a - 1)
          /\ a + i \in 1..Len(m) /\ c + i = k + (a + i)
      BY <1>1, <1>2, <2>1
    <3>2. u[i] = t[k + (a + i)]
      BY <2>1, <3>1
    <3>3. q[i] = m[a + i]
      BY <1>1, <3>1
    <3>4. t[k + (a + i)] = m[a + i]
      BY <3>1 DEF Window
    <3> QED
      BY <3>2, <3>3, <3>4
  <2>4. u = q
    BY <1>1, <2>1, <2>2, <2>3, SeqEqual
  <2> QED
    BY <2>4 DEF u
<1> QED
    BY <1>3, <1>4, <1>5, <1>8, <1>9 DEF a, q

\* The turn of such a generation is good.
LEMMA AnswerTurn ==
    ASSUME NEW t \in Seq(Symbols), NEW m \in Seq(Symbols), NEW k \in Nat,
           Window(t, k, m), Len(t) = k + Len(m), ParsedAnswer(m) # NoAnswer
    PROVE  Turn(t, k + 1)
<1> DEFINE c == k + AfterThink(m, 1)
<1>1. /\ AfterThink(t, k + 1) = c /\ c \in (k + 4)..(Len(t) - 2)
      /\ t[c] = "<answer>"
      /\ Closes(t, c, "<answer>", "</answer>") = Len(t)
      /\ Inside(t, c, Len(t)) = ParsedAnswer(m)
    BY AnswerBlock
<1>2. ~Control(ParsedAnswer(m))
    BY AnswerFacts
<1> HIDE DEF c
<1>3. c # 0 /\ c \in Int /\ Len(t) > c + 1 /\ k + 1 \in 1..(Len(t) + 1)
    BY <1>1, SymbolAt
<1>4. Closes(t, c, "<tool_call>", "</tool_call>") = 0
    BY <1>1, <1>3, NeverClosed
<1>5. FinalAnswer(t, c)
    BY <1>1, <1>2, <1>3 DEF FinalAnswer
<1>6. Turn(t, k + 1) = TurnBody(t, TurnFun(t), k + 1)
    BY <1>3, TurnUnfolds
<1> QED
    BY <1>1, <1>3, <1>4, <1>5, <1>6 DEF TurnBody

\* Its answer is extracted when the text has no other.
LEMMA AnswerExtracted ==
    ASSUME NEW t \in Seq(Symbols), NEW m \in Seq(Symbols), NEW k \in Nat,
           Window(t, k, m), Len(t) = k + Len(m), ParsedAnswer(m) # NoAnswer,
           \A i \in 1..k : t[i] # "<answer>"
    PROVE  extract_answer(t) = ParsedAnswer(m)
<1> DEFINE a == AfterThink(m, 1)
           c == k + a
<1>1. /\ c \in (k + 4)..(Len(t) - 2)
      /\ t[c] = "<answer>"
      /\ Closes(t, c, "<answer>", "</answer>") = Len(t)
      /\ Inside(t, c, Len(t)) = ParsedAnswer(m)
    BY AnswerBlock
<1>2. \A i \in 1..Len(m) : m[i] = "<answer>" => i = a
    BY AnswerFacts
<1> HIDE DEF a
<1>3. /\ Len(t) \in Nat /\ Len(m) \in Nat
      /\ c \in 1..Len(t) /\ c # 0 /\ Len(t) # 0 /\ 1 \in 1..(Len(t) + 1)
    BY <1>1, SymbolAt
<1>4. ASSUME NEW j \in 1..Len(t), j < c PROVE t[j] # "<answer>"
  <2>1. CASE j > k
    <3>1. j - k \in 1..Len(m) /\ j - k # a /\ k + (j - k) = j
      BY <1>3, <1>4, <2>1
    <3>2. t[k + (j - k)] = m[j - k]
      BY <3>1 DEF Window
    <3> QED
      BY <1>2, <3>1, <3>2
  <2>2. CASE j <= k
    BY <2>2
  <2> QED
    BY <2>1, <2>2
<1> HIDE DEF c
<1>5. Find(t, 1, "<answer>") = c
    BY <1>1, <1>3, <1>4, FindIs
<1>6. Last(t, 1) = c
    BY <1>1, <1>3, <1>5, LastCases, LastAtEnd
<1> QED
    BY <1>1, <1>3, <1>6, ExtractByLast

-----------------------------------------------------------------------------
\* Both parts of a concatenation are parts of it,
LEMMA ConcatWindow ==
    ASSUME NEW t \in Seq(Symbols), NEW u \in Seq(Symbols)
    PROVE  /\ t \o u \in Seq(Symbols) /\ Len(t \o u) = Len(t) + Len(u)
           /\ Window(t \o u, 0, t) /\ Window(t \o u, Len(t), u)
<1> DEFINE w == t \o u
<1>1. /\ w \in Seq(Symbols) /\ Len(w) = Len(t) + Len(u)
      /\ \A i \in 1..(Len(t) + Len(u)) :
            w[i] = IF i <= Len(t) THEN t[i] ELSE u[i - Len(t)]
    BY ConcatProperties
<1>2. Len(t) \in Nat /\ Len(u) \in Nat
    BY SymbolAt
<1> HIDE DEF w
<1>3. ASSUME NEW i \in 1..Len(t) PROVE w[0 + i] = t[i]
  <2>1. i \in 1..(Len(t) + Len(u)) /\ i <= Len(t) /\ 0 + i = i
    BY <1>2
  <2> QED
    BY <1>1, <2>1
<1>4. ASSUME NEW i \in 1..Len(u) PROVE w[Len(t) + i] = u[i]
  <2>1. /\ Len(t) + i \in 1..(Len(t) + Len(u)) /\ ~(Len(t) + i <= Len(t))
        /\ (Len(t) + i) - Len(t) = i
    BY <1>2
  <2> QED
    BY <1>1, <2>1
<1>5. 0 + Len(t) <= Len(w) /\ Len(t) + Len(u) <= Len(w)
    BY <1>1, <1>2
<1> QED
    BY <1>1, <1>3, <1>4, <1>5 DEF Window, w

\* also where it begins a longer text.
LEMMA PartWindow ==
    ASSUME NEW t \in Seq(Symbols), NEW u \in Seq(Symbols), NEW w \in Seq(Symbols),
           Window(w, 0, t \o u)
    PROVE  Window(w, 0, t) /\ Window(w, Len(t), u)
<1> DEFINE v == t \o u
<1>1. /\ Len(v) = Len(t) + Len(u)
      /\ Window(v, 0, t) /\ Window(v, Len(t), u)
    BY ConcatWindow
<1>2. Window(w, 0, v)
    OBVIOUS
<1> HIDE DEF v
<1>3. Len(t) \in Nat /\ Len(u) \in Nat /\ Len(w) \in Nat
    BY SymbolAt
<1>4. \A i \in 1..(Len(t) + Len(u)) : w[i] = v[i]
  <2>1. \A i \in 1..(Len(t) + Len(u)) : 0 + i = i
    BY <1>3
  <2> QED
    BY <1>1, <1>2, <2>1 DEF Window
<1>5. ASSUME NEW i \in 1..Len(t) PROVE w[0 + i] = t[i]
  <2>1. i \in 1..(Len(t) + Len(u)) /\ 0 + i = i
    BY <1>3
  <2>2. v[0 + i] = t[i]
    BY <1>1 DEF Window
  <2> QED
    BY <1>4, <2>1, <2>2
<1>6. ASSUME NEW i \in 1..Len(u) PROVE w[Len(t) + i] = u[i]
  <2>1. Len(t) + i \in 1..(Len(t) + Len(u))
    BY <1>3
  <2>2. v[Len(t) + i] = u[i]
    BY <1>1 DEF Window
  <2> QED
    BY <1>4, <2>1, <2>2
<1>7. 0 + Len(t) <= Len(w) /\ Len(t) + Len(u) <= Len(w)
    BY <1>1, <1>2, <1>3 DEF Window
<1> QED
    BY <1>5, <1>6, <1>7 DEF Window

\* A text is a part of itself.
LEMMA WholeWindow ==
    ASSUME NEW t \in Seq(Symbols)
    PROVE  Window(t, 0, t)
<1>1. 0 + Len(t) <= Len(t) /\ \A i \in 1..Len(t) : 0 + i = i
    BY SymbolAt
<1> QED
    BY <1>1 DEF Window

-----------------------------------------------------------------------------
(* The invariant of the rollout: how far the reward's reader gets in every *)
(* text that begins with the response so far.                              *)

\* Every text that begins with t is right exactly if its rest is.
Passed(t) ==
    \A u \in Seq(Symbols) :
        Window(u, 0, t) => (Turn(u, 1) <=> Turn(u, Len(t) + 1))

\* t ends with a tool call that was not answered yet.
Awaiting(t) ==
    \E s, m \in Seq(Symbols) : t = s \o m /\ Passed(s) /\ ParsesAsTool(m)

NoLegacy(t) == \A i \in 1..Len(t) : t[i] # "legacy"
Unanswered(t) == \A i \in 1..Len(t) : t[i] \notin {"<answer>", "</answer>"}

Texts == text \in Seq(Symbols) /\ pending \in Seq(Symbols)

\* As long as every generation was well formed, the reader gets to its end.
WellFormed ==
    ~malformed =>
        /\ NoLegacy(text)
        /\ pc # "done" => Unanswered(text)
        /\ pc = "turn" => Passed(text)
        /\ pc = "observe" => Awaiting(text)

\* And when it is over both readers say the same.
Verdicts ==
    /\ pc # "done" => ~Answered
    /\ RewardAgreesWithRollout
    /\ Over /\ ~malformed /\ Answered => extract_answer(text) = answer

TextInv == Texts /\ WellFormed /\ Verdicts

\* Without a fragment only the turns decide.
LEMMA ValidateHere ==
    ASSUME NEW t \in Seq(Symbols), NoLegacy(t),
           \A i \in DOMAIN t : t[i] # "fragment"
    PROVE  validate_sequence(t) <=> Turn(t, 1)
<1>1. ~Legacy(t)
    BY SymbolAt DEF NoLegacy, Legacy, CompletedAt
<1> QED
    BY <1>1, ValidateByTurns

\* A text that stops where a turn should begin is not in the format.
LEMMA PassedAll ==
    ASSUME NEW t \in Seq(Symbols), Passed(t)
    PROVE  ~Turn(t, 1)
BY WholeWindow, NoTurnAtEnd DEF Passed

\* What is absent from two texts is absent from both together.
LEMMA ConcatKeeps ==
    ASSUME NEW t \in Seq(Symbols), NEW m \in Seq(Symbols)
    PROVE  /\ NoLegacy(t) /\ NoLegacy(m) => NoLegacy(t \o m)
           /\ Unanswered(t) /\ Unanswered(m) => Unanswered(t \o m)
<1> DEFINE w == t \o m
<1>1. /\ w \in Seq(Symbols) /\ Len(w) = Len(t) + Len(m)
      /\ \A i \in 1..(Len(t) + Len(m)) :
            w[i] = IF i <= Len(t) THEN t[i] ELSE m[i - Len(t)]
    BY ConcatProperties
<1>2. Len(t) \in Nat /\ Len(m) \in Nat
    BY SymbolAt
<1> HIDE DEF w
<1>3. ASSUME NEW i \in 1..Len(w)
      PROVE  \/ i \in 1..Len(t) /\ w[i] = t[i]
             \/ i - Len(t) \in 1..Len(m) /\ w[i] = m[i - Len(t)]
    BY <1>1, <1>2
<1>4. NoLegacy(t) /\ NoLegacy(m) => NoLegacy(w)
    BY <1>3 DEF NoLegacy
<1>5. Unanswered(t) /\ Unanswered(m) => Unanswered(w)
    BY <1>3 DEF Unanswered
<1> QED
    BY <1>4, <1>5 DEF w

\* The response to a tool call is passed with it.
LEMMA ResponsePassed ==
    ASSUME NEW t \in Seq(Symbols), Awaiting(t), NEW x \in Seq(Symbols)
    PROVE  Passed(t \o Rendered(x))
<1>1. PICK s, m \in Seq(Symbols) : t = s \o m /\ Passed(s) /\ ParsesAsTool(m)
    BY DEF Awaiting
<1> DEFINE R == Rendered(x)
<1>2. R \in Seq(Symbols)
    BY RenderedFacts
<1> HIDE DEF R
<1>3. /\ Len(t) = Len(s) + Len(m) /\ t \o R \in Seq(Symbols)
      /\ Len(t \o R) = Len(t) + Len(R)
    BY <1>1, <1>2, ConcatWindow
<1>4. Len(s) \in Nat /\ Len(m) \in Nat /\ Len(R) \in Nat /\ Len(t) \in Nat
    BY <1>2, SymbolAt
<1> SUFFICES ASSUME NEW u \in Seq(Symbols), Window(u, 0, t \o R)
             PROVE  Turn(u, 1) <=> Turn(u, Len(t \o R) + 1)
    BY DEF Passed, R
<1>5. Window(u, 0, t) /\ Window(u, Len(t), R)
    BY <1>2, PartWindow
<1>6. Window(u, 0, s) /\ Window(u, Len(s), m)
    BY <1>1, <1>5, PartWindow
<1>7. Turn(u, 1) <=> Turn(u, Len(s) + 1)
    BY <1>1, <1>6 DEF Passed
<1> DEFINE d == AfterResponse(u, Len(s) + Len(m))
<1>8. Turn(u, Len(s) + 1) = (d # 0 /\ Turn(u, d))
    BY <1>1, <1>4, <1>6, CallTurn
<1>9. d = Len(t) + Len(R) + 1
    BY <1>3, <1>4, <1>5, WholeResponse DEF R
<1> HIDE DEF d
<1>10. d # 0 /\ d = Len(t \o R) + 1
    BY <1>3, <1>4, <1>9
<1> QED
    BY <1>7, <1>8, <1>10

\* Cut off before its end, it makes the format wrong, and so does a tool call
\* without one.
LEMMA CutFails ==
    ASSUME NEW t \in Seq(Symbols), Awaiting(t), NEW x \in Seq(Symbols),
           NEW w \in Seq(Symbols), NEW n \in Nat, n < Len(Rendered(x)),
           Window(w, 0, t), Len(w) = Len(t) + n,
           \A i \in 1..n : w[Len(t) + i] = Rendered(x)[i]
    PROVE  ~Turn(w, 1)
<1>1. PICK s, m \in Seq(Symbols) : t = s \o m /\ Passed(s) /\ ParsesAsTool(m)
    BY DEF Awaiting
<1>3. Len(t) = Len(s) + Len(m)
    BY <1>1, ConcatWindow
<1>4. Len(s) \in Nat /\ Len(m) \in Nat /\ Len(t) \in Nat /\ Len(w) \in Nat
    BY SymbolAt
<1>6. Window(w, 0, s) /\ Window(w, Len(s), m)
    BY <1>1, PartWindow
<1>7. Turn(w, 1) <=> Turn(w, Len(s) + 1)
    BY <1>1, <1>6 DEF Passed
<1> DEFINE d == AfterResponse(w, Len(s) + Len(m))
<1>8. Turn(w, Len(s) + 1) = (d # 0 /\ Turn(w, d))
    BY <1>1, <1>4, <1>6, CallTurn
<1>9. AfterResponse(w, Len(t)) \in {0, Len(w) + 1}
    BY <1>4, CutResponse
<1>10. d \in {0, Len(w) + 1}
    BY <1>3, <1>9
<1> HIDE DEF d
<1> QED
    BY <1>7, <1>8, <1>10, NoTurnAtEnd

\* A tool call leaves no answer and no old tag in the text.
LEMMA GeneratedTool ==
    ASSUME NEW m \in Seq(Symbols), ParsesAsTool(m)
    PROVE  NoLegacy(m) /\ Unanswered(m)
BY ToolCallFacts DEF NoLegacy, Unanswered

\* Neither does a response leave any of these,
LEMMA RenderedPlain ==
    ASSUME NEW x \in Seq(Symbols)
    PROVE  NoLegacy(Rendered(x)) /\ Unanswered(Rendered(x))
<1> DEFINE R == Rendered(x)
<1>1. /\ Len(R) \in Nat /\ Len(R) >= 4
      /\ R[1] = "user" /\ R[2] = "<tool_response>"
      /\ R[Len(R) - 1] = "</tool_response>" /\ R[Len(R)] = "assistant"
      /\ \A i \in 3..(Len(R) - 2) : R[i] \notin Tags \union {"legacy"}
    BY RenderedFacts
<1> HIDE DEF R
<1>2. ASSUME NEW i \in 1..Len(R)
      PROVE  R[i] \notin {"legacy", "<answer>", "</answer>"}
  <2>1. i \in {1, 2, Len(R) - 1, Len(R)} \/ i \in 3..(Len(R) - 2)
    BY <1>1
  <2> QED
    BY <1>1, <2>1 DEF Tags
<1> QED
    BY <1>2 DEF NoLegacy, Unanswered, R

\* nor a part of it.
LEMMA PrefixPlain ==
    ASSUME NEW t \in Seq(Symbols), NEW n \in Nat, NoLegacy(t)
    PROVE  NoLegacy(Cut(t, n))
<1>1. /\ Len(Cut(t, n)) = IF Len(t) <= n THEN Len(t) ELSE n
      /\ \A i \in 1..Len(Cut(t, n)) : Cut(t, n)[i] = t[i]
    BY CutFacts
<1>2. Len(t) \in Nat
    BY SymbolAt
<1> DEFINE c == Cut(t, n)
<1> HIDE DEF c
<1>3. \A i \in 1..Len(c) : i \in 1..Len(t)
    BY <1>1, <1>2 DEF c
<1> QED
    BY <1>1, <1>3 DEF NoLegacy, c

\* The empty response.
LEMMA TextStarts == Init => TextInv
<1> SUFFICES ASSUME Init PROVE TextInv
    OBVIOUS
<1>1. text = <<>> /\ pc = "turn" /\ pending = <<>> /\ answer = NoAnswer
    BY DEF Init
<1>2. <<>> \in Seq(Symbols) /\ Len(<<>>) = 0
    BY EmptySeq
<1>3. Passed(<<>>)
    BY <1>2 DEF Passed
<1>4. NoLegacy(<<>>) /\ Unanswered(<<>>)
    BY <1>2 DEF NoLegacy, Unanswered
<1> QED
    BY <1>1, <1>2, <1>3, <1>4
    DEF TextInv, Texts, WellFormed, Verdicts, Answered, Over,
        RewardAgreesWithRollout

\* Stopping leaves a text without an answer.
LEMMA StopKeeps == TextInv /\ Stop => TextInv'
<1> SUFFICES ASSUME TextInv, Stop PROVE TextInv'
    OBVIOUS
<1>1. /\ pc = "turn" /\ pc' = "done"
      /\ text' = text /\ pending' = pending /\ answer' = answer
      /\ malformed' = malformed
    BY DEF Stop
<1>2. answer = NoAnswer
    BY <1>1 DEF TextInv, Verdicts, Answered
<1>3. Texts'
    BY <1>1 DEF TextInv, Texts
<1>4. WellFormed'
    BY <1>1 DEF TextInv, WellFormed
<1>5. ~malformed /\ ~HasFragment => ~validate_sequence(text)
  <2> SUFFICES ASSUME ~malformed, ~HasFragment PROVE ~validate_sequence(text)
    OBVIOUS
  <2>1. text \in Seq(Symbols) /\ NoLegacy(text) /\ Passed(text)
    BY <1>1 DEF TextInv, Texts, WellFormed
  <2>2. \A i \in DOMAIN text : text[i] # "fragment"
    BY DEF HasFragment
  <2> QED
    BY <2>1, <2>2, ValidateHere, PassedAll
<1>6. Verdicts'
    BY <1>1, <1>2, <1>5
    DEF Verdicts, Answered, Over, RewardAgreesWithRollout, HasFragment
<1> QED
    BY <1>3, <1>4, <1>6 DEF TextInv

\* An answer ends a text that was right so far.
LEMMA GenerateAnswerKeeps ==
    ASSUME TextInv, NEW m \in Generations, GenerateAnswer(m)
    PROVE  TextInv'
<1> DEFINE w == text \o m
<1>1. /\ pc = "turn" /\ pc' = "done" /\ ParsedAnswer(m) # NoAnswer
      /\ text' = w /\ answer' = ParsedAnswer(m)
      /\ pending' = pending /\ malformed' = malformed
    BY DEF GenerateAnswer
<1>2. text \in Seq(Symbols) /\ pending \in Seq(Symbols) /\ m \in Seq(Symbols)
    BY VocabularyAssumption DEF TextInv, Texts
<1>3. /\ w \in Seq(Symbols) /\ Len(w) = Len(text) + Len(m)
      /\ Window(w, 0, text) /\ Window(w, Len(text), m)
    BY <1>2, ConcatWindow
<1>4. ~malformed => NoLegacy(w)
  <2>1. NoLegacy(m)
    BY <1>1, <1>2, AnswerFacts DEF NoLegacy
  <2> QED
    BY <1>2, <2>1, ConcatKeeps DEF TextInv, WellFormed
<1>5. ~malformed => Unanswered(text) /\ Passed(text)
    BY <1>1 DEF TextInv, WellFormed
<1> HIDE DEF w
<1>6. Len(text) \in Nat
    BY <1>2, SymbolAt
<1>7. ~malformed => extract_answer(w) = ParsedAnswer(m)
  <2> SUFFICES ASSUME ~malformed PROVE extract_answer(w) = ParsedAnswer(m)
    OBVIOUS
  <2>1. \A i \in 1..Len(text) : w[0 + i] = text[i] /\ 0 + i = i
    BY <1>3, <1>6 DEF Window
  <2>2. \A i \in 1..Len(text) : w[i] # "<answer>"
    BY <1>5, <2>1 DEF Unanswered
  <2> QED
    BY <1>1, <1>2, <1>3, <1>6, <2>2, AnswerExtracted
<1>8. ~malformed /\ (\A i \in DOMAIN w : w[i] # "fragment") =>
            validate_sequence(w)
  <2> SUFFICES ASSUME ~malformed, \A i \in DOMAIN w : w[i] # "fragment"
               PROVE  validate_sequence(w)
    OBVIOUS
  <2>1. Turn(w, Len(text) + 1)
    BY <1>1, <1>2, <1>3, <1>6, AnswerTurn
  <2>2. Turn(w, 1)
    BY <1>3, <1>5, <2>1 DEF Passed
  <2> QED
    BY <1>3, <1>4, <2>2, ValidateHere
<1>9. Texts' /\ WellFormed'
    BY <1>1, <1>2, <1>3, <1>4 DEF Texts, WellFormed
<1>10. Verdicts'
    BY <1>1, <1>7, <1>8
    DEF Verdicts, Answered, Over, RewardAgreesWithRollout, HasFragment
<1> QED
    BY <1>9, <1>10 DEF TextInv

\* A tool call behind a text whose turns are passed awaits its response.
LEMMA CallAwaits ==
    ASSUME TextInv, pc = "turn", ~malformed,
           NEW m \in Generations, ParsesAsTool(m)
    PROVE  /\ NoLegacy(text \o m) /\ Unanswered(text \o m)
           /\ Awaiting(text \o m)
<1>1. text \in Seq(Symbols) /\ m \in Seq(Symbols)
    BY VocabularyAssumption DEF TextInv, Texts
<1>2. NoLegacy(text) /\ Unanswered(text) /\ Passed(text)
    BY DEF TextInv, WellFormed
<1>3. Awaiting(text \o m)
    BY <1>1, <1>2, Zenon DEF Awaiting
<1> QED
    BY <1>1, <1>2, <1>3, GeneratedTool, ConcatKeeps

\* A tool call in the answer-only turn ends it without an answer.
LEMMA GenerateLastKeeps ==
    ASSUME TextInv, NEW m \in Generations, GenerateLast(m)
    PROVE  TextInv'
<1> DEFINE w == text \o m
<1>1. /\ pc = "turn" /\ pc' = "done"
      /\ text' = w /\ answer' = answer /\ pending' = pending
      /\ malformed' = (malformed \/ ~ParsesAsTool(m))
    BY DEF GenerateLast
<1>2. /\ text \in Seq(Symbols) /\ pending \in Seq(Symbols) /\ m \in Seq(Symbols)
      /\ answer = NoAnswer
    BY <1>1, VocabularyAssumption DEF TextInv, Texts, Verdicts, Answered
<1>3. w \in Seq(Symbols)
    BY <1>2, ConcatWindow
<1>4. ~malformed' => NoLegacy(w) /\ Awaiting(w)
    BY <1>1, CallAwaits
<1> HIDE DEF w
<1>5. ~malformed' /\ (\A i \in DOMAIN w : w[i] # "fragment") =>
            ~validate_sequence(w)
  <2> SUFFICES ASSUME ~malformed', \A i \in DOMAIN w : w[i] # "fragment"
               PROVE  ~validate_sequence(w)
    OBVIOUS
  <2>1. ~Turn(w, 1)
    <3> DEFINE R == Rendered(<<>>)
               n == 0
    <3>1. <<>> \in Seq(Symbols) /\ Len(R) \in Nat /\ Len(R) >= 4
      BY EmptySeq, RenderedFacts
    <3>2. Len(w) \in Nat /\ Window(w, 0, w)
      BY <1>3, SymbolAt, WholeWindow
    <3> HIDE DEF R
    <3>3. n \in Nat /\ n < Len(R) /\ Len(w) = Len(w) + n
          /\ \A i \in 1..n : w[Len(w) + i] = R[i]
      BY <3>1, <3>2
    <3> HIDE DEF n
    <3> QED
      BY <1>3, <1>4, <3>1, <3>2, <3>3, CutFails DEF R
  <2> QED
    BY <1>3, <1>4, <2>1, ValidateHere
<1>6. Texts' /\ WellFormed'
    BY <1>1, <1>2, <1>3, <1>4 DEF Texts, WellFormed
<1>7. Verdicts'
    BY <1>1, <1>2, <1>5
    DEF Verdicts, Answered, Over, RewardAgreesWithRollout, HasFragment
<1> QED
    BY <1>6, <1>7 DEF TextInv

\* Before it, a tool call awaits its response,
LEMMA AttemptKeeps ==
    ASSUME TextInv, NEW m \in Generations, NEW x \in Seq(Symbols),
           GenerateAttempt(m, x)
    PROVE  TextInv'
<1> DEFINE w == text \o m
           y == IF attempts + 1 = MaxTurns THEN BudgetInstruction ELSE <<>>
<1>1. /\ pc = "turn" /\ pc' = "observe"
      /\ text' = w /\ answer' = answer /\ pending' = x \o y
      /\ malformed' = (malformed \/ ~ParsesAsTool(m))
    BY DEF GenerateAttempt
<1>2. text \in Seq(Symbols) /\ m \in Seq(Symbols) /\ answer = NoAnswer
    BY <1>1, VocabularyAssumption DEF TextInv, Texts, Verdicts, Answered
<1>3. w \in Seq(Symbols)
    BY <1>2, ConcatWindow
<1>4. y \in Seq(Symbols)
  <2>1. BudgetInstruction \in Seq(Symbols)
    BY DEF BudgetInstruction, Symbols, Tags
  <2>2. <<>> \in Seq(Symbols)
    BY EmptySeq
  <2> QED
    BY <2>1, <2>2
<1> HIDE DEF y
<1>5. x \o y \in Seq(Symbols)
    BY <1>4, ConcatWindow
<1>6. ~malformed' => NoLegacy(w) /\ Unanswered(w) /\ Awaiting(w)
    BY <1>1, CallAwaits
<1> HIDE DEF w
<1>7. Texts' /\ WellFormed'
    BY <1>1, <1>3, <1>5, <1>6 DEF Texts, WellFormed
<1>8. Verdicts'
    BY <1>1, <1>2 DEF Verdicts, Answered, Over, RewardAgreesWithRollout
<1> QED
    BY <1>7, <1>8 DEF TextInv

\* which is passed when it is complete, and ends the text when it was cut.
LEMMA ObserveKeeps == TextInv /\ Observe => TextInv'
<1> SUFFICES ASSUME TextInv, Observe PROVE TextInv'
    OBVIOUS
<1> DEFINE R == Rendered(pending)
<1>1. /\ pc = "observe" /\ pending' = <<>> /\ answer' = answer
      /\ malformed' = malformed
      /\ \/ text' = text \o R /\ pc' = "turn"
         \/ /\ \E n \in 0..(Len(R) - 1) : text' = text \o Cut(R, n)
            /\ pc' = "done"
    BY DEF Observe
<1>2. /\ text \in Seq(Symbols) /\ pending \in Seq(Symbols)
      /\ answer = NoAnswer /\ <<>> \in Seq(Symbols)
    BY <1>1, EmptySeq DEF TextInv, Texts, Verdicts, Answered
<1>3. /\ R \in Seq(Symbols) /\ Len(R) \in Nat /\ NoLegacy(R) /\ Unanswered(R)
    BY <1>2, RenderedFacts, RenderedPlain
<1>4. ~malformed => NoLegacy(text) /\ Unanswered(text) /\ Awaiting(text)
    BY <1>1 DEF TextInv, WellFormed
<1>5. CASE text' = text \o R /\ pc' = "turn"
  <2>1. text' \in Seq(Symbols)
    BY <1>2, <1>3, <1>5, ConcatWindow
  <2>2. ~malformed => NoLegacy(text') /\ Unanswered(text') /\ Passed(text')
    BY <1>2, <1>3, <1>4, <1>5, ConcatKeeps, ResponsePassed
  <2> HIDE DEF R
  <2>3. Texts' /\ WellFormed'
    BY <1>1, <1>2, <1>5, <2>1, <2>2 DEF Texts, WellFormed
  <2>4. Verdicts'
    BY <1>1, <1>2, <1>5 DEF Verdicts, Answered, Over, RewardAgreesWithRollout
  <2> QED
    BY <2>3, <2>4 DEF TextInv
<1>6. CASE (\E n \in 0..(Len(R) - 1) : text' = text \o Cut(R, n)) /\ pc' = "done"
  <2>1. PICK n \in 0..(Len(R) - 1) : text' = text \o Cut(R, n)
    BY <1>6
  <2> DEFINE c == Cut(R, n)
             w == text \o c
  <2>2. n \in Nat /\ n < Len(R)
    <3> HIDE DEF R
    <3> QED
      BY <1>3
  <2> HIDE DEF R
  <2>3. /\ c \in Seq(Symbols) /\ Len(c) = n
        /\ \A i \in 1..n : c[i] = R[i]
    BY <1>3, <2>2, CutFacts
  <2>4. NoLegacy(c)
    BY <1>3, <2>2, PrefixPlain
  <2> HIDE DEF c
  <2>5. /\ w \in Seq(Symbols) /\ Len(w) = Len(text) + Len(c)
        /\ Window(w, 0, text) /\ Window(w, Len(text), c)
    BY <1>2, <2>3, ConcatWindow
  <2>6. ~malformed => NoLegacy(w)
    BY <1>2, <1>4, <2>3, <2>4, ConcatKeeps
  <2> HIDE DEF w
  <2>7. ~malformed => ~Turn(w, 1)
    <3>1. \A i \in 1..n : w[Len(text) + i] = R[i]
      BY <2>3, <2>5 DEF Window
    <3> QED
      BY <1>2, <1>4, <2>2, <2>3, <2>5, <3>1, CutFails DEF R
  <2>8. ~malformed /\ (\A i \in DOMAIN w : w[i] # "fragment") =>
            ~validate_sequence(w)
    BY <2>5, <2>6, <2>7, ValidateHere
  <2>9. text' = w
    BY <2>1 DEF w, c
  <2>10. Texts' /\ WellFormed'
    BY <1>1, <1>2, <1>6, <2>5, <2>6, <2>9 DEF Texts, WellFormed
  <2>11. Verdicts'
    BY <1>1, <1>2, <1>6, <2>8, <2>9
    DEF Verdicts, Answered, Over, RewardAgreesWithRollout, HasFragment
  <2> QED
    BY <2>10, <2>11 DEF TextInv
<1> QED
    BY <1>1, <1>5, <1>6

LEMMA TextKept == TextInv /\ [Next]_vars => TextInv'
<1> SUFFICES ASSUME TextInv, [Next]_vars PROVE TextInv'
    OBVIOUS
<1>1. CASE Stop
    BY <1>1, StopKeeps
<1>2. ASSUME NEW m \in Generations, GenerateAnswer(m) PROVE TextInv'
    BY <1>2, GenerateAnswerKeeps
<1>3. ASSUME NEW m \in Generations, GenerateLast(m) PROVE TextInv'
    BY <1>3, GenerateLastKeeps
<1>4. ASSUME NEW m \in Generations, ToolSucceeds(m) PROVE TextInv'
  <2>1. PICK d \in Documents : GenerateAttempt(m, Sanitize(d))
    BY <1>4 DEF ToolSucceeds
  <2>2. Sanitize(d) \in Seq(Symbols)
    BY VocabularyAssumption, SanitizeFacts
  <2> QED
    BY <2>1, <2>2, AttemptKeeps
<1>5. ASSUME NEW m \in Generations, ToolFails(m) PROVE TextInv'
  <2>1. ToolError \in Seq(Symbols)
    BY DEF ToolError, Symbols
  <2> QED
    BY <1>5, <2>1, AttemptKeeps DEF ToolFails
<1>6. ASSUME NEW m \in Generations, Invalid(m) PROVE TextInv'
  <2>1. InvalidContent \in Seq(Symbols)
    BY DEF InvalidContent, Symbols, Tags, Payloads
  <2> QED
    BY <1>6, <2>1, AttemptKeeps DEF Invalid
<1>7. CASE Observe
    BY <1>7, ObserveKeeps
<1>8. CASE UNCHANGED vars
    BY <1>8
    DEF vars, TextInv, Texts, WellFormed, Verdicts, Awaiting, Answered, Over,
        RewardAgreesWithRollout, HasFragment
<1> QED
    BY <1>1, <1>2, <1>3, <1>4, <1>5, <1>6, <1>7, <1>8 DEF Next

LEMMA TextAlways == Spec => []TextInv
BY TextStarts, TextKept, PTL DEF Spec

\* For every vocabulary of the model and the tools, every number of attempts
\* and every observation length: when each generation was well formed and no tool
\* returned the beginning of an old tag, validate_sequence accepts exactly the
\* responses of the rollouts that ended with an answer.
THEOREM RewardAgrees == Spec => []RewardAgreesWithRollout
<1>1. TextInv => RewardAgreesWithRollout
    BY DEF TextInv, Verdicts
<1> QED
    BY <1>1, TextAlways, PTL

\* The judge is shown the answer the rollout stopped at, whatever the tools
\* returned, and no response has the format without an answer to judge.
THEOREM AnswerIsJudged == Spec => []JudgedAnswerIsTheAnswer
<1>1. TextInv => JudgedAnswerIsTheAnswer
  <2> SUFFICES ASSUME TextInv, Over PROVE
          /\ ~malformed /\ Answered => extract_answer(text) = answer
          /\ validate_sequence(text) => extract_answer(text) # NoAnswer
    BY DEF JudgedAnswerIsTheAnswer
  <2>1. text \in Seq(Symbols)
    BY DEF TextInv, Texts
  <2> QED
    BY <2>1, FormatHasAnswer DEF TextInv, Verdicts
<1> QED
    BY <1>1, TextAlways, PTL

-----------------------------------------------------------------------------
(* The score.                                                             *)

\* The counters of the rollout stay within its attempts.
Counters == attempts \in 0..MaxTurns /\ calls \in 0..attempts

\* Scoring starts when the rollout is over.
ScoredLate == stage # "waiting" => pc = "done"

\* What a paid answer is paid.
Paid ==
    /\ result.judge \in 0..1
    /\ stage # "scored" => result.judge = 0
    /\ result.judge = 1 /\ result.format => result.score = Total(1, TRUE, calls)

\* Only asking the judge comes before a verdict.
AskedAboutAnswer == stage = "asked" => extract_answer(text) # NoAnswer

IInv == Counters /\ ScoredLate /\ Paid /\ AskedAboutAnswer /\ PaidOnlyForVerdict

-----------------------------------------------------------------------------
\* Within eight searches the penalty stays below the answer's weight less
\* the format's: the arithmetic the order of rewards rests on.
LEMMA PenaltyBounded ==
    ASSUME NEW n \in 0..MAX_TOOL_ATTEMPTS
    PROVE  Penalty(n) \in 0..72
<1>1. n \in {0, 1, 2, 3, 4, 5, 6, 7, 8}
  BY DEF MAX_TOOL_ATTEMPTS
<1>2. CASE n \in {0, 1, 2}
  BY <1>2 DEF Penalty, FREE_RETRIEVAL_CALLS, RETRIEVAL_PENALTY_COEFFICIENT
<1>3. CASE n \in {3, 4, 5}
  BY <1>3 DEF Penalty, FREE_RETRIEVAL_CALLS, RETRIEVAL_PENALTY_COEFFICIENT
<1>4. CASE n \in {6, 7, 8}
  BY <1>4 DEF Penalty, FREE_RETRIEVAL_CALLS, RETRIEVAL_PENALTY_COEFFICIENT
<1> QED
  BY <1>1, <1>2, <1>3, <1>4

LEMMA CorrectTotalExceedsWrong ==
    ASSUME NEW m \in 0..MAX_TOOL_ATTEMPTS, NEW n \in 0..MAX_TOOL_ATTEMPTS,
           NEW format \in BOOLEAN
    PROVE  Total(1, TRUE, m) > Total(0, format, n)
<1>1. Penalty(m) \in 0..72 /\ Penalty(n) \in 0..72
  BY PenaltyBounded
<1>2. Total(1, TRUE, m) >= 28
  BY <1>1 DEF Total, ANSWER_REWARD_WEIGHT, FORMAT_REWARD_WEIGHT
<1>3. Total(0, format, n) <= 20
  BY <1>1 DEF Total, ANSWER_REWARD_WEIGHT, FORMAT_REWARD_WEIGHT
<1>4. Total(1, TRUE, m) \in Int /\ Total(0, format, n) \in Int
  BY <1>1 DEF Total, ANSWER_REWARD_WEIGHT, FORMAT_REWARD_WEIGHT
<1> DEFINE right == Total(1, TRUE, m)
           wrong == Total(0, format, n)
<1>5. right \in Int /\ wrong \in Int /\ right >= 28 /\ wrong <= 20
  BY <1>2, <1>3, <1>4
<1>6. right > wrong
  <2> HIDE DEF right, wrong
  <2> QED
    BY <1>5
<1> QED
  BY <1>6

-----------------------------------------------------------------------------
LEMMA InitHolds == RewardInit => IInv
  BY BoundsAssumption
  DEF RewardInit, Init, IInv, Counters, ScoredLate, Paid, AskedAboutAnswer,
      PaidOnlyForVerdict, NoResult, MAX_TOOL_ATTEMPTS

\* A step of the rollout changes nothing once it is over, and its counters
\* only by one attempt.
LEMMA RolloutCounters == Counters /\ Next => Counters' /\ pc # "done"
<1> SUFFICES ASSUME Counters, Next PROVE Counters' /\ pc # "done"
  OBVIOUS
<1> USE DEF Counters
<1>1. CASE Stop
  BY <1>1 DEF Stop
<1>2. ASSUME NEW m \in Generations, GenerateAnswer(m)
      PROVE  Counters' /\ pc # "done"
  BY <1>2 DEF GenerateAnswer
<1>3. ASSUME NEW m \in Generations, GenerateLast(m)
      PROVE  Counters' /\ pc # "done"
  BY <1>3 DEF GenerateLast
<1>4. ASSUME NEW m \in Generations, ToolSucceeds(m)
      PROVE  Counters' /\ pc # "done"
  BY <1>4, BoundsAssumption DEF ToolSucceeds, GenerateAttempt
<1>5. ASSUME NEW m \in Generations, ToolFails(m) \/ Invalid(m)
      PROVE  Counters' /\ pc # "done"
  BY <1>5, BoundsAssumption DEF ToolFails, Invalid, GenerateAttempt
<1>6. CASE Observe
  BY <1>6 DEF Observe
<1> QED
  BY <1>1, <1>2, <1>3, <1>4, <1>5, <1>6 DEF Next

LEMMA RolloutKeeps == IInv /\ Rollout => IInv'
<1> SUFFICES ASSUME IInv, Rollout PROVE IInv'
  OBVIOUS
<1>1. Counters' /\ pc # "done"
  BY RolloutCounters DEF IInv, Rollout
<1>2. stage = "waiting" /\ UNCHANGED <<stage, raw, result>>
  BY <1>1 DEF IInv, ScoredLate, Rollout, rewardVars
<1>3. result.judge = 0
  BY <1>2 DEF IInv, Paid
<1> QED
  BY <1>1, <1>2, <1>3
  DEF IInv, ScoredLate, Paid, AskedAboutAnswer, PaidOnlyForVerdict

LEMMA AskKeeps == IInv /\ AskJudge => IInv'
  BY DEF IInv, AskJudge, vars, Counters, ScoredLate, Paid, AskedAboutAnswer,
         PaidOnlyForVerdict

\* What the dictionary says, whoever builds it.
LEMMA ScoredFields ==
    ASSUME NEW judge, NEW valid
    PROVE  /\ Scored(judge, valid).judge = judge
           /\ Scored(judge, valid).format = validate_sequence(text)
           /\ Scored(judge, valid).score = Total(judge, validate_sequence(text), calls)
  BY DEF Scored

LEMMA FailureKeeps ==
    ASSUME IInv, pc = "done", stage' = "scored", result' = Scored(0, FALSE),
           UNCHANGED vars
    PROVE  IInv'
<1>1. result'.judge = 0
  BY ScoredFields
<1>2. Counters' /\ ScoredLate' /\ AskedAboutAnswer'
  BY DEF IInv, vars, Counters, ScoredLate, AskedAboutAnswer
<1>3. result'.judge \in 0..1 /\ result'.judge # 1
  <2> DEFINE verdict == result'.judge
  <2>1. verdict = 0
    BY <1>1
  <2>2. verdict \in 0..1 /\ verdict # 1
    <3> HIDE DEF verdict
    <3> QED
      BY <2>1
  <2> QED
    BY <2>2
<1>4. Paid' /\ PaidOnlyForVerdict'
  BY <1>3 DEF Paid, PaidOnlyForVerdict
<1> QED
  BY <1>2, <1>4 DEF IInv

LEMMA AnswerKeeps == IInv /\ JudgeAnswers => IInv'
<1> SUFFICES ASSUME IInv, JudgeAnswers PROVE IInv'
  OBVIOUS
<1>1. PICK r \in RawOutputs :
        /\ raw' = r
        /\ result' = IF Parsed(r) = None THEN Scored(0, FALSE)
                     ELSE Scored(Parsed(r), TRUE)
  BY DEF JudgeAnswers
<1>2. pc = "done" /\ stage = "asked" /\ stage' = "scored" /\ UNCHANGED vars
  BY DEF JudgeAnswers, IInv, ScoredLate
<1>3. CASE Parsed(r) = None
  BY <1>1, <1>2, <1>3, FailureKeeps
<1>4. CASE Parsed(r) # None
  <2>1. Parsed(r) \in 0..1 /\ (Parsed(r) = 1 => r = "score 1")
    <3>1. r = "score 1" => Parsed(r) = 1
      BY DEF Parsed
    <3>2. r # "score 1" => Parsed(r) = 0
      BY <1>4, Zenon DEF Parsed
    <3>3. Parsed(r) = 0 \/ Parsed(r) = 1
      BY <3>1, <3>2, Zenon
    <3>4. 0 \in 0..1 /\ 1 \in 0..1 /\ 0 # 1
      OBVIOUS
    <3> QED
      BY <3>2, <3>3, <3>4, Zenon
  <2>2. /\ result'.judge = Parsed(r)
        /\ result'.format = validate_sequence(text)
        /\ result'.score = Total(Parsed(r), validate_sequence(text), calls)
    BY <1>1, <1>4, ScoredFields
  <2>3. Paid'
    <3>1. CASE result'.judge = 1 /\ result'.format
      <4>1. validate_sequence(text)
        BY <2>2, <3>1
      <4>2. Total(Parsed(r), validate_sequence(text), calls)
                = Total(1, TRUE, calls)
        BY <4>1, <2>2, <3>1 DEF Total
      <4> QED
        BY <4>2, <2>1, <2>2, <1>2 DEF Paid, vars
    <3>2. CASE ~(result'.judge = 1 /\ result'.format)
      BY <3>2, <2>1, <2>2, <1>2 DEF Paid
    <3> QED
      BY <3>1, <3>2
  <2>4. PaidOnlyForVerdict'
    BY <2>1, <2>2, <1>1, <1>2
    DEF PaidOnlyForVerdict, vars, IInv, AskedAboutAnswer
  <2> QED
    BY <2>3, <2>4, <1>2 DEF IInv, vars, Counters, ScoredLate, AskedAboutAnswer
<1> QED
  BY <1>3, <1>4

LEMMA StepKeeps == IInv /\ [RewardNext]_allVars => IInv'
<1> SUFFICES ASSUME IInv, [RewardNext]_allVars PROVE IInv'
  OBVIOUS
<1>1. CASE NothingToJudge
  BY <1>1, FailureKeeps DEF NothingToJudge
<1>2. CASE JudgeRaises
  BY <1>2, FailureKeeps DEF JudgeRaises, IInv, ScoredLate
<1>3. CASE UNCHANGED allVars
  BY <1>3 DEF allVars, vars, rewardVars, IInv, Counters, ScoredLate, Paid,
              AskedAboutAnswer, PaidOnlyForVerdict
<1> QED
  BY <1>1, <1>2, <1>3, RolloutKeeps, AskKeeps, AnswerKeeps DEF RewardNext

LEMMA Invariance == RewardSpec => []IInv
  BY InitHolds, StepKeeps, PTL DEF RewardSpec

\* The answer reward is paid only for a judge's explicit 1 about a candidate
\* answer of a rollout that is over.
THEOREM PaidForVerdict == RewardSpec => []PaidOnlyForVerdict
<1>1. IInv => PaidOnlyForVerdict
  BY DEF IInv
<1> QED
  BY <1>1, Invariance, PTL

\* A correct rollout in the right format outscores every wrong one, whatever
\* vocabulary the model and the tools have and however many of the attempts
\* the agent loop allows were spent on searches.
THEOREM CorrectWins == RewardSpec => []CorrectOutscoresWrong
<1>1. IInv => CorrectOutscoresWrong
  <2> SUFFICES ASSUME IInv, result.judge = 1, result.format,
                      NEW format \in BOOLEAN, NEW n \in 0..MaxTurns
               PROVE  result.score > Total(0, format, n)
    BY DEF CorrectOutscoresWrong
  <2>1. result.score = Total(1, TRUE, calls)
    BY DEF IInv, Paid
  <2>2. calls \in 0..MAX_TOOL_ATTEMPTS /\ n \in 0..MAX_TOOL_ATTEMPTS
    BY BoundsAssumption DEF IInv, Counters, MAX_TOOL_ATTEMPTS
  <2> QED
    BY <2>1, <2>2, CorrectTotalExceedsWrong
<1> QED
  BY <1>1, Invariance, PTL

-----------------------------------------------------------------------------
(* The reward and the rollout together.                                    *)

\* The reward only watches the rollout: the composition does what the
\* trajectory alone may do.
THEOREM RewardOnlyWatches == RewardSpec => Spec
<1>1. RewardInit => Init
  BY DEF RewardInit
<1>2. [RewardNext]_allVars => [Next]_vars
  BY DEF RewardNext, Rollout, AskJudge, NothingToJudge, JudgeAnswers,
         JudgeRaises, allVars
<1> QED
  BY <1>1, <1>2, PTL DEF RewardSpec, Spec

\* The score tells what validate_sequence says of the finished response.
FormatTells ==
    /\ stage # "waiting" => pc = "done"
    /\ stage = "scored" => result.format = validate_sequence(text)

LEMMA FormatTold == RewardSpec => []FormatTells
<1>1. RewardInit => FormatTells
  BY DEF RewardInit, FormatTells
<1>2. FormatTells /\ [RewardNext]_allVars => FormatTells'
  <2> SUFFICES ASSUME FormatTells, [RewardNext]_allVars PROVE FormatTells'
    OBVIOUS
  <2>1. CASE Rollout
    <3>1. pc # "done"
      BY <2>1
      DEF Rollout, Next, Stop, GenerateAnswer, GenerateLast, ToolSucceeds,
          ToolFails, Invalid, GenerateAttempt, Observe
    <3> QED
      BY <2>1, <3>1 DEF Rollout, rewardVars, FormatTells
  <2>2. CASE AskJudge
    BY <2>2 DEF AskJudge, FormatTells, vars
  <2>3. ASSUME NEW judge, NEW valid, stage' = "scored", pc = "done",
               result' = Scored(judge, valid), UNCHANGED vars
        PROVE  FormatTells'
    BY <2>3, ScoredFields DEF FormatTells, vars
  <2>4. CASE NothingToJudge \/ JudgeRaises
    BY <2>3, <2>4 DEF NothingToJudge, JudgeRaises, FormatTells
  <2>5. CASE JudgeAnswers
    BY <2>3, <2>5 DEF JudgeAnswers, FormatTells
  <2>6. CASE UNCHANGED allVars
    BY <2>6 DEF allVars, vars, rewardVars, FormatTells
  <2> QED
    BY <2>1, <2>2, <2>4, <2>5, <2>6 DEF RewardNext
<1> QED
  BY <1>1, <1>2, PTL DEF RewardSpec

\* What compute_score returns for a rollout of well-formed generations, with no
\* beginning of an old tag among what was retrieved, includes the format reward
\* exactly if the rollout ended with an answer, whatever the judge does.
THEOREM FormatPaidForAnswer ==
    RewardSpec => [](stage = "scored" /\ ~malformed /\ ~HasFragment =>
                        (result.format <=> Answered))
<1>1. FormatTells /\ RewardAgreesWithRollout =>
        (stage = "scored" /\ ~malformed /\ ~HasFragment =>
            (result.format <=> Answered))
  BY DEF FormatTells, RewardAgreesWithRollout, Over
<1> QED
  BY <1>1, FormatTold, RewardOnlyWatches, RewardAgrees, PTL

=============================================================================
