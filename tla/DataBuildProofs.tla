--------------------------- MODULE DataBuildProofs ---------------------------
(***************************************************************************)
(* The RL data build, for any inputs and quotas and any number of edits,   *)
(* builds and stops.                                                       *)
(*                                                                         *)
(* TrainingData: the reachability loop of _rp_build_pool_impl converges,   *)
(* since every iteration that selects something unreachable bans a         *)
(* category of the evidence for good, so the loop's bound, one more than   *)
(* there are such categories, is never exceeded; no question is in both    *)
(* pools.  From what the selections made so far, the scan, the rows chosen *)
(* so far and the groups moved so far satisfy (PoolInv and DataInv), no    *)
(* check the build makes of its own work fails, and the data of a finished *)
(* build is what was asked for.                                            *)
(*                                                                         *)
(* StageCache: a build that reuses what an earlier one left, and during    *)
(* which nothing was edited, publishes what a build from nothing would     *)
(* have made, and no stage of it refuses what it reuses; an input that was *)
(* edited under a build, and put back, excepted (PutBack).                 *)
(***************************************************************************)
EXTENDS TrainingData, StageCache, FiniteSetTheorems, SequenceTheorems,
        WellFoundedInduction, NaturalsInduction, TLAPS

-----------------------------------------------------------------------------
(* What TrainingData selects.                                              *)

Selected == primary \cup reserve

\* A selected question has evidence and its category is not banned.
SelectedAllowed ==
    \A r \in Selected : r.q \in evidence /\ CategoryOf[r.q] \notin banned

PoolsDisjoint == \A r \in primary, s \in reserve : r.q # s.q

\* Every iteration but the first banned a category more.
BansPerIteration ==
    /\ iteration \in Nat
    /\ iteration <= Cardinality(banned \cap EvidenceCategories) + 1

IInv ==
    /\ evidence \subseteq Question
    /\ SelectedAllowed
    /\ PoolsDisjoint
    /\ BansPerIteration
    /\ ReachabilityConverges

LEMMA EvidenceFinite ==
    ASSUME evidence \subseteq Question
    PROVE  IsFiniteSet(EvidenceCategories)
<1>1. IsFiniteSet(evidence)
  BY QuestionAssumption, FS_Subset
<1> DEFINE category == [q \in evidence |-> CategoryOf[q]]
<1>2. category \in Surjection(evidence, EvidenceCategories)
  BY DEF Surjection, EvidenceCategories
<1>3. QED
  BY <1>1, <1>2, FS_Surjection

\* The weak categories are categories of the evidence that are not banned.
LEMMA WeakIsNew ==
    ASSUME SelectedAllowed
    PROVE  Weak \subseteq EvidenceCategories \ banned
BY DEF SelectedAllowed, Selected, Weak, TooFew, Used, EvidenceCategories

LEMMA InitHolds == Init => IInv
<1> SUFFICES ASSUME Init PROVE IInv
  OBVIOUS
<1>1. evidence \subseteq Question
  BY DEF Init
<1>2. SelectedAllowed /\ PoolsDisjoint /\ ReachabilityConverges
  BY DEF Init, SelectedAllowed, Selected, PoolsDisjoint, ReachabilityConverges
<1>3. Cardinality(banned \cap EvidenceCategories) \in Nat
  BY <1>1, EvidenceFinite, FS_Intersection, FS_CardinalityType
<1>4. BansPerIteration
  BY <1>3 DEF Init, BansPerIteration
<1>5. QED
  BY <1>1, <1>2, <1>4 DEF IInv

\* A selection adds rows of candidates that are available, to one pool.
LEMMA SelectTypeHolds == IInv /\ SelectType => IInv'
<1> SUFFICES ASSUME IInv, SelectType PROVE IInv'
  OBVIOUS
<1>1. UNCHANGED <<evidence, banned, iteration>> /\ pc' # "diverged"
  BY DEF SelectType, IInv, ReachabilityConverges, inputs, pool
<1>2. BansPerIteration' /\ ReachabilityConverges' /\ (evidence \subseteq Question)'
  BY <1>1 DEF IInv, BansPerIteration, EvidenceCategories, ReachabilityConverges
<1>3. CASE UNCHANGED pool
  BY <1>1, <1>2, <1>3 DEF IInv, pool, SelectedAllowed, Selected, PoolsDisjoint
<1>4. CASE ~UNCHANGED pool
  <2> DEFINE index == Head(todo)[2]
             free == Available(Types[index])
  <2>1. PICK chosen \in SUBSET free : \E count \in [free -> DOMAIN Weights] :
            LET new == {[q |-> q, n |-> count[q]] : q \in chosen} IN
            /\ primary' = IF Head(todo)[1] = "train" THEN primary \cup new ELSE primary
            /\ reserve' = IF Head(todo)[1] = "reserve" THEN reserve \cup new ELSE reserve
    <3> DEFINE total == Quota(Head(todo)[1], Types[index])
    <3>1. ~(Cardinality(free) < total)
      BY <1>4 DEF SelectType
    <3>2. kSubset(total, free) \subseteq SUBSET free
      BY DEF kSubset
    <3>3. QED
      BY <3>1, <3>2 DEF SelectType
  <2>a. PICK count \in [free -> DOMAIN Weights] :
            LET new == {[q |-> q, n |-> count[q]] : q \in chosen} IN
            /\ primary' = IF Head(todo)[1] = "train" THEN primary \cup new ELSE primary
            /\ reserve' = IF Head(todo)[1] = "reserve" THEN reserve \cup new ELSE reserve
    BY <2>1
  <2> DEFINE rows == {[q |-> q, n |-> count[q]] : q \in chosen}
  <2>2. \A r \in rows : /\ r.q \in evidence /\ CategoryOf[r.q] \notin banned
                        /\ r.q \notin Used
    BY DEF Available
  <2>3. SelectedAllowed'
    BY <1>1, <2>a, <2>2 DEF IInv, SelectedAllowed, Selected
  <2>4. PoolsDisjoint'
    BY <2>a, <2>2 DEF IInv, PoolsDisjoint, Used
  <2>5. QED
    BY <1>2, <2>3, <2>4 DEF IInv
<1>5. QED
  BY <1>3, <1>4

\* A ban adds a category to the banned ones, and there was one left.
LEMMA BanWeakHolds == IInv /\ BanWeak => IInv'
<1> SUFFICES ASSUME IInv, BanWeak PROVE IInv'
  OBVIOUS
<1> DEFINE E == EvidenceCategories
<1>1. IsFiniteSet(E) /\ IsFiniteSet(banned \cap E) /\ IsFiniteSet((banned \cup Weak) \cap E)
  BY EvidenceFinite, FS_Intersection DEF IInv
<1>2. PICK c \in Weak : c \in E /\ c \notin banned
  BY WeakIsNew DEF BanWeak, IInv
<1>3. /\ Cardinality(E) \in Nat
      /\ Cardinality(banned \cap E) \in Nat
      /\ Cardinality((banned \cup Weak) \cap E) \in Nat
  BY <1>1, FS_CardinalityType
<1>4. Cardinality(banned \cap E) < Cardinality(E)
  BY <1>1, <1>2, <1>3, FS_Subset
<1>5. Cardinality(banned \cap E) < Cardinality((banned \cup Weak) \cap E)
  <2>1. banned \cap E \subseteq (banned \cup Weak) \cap E
    OBVIOUS
  <2>2. banned \cap E # (banned \cup Weak) \cap E
    BY <1>2
  <2>3. QED
    BY <1>1, <1>3, <2>1, <2>2, FS_Subset
<1>6. ~(iteration > Cardinality(E))
  BY <1>3, <1>4 DEF IInv, BansPerIteration
<1>7. /\ banned' = banned \cup Weak /\ iteration' = iteration + 1
      /\ primary' = {} /\ reserve' = {} /\ pc' = pc /\ evidence' = evidence
  BY <1>6 DEF BanWeak, inputs
<1>8. BansPerIteration'
  BY <1>3, <1>5, <1>7 DEF IInv, BansPerIteration, EvidenceCategories
<1>9. QED
  BY <1>7, <1>8
  DEF IInv, SelectedAllowed, Selected, PoolsDisjoint, ReachabilityConverges

\* Nothing else changes what is selected, or ends in "diverged".
LEMMA OtherHolds ==
    ASSUME IInv, UNCHANGED <<evidence, pool>>, pc' # "diverged"
    PROVE  IInv'
BY DEF IInv, pool, SelectedAllowed, Selected, PoolsDisjoint, BansPerIteration,
       EvidenceCategories, ReachabilityConverges

LEMMA StepHolds == IInv /\ [Next]_vars => IInv'
<1> SUFFICES ASSUME IInv, [Next]_vars PROVE IInv'
  OBVIOUS
<1>1. CASE SelectType
  BY <1>1, SelectTypeHolds
<1>2. CASE BanWeak
  BY <1>2, BanWeakHolds
<1>3. CASE PoolDone
  BY <1>3, OtherHolds DEF PoolDone
<1>4. CASE ScanBatch
  BY <1>4, OtherHolds DEF ScanBatch, inputs, IInv, ReachabilityConverges
<1>5. CASE KeepRow \/ ReplaceRow
  BY <1>5, OtherHolds DEF KeepRow, ReplaceRow, inputs, IInv, ReachabilityConverges
<1>6. CASE ChoiceDone
  BY <1>6, OtherHolds DEF ChoiceDone, inputs
<1>7. CASE BuildRow \/ BuildDone \/ MoveGroup
  BY <1>7, OtherHolds
  DEF BuildRow, BuildDone, MoveGroup, inputs, IInv, ReachabilityConverges
<1>8. CASE SplitDone
  BY <1>8, OtherHolds DEF SplitDone, inputs
<1>9. CASE Stopped \/ UNCHANGED vars
  BY <1>9, OtherHolds DEF Stopped, vars, inputs, IInv, ReachabilityConverges
<1>10. QED
  BY <1>1, <1>2, <1>3, <1>4, <1>5, <1>6, <1>7, <1>8, <1>9 DEF Next

\* The reachability loop of _rp_build_pool_impl always ends by its break:
\* "Metadata candidate reachability did not converge." is never raised.
THEOREM Convergence == Spec => []ReachabilityConverges
<1>1. IInv => ReachabilityConverges
  BY DEF IInv
<1>2. QED
  BY <1>1, InitHolds, StepHolds, PTL DEF Spec

\* A question is never in both pools, and every selected one has evidence
\* and a category that was not banned, in every iteration.
THEOREM PoolsCorrect == Spec => [](PoolsDisjoint /\ SelectedAllowed)
<1>1. IInv => PoolsDisjoint /\ SelectedAllowed
  BY DEF IInv
<1>2. QED
  BY <1>1, InitHolds, StepHolds, PTL DEF Spec

-----------------------------------------------------------------------------
(* What the selected data is.                                              *)

LEMMA RowsFinite == IsFiniteSet(Row)
<1> DEFINE pairs == Question \X (1..Len(Weights))
           pair == [r \in Row |-> <<r.q, r.n>>]
<1>1. DOMAIN Weights = 1..Len(Weights) /\ Len(Weights) \in Nat
    BY LimitAssumption, LenProperties
<1>2. IsFiniteSet(1..Len(Weights))
    BY <1>1, FS_Interval
<1>3. IsFiniteSet(pairs)
    BY <1>2, QuestionAssumption, FS_Product
<1>4. pair \in Injection(Row, pairs)
  <2>1. pair \in [Row -> pairs]
    BY <1>1 DEF Row
  <2>2. ASSUME NEW r \in Row, NEW s \in Row, pair[r] = pair[s]
        PROVE  r = s
    BY <2>2 DEF Row
  <2> QED
    BY <2>1, <2>2 DEF Injection, IsInjective
<1> QED
    BY <1>3, <1>4, FS_Injection

LEMMA CardinalityOfRows ==
    ASSUME NEW rows, rows \subseteq Row
    PROVE  IsFiniteSet(rows) /\ Cardinality(rows) \in Nat
BY RowsFinite, FS_Subset, FS_CardinalityType

\* A nonempty set of rows has a first one.
LEMMA FirstIsIn ==
    ASSUME NEW rows, rows \subseteq Row, rows # {}
    PROVE  First(rows) \in rows
<1> DEFINE numbers == {r.q : r \in rows}
<1>1. numbers \subseteq Nat /\ numbers # {}
    BY QuestionAssumption DEF Row
<1>2. PICK m \in numbers : \A n \in numbers : <<n, m>> \notin OpToRel(<, Nat)
    BY <1>1, WFMin, NatLessThanWellFounded, Zenon
<1>3. \A n \in numbers : ~(n < m)
    BY <1>1, <1>2 DEF OpToRel
<1>4. \A n \in numbers : m <= n
  <2> HIDE DEF numbers
  <2> QED
    BY <1>1, <1>3
<1>5. PICK r \in rows : r.q = m /\ \A s \in rows : r.q <= s.q
    BY <1>4
<1> QED
    BY <1>5 DEF First

\* The n lowest of some numbers are at most n.
LEMMA LowestIsBounded ==
    ASSUME NEW S, S \subseteq Nat, IsFiniteSet(S), NEW n \in Nat
    PROVE  /\ Lowest(S, n) \subseteq S
           /\ IsFiniteSet(Lowest(S, n))
           /\ Cardinality(Lowest(S, n)) <= n
<1> DEFINE below(i) == {j \in S : j < i}
           rank == [i \in Lowest(S, n) |-> Cardinality(below(i))]
<1>1. Lowest(S, n) \subseteq S
    BY DEF Lowest
<1>2. \A i \in S : IsFiniteSet(below(i)) /\ Cardinality(below(i)) \in Nat
    BY FS_Subset, FS_CardinalityType
<1>3. ASSUME NEW i \in S, NEW k \in S, i < k
      PROVE  Cardinality(below(i)) # Cardinality(below(k))
  <2>1. \A j \in S : j < i => j < k
    BY <1>3
  <2>2. below(i) \subseteq below(k)
    BY <2>1
  <2>3. i \in below(k) /\ i \notin below(i)
    BY <1>3
  <2> QED
    BY <1>2, <2>2, <2>3, FS_Subset
<1>4. rank \in Injection(Lowest(S, n), 0..(n - 1))
  <2>1. rank \in [Lowest(S, n) -> 0..(n - 1)]
    <3>1. \A i \in Lowest(S, n) : Cardinality(below(i)) < n
      BY DEF Lowest
    <3>2. \A i \in Lowest(S, n) : Cardinality(below(i)) \in Nat
      BY <1>1, <1>2
    <3> HIDE DEF below
    <3> QED
      BY <3>1, <3>2
  <2>2. ASSUME NEW i \in Lowest(S, n), NEW k \in Lowest(S, n), rank[i] = rank[k]
        PROVE  i = k
    <3>1. Cardinality(below(i)) = Cardinality(below(k))
      BY <2>2
    <3>2. i \in S /\ k \in S /\ i \in Nat /\ k \in Nat
      BY <1>1
    <3>3. ~(i < k) /\ ~(k < i)
      BY <1>3, <3>1, <3>2
    <3> QED
      BY <3>2, <3>3
  <2> QED
    BY <2>1, <2>2 DEF Injection, IsInjective
<1>5. IsFiniteSet(0..(n - 1)) /\ Cardinality(0..(n - 1)) = n
    BY FS_Interval
<1> QED
    BY <1>1, <1>4, <1>5, FS_Injection

\* The selections made in the current iteration.
Done == 2 * Len(Types) - Len(todo)

\* What an iteration still has to select is the end of its list.
TodoIsRest ==
    /\ todo \in Seq({"train", "reserve"} \X Nat)
    /\ Len(todo) <= 2 * Len(Types)
    /\ \A j \in 1..Len(todo) : todo[j] = Selections[Done + j]
    /\ pc \in {"scan", "choose", "build", "split", "done"} => todo = <<>>

\* The rows of type t have the quota of their pool and its image counts.
QuotaMet(rows, part, t) ==
    /\ Cardinality(RowsOfType(rows, t)) = Quota(part, t)
    /\ \A n \in DOMAIN Weights :
        Cardinality(Bucket(rows, t, n)) = Apportion(Quota(part, t))[n]

\* A pool has its quota of the types selected so far, and no row of another.
QuotasMet ==
    \A i \in DOMAIN Types :
        /\ IF i <= Done THEN QuotaMet(primary, "train", Types[i])
                        ELSE RowsOfType(primary, Types[i]) = {}
        /\ IF Len(Types) + i <= Done THEN QuotaMet(reserve, "reserve", Types[i])
                                     ELSE RowsOfType(reserve, Types[i]) = {}

PoolInv ==
    /\ primary \subseteq Row /\ reserve \subseteq Row
    /\ TodoIsRest
    /\ QuotasMet

LEMMA TypesAreListed ==
    Len(Types) \in Nat /\ DOMAIN Types = 1..Len(Types)
BY TypesAssumption, LenProperties

LEMMA SelectionsAre ==
    /\ Selections \in Seq({"train", "reserve"} \X Nat)
    /\ Len(Selections) = 2 * Len(Types)
    /\ \A k \in 1..2 * Len(Types) :
        Selections[k] = IF k <= Len(Types) THEN <<"train", k>>
                                           ELSE <<"reserve", k - Len(Types)>>
<1> DEFINE N == Len(Types)
           S == {"train", "reserve"} \X Nat
           first == [i \in 1..N |-> <<"train", i>>]
           second == [i \in 1..N |-> <<"reserve", i>>]
<1>1. N \in Nat
    BY TypesAreListed
<1>2. first \in Seq(S) /\ Len(first) = N /\ second \in Seq(S) /\ Len(second) = N
    BY <1>1, IsASeq
<1>3. Selections = first \o second
    BY DEF Selections
<1>4. \A i \in 1..N : first[i] = <<"train", i>> /\ second[i] = <<"reserve", i>>
    OBVIOUS
<1> HIDE DEF first, second, S
<1>5. /\ first \o second \in Seq(S)
      /\ Len(first \o second) = N + N
      /\ \A k \in 1..(N + N) : (first \o second)[k] = IF k <= N THEN first[k]
                                                    ELSE second[k - N]
    BY <1>1, <1>2, ConcatProperties
<1>6. ASSUME NEW k \in 1..2 * N
      PROVE  Selections[k] = IF k <= N THEN <<"train", k>> ELSE <<"reserve", k - N>>
  <2>1. k <= N => k \in 1..N
    BY <1>1
  <2>2. ~(k <= N) => k - N \in 1..N
    BY <1>1
  <2>3. Selections[k] = IF k <= N THEN first[k] ELSE second[k - N]
    BY <1>1, <1>3, <1>5
  <2> QED
    BY <1>4, <2>1, <2>2, <2>3
<1> QED
    BY <1>1, <1>3, <1>5, <1>6 DEF S

\* New rows of a type of which there are none yet.
LEMMA RowsAdded ==
    ASSUME NEW rows, NEW more, NEW t, \A r \in more : TypeOf[r.q] = t,
           RowsOfType(rows, t) = {}
    PROVE  RowsOfType(rows \cup more, t) = RowsOfType(more, t)
BY DEF RowsOfType

LEMMA QuotaOfSame ==
    ASSUME NEW rows, NEW more, NEW t, NEW part, QuotaMet(rows, part, t),
           RowsOfType(rows, t) = RowsOfType(more, t)
    PROVE  QuotaMet(more, part, t)
<1>1. \A n : Bucket(rows, t, n) = Bucket(more, t, n)
    BY DEF RowsOfType, Bucket
<1> QED
    BY <1>1 DEF QuotaMet

\* A row for each chosen question.
LEMMA ChosenRows ==
    ASSUME NEW chosen, chosen \subseteq Question, IsFiniteSet(chosen), NEW count,
           \A q \in chosen : count[q] \in DOMAIN Weights
    PROVE  LET rows == {[q |-> q, n |-> count[q]] : q \in chosen}
           IN  rows \subseteq Row /\ Cardinality(rows) = Cardinality(chosen)
<1> DEFINE rows == {[q |-> q, n |-> count[q]] : q \in chosen}
           row == [q \in chosen |-> [q |-> q, n |-> count[q]]]
<1>1. rows \subseteq Row
    BY DEF Row
<1>2. row \in Bijection(chosen, rows)
    BY DEF Bijection, Injection, Surjection, IsInjective
<1>3. ExistsBijection(chosen, rows)
    BY <1>2 DEF ExistsBijection
<1>4. Cardinality(rows) = Cardinality(chosen)
    BY <1>3, FS_Bijection
<1> QED
    BY <1>1, <1>4

\* A selection that does not raise gives one pool its quota of one type.
LEMMA SelectTypeAdds ==
    ASSUME IInv, SelectType, ~UNCHANGED pool,
           NEW part, NEW i, Head(todo) = <<part, i>>
    PROVE  \E rows \in SUBSET Row :
            /\ \A r \in rows : TypeOf[r.q] = Types[i]
            /\ QuotaMet(rows, part, Types[i])
            /\ primary' = IF part = "train" THEN primary \cup rows ELSE primary
            /\ reserve' = IF part = "reserve" THEN reserve \cup rows ELSE reserve
            /\ todo' = Tail(todo) /\ pc' = pc
<1> DEFINE free == Available(Types[i])
           total == Quota(part, Types[i])
<1>1. free \subseteq Question /\ IsFiniteSet(free)
    BY QuestionAssumption, FS_Subset DEF IInv, Available
<1>2. Head(todo)[1] = part /\ Head(todo)[2] = i
    OBVIOUS
<1>3. PICK chosen \in kSubset(total, free) : \E count \in [free -> DOMAIN Weights] :
        LET rows == {[q |-> q, n |-> count[q]] : q \in chosen} IN
        /\ \A k \in DOMAIN Weights :
               Cardinality({r \in rows : r.n = k}) = Apportion(total)[k]
        /\ primary' = IF part = "train" THEN primary \cup rows ELSE primary
        /\ reserve' = IF part = "reserve" THEN reserve \cup rows ELSE reserve
        /\ todo' = Tail(todo) /\ pc' = pc
    BY <1>2 DEF SelectType
<1>4. PICK count \in [free -> DOMAIN Weights] :
        LET rows == {[q |-> q, n |-> count[q]] : q \in chosen} IN
        /\ \A k \in DOMAIN Weights :
               Cardinality({r \in rows : r.n = k}) = Apportion(total)[k]
        /\ primary' = IF part = "train" THEN primary \cup rows ELSE primary
        /\ reserve' = IF part = "reserve" THEN reserve \cup rows ELSE reserve
        /\ todo' = Tail(todo) /\ pc' = pc
    BY <1>3
<1> DEFINE rows == {[q |-> q, n |-> count[q]] : q \in chosen}
<1>5. chosen \subseteq free /\ Cardinality(chosen) = total
    BY DEF kSubset
<1>6. rows \subseteq Row /\ Cardinality(rows) = total
  <2>1. chosen \subseteq Question /\ IsFiniteSet(chosen)
    BY <1>1, <1>5, FS_Subset
  <2>2. \A q \in chosen : count[q] \in DOMAIN Weights
    BY <1>5
  <2> QED
    BY <1>5, <2>1, <2>2, ChosenRows
<1>7. \A r \in rows : TypeOf[r.q] = Types[i]
    BY <1>5 DEF Available
<1>8. RowsOfType(rows, Types[i]) = rows
    BY <1>7 DEF RowsOfType
<1>9. \A n : Bucket(rows, Types[i], n) = {r \in rows : r.n = n}
    BY <1>7 DEF Bucket
<1>10. QuotaMet(rows, part, Types[i])
    BY <1>4, <1>6, <1>8, <1>9 DEF QuotaMet
<1> HIDE DEF total, free
<1> QED
    BY <1>4, <1>6, <1>7, <1>10

\* An iteration starts with the whole list and no rows.
LEMMA IterationStarts ==
    ASSUME todo = Selections, primary = {}, reserve = {}, pc = "select"
    PROVE  PoolInv
<1>1. Len(Types) \in Nat /\ DOMAIN Types = 1..Len(Types)
    BY TypesAreListed
<1>2. Len(todo) = 2 * Len(Types) /\ Done = 0
    BY <1>1, SelectionsAre DEF Done
<1>3. TodoIsRest
    BY <1>1, <1>2, SelectionsAre DEF TodoIsRest
<1>4. \A t : RowsOfType({}, t) = {}
    BY DEF RowsOfType
<1>5. QuotasMet
  <2>1. \A i \in DOMAIN Types : ~(i <= Done) /\ ~(Len(Types) + i <= Done)
    BY <1>1, <1>2
  <2> QED
    BY <1>4, <2>1 DEF QuotasMet
<1> QED
    BY <1>3, <1>5 DEF PoolInv

\* The next selection, and where it stands in the list.
LEMMA NextSelection ==
    ASSUME TodoIsRest, todo # <<>>
    PROVE  /\ Done \in Nat /\ Done < 2 * Len(Types)
           /\ Head(todo) = IF Done < Len(Types) THEN <<"train", Done + 1>>
                           ELSE <<"reserve", Done + 1 - Len(Types)>>
           /\ Tail(todo) \in Seq({"train", "reserve"} \X Nat)
           /\ Len(Tail(todo)) = Len(todo) - 1
           /\ \A j \in 1..Len(Tail(todo)) : Tail(todo)[j] = Selections[Done + 1 + j]
<1> DEFINE S == {"train", "reserve"} \X Nat
           N == Len(Types)
<1>1. todo \in Seq(S) /\ Len(todo) <= 2 * N
      /\ \A j \in 1..Len(todo) : todo[j] = Selections[Done + j]
    BY DEF TodoIsRest
<1> HIDE DEF S
<1>2. N \in Nat /\ Len(todo) \in Nat /\ Len(todo) # 0
    BY <1>1, TypesAreListed, LenProperties, EmptySeq
<1>3. Done \in Nat /\ Done < 2 * N /\ Done + 1 \in 1..2 * N /\ 1 \in 1..Len(todo)
    BY <1>1, <1>2 DEF Done
<1>4. /\ Head(todo) = todo[1]
      /\ Tail(todo) \in Seq(S)
      /\ Len(Tail(todo)) = Len(todo) - 1
      /\ \A j \in 1..Len(Tail(todo)) : Tail(todo)[j] = todo[j + 1]
    BY <1>1, HeadTailProperties
<1>5. Head(todo) = Selections[Done + 1]
    BY <1>1, <1>3, <1>4
<1>6. Head(todo) = IF Done < N THEN <<"train", Done + 1>>
                   ELSE <<"reserve", Done + 1 - N>>
  <2>1. Done + 1 <= N <=> Done < N
    BY <1>2, <1>3
  <2> QED
    BY <1>3, <1>5, <2>1, SelectionsAre
<1>7. ASSUME NEW j \in 1..Len(Tail(todo))
      PROVE  Tail(todo)[j] = Selections[Done + 1 + j]
  <2>1. j + 1 \in 1..Len(todo) /\ Done + (j + 1) = Done + 1 + j
    BY <1>2, <1>3, <1>4
  <2> QED
    BY <1>1, <1>4, <2>1
<1> QED
    BY <1>3, <1>4, <1>6, <1>7 DEF S

LEMMA SelectTypeFills ==
    ASSUME IInv, PoolInv, SelectType
    PROVE  PoolInv'
<1> DEFINE N == Len(Types)
<1>1. N \in Nat /\ DOMAIN Types = 1..N
    BY TypesAreListed
<1>2. CASE UNCHANGED pool
  <2>1. pc' \in {pc, "refused"} /\ pc = "select"
    BY DEF SelectType
  <2> QED
    BY <1>2, <2>1
    DEF PoolInv, TodoIsRest, QuotasMet, QuotaMet, Done, pool
<1>3. CASE ~UNCHANGED pool
  <2>1. todo # <<>> /\ pc = "select"
    BY DEF SelectType
  <2>2. /\ Done \in Nat /\ Done < 2 * N
        /\ Head(todo) = IF Done < N THEN <<"train", Done + 1>>
                        ELSE <<"reserve", Done + 1 - N>>
        /\ Tail(todo) \in Seq({"train", "reserve"} \X Nat)
        /\ Len(Tail(todo)) = Len(todo) - 1
        /\ \A j \in 1..Len(Tail(todo)) : Tail(todo)[j] = Selections[Done + 1 + j]
    BY <2>1, NextSelection DEF PoolInv
  <2> DEFINE part == IF Done < N THEN "train" ELSE "reserve"
             i == IF Done < N THEN Done + 1 ELSE Done + 1 - N
  <2>3. Head(todo) = <<part, i>> /\ i \in 1..N
    BY <1>1, <2>2
  <2>4. PICK rows \in SUBSET Row :
            /\ \A r \in rows : TypeOf[r.q] = Types[i]
            /\ QuotaMet(rows, part, Types[i])
            /\ primary' = IF part = "train" THEN primary \cup rows ELSE primary
            /\ reserve' = IF part = "reserve" THEN reserve \cup rows ELSE reserve
            /\ todo' = Tail(todo) /\ pc' = pc
    <3> HIDE DEF part, i
    <3> QED
      BY <1>3, <2>3, SelectTypeAdds
  <2>5. Done' = Done + 1 /\ Len(todo) \in Nat
    BY <1>1, <2>2, <2>4, LenProperties DEF Done, PoolInv, TodoIsRest
  <2>6. TodoIsRest'
    <3>1. Len(todo)' <= 2 * N
      BY <1>1, <2>2, <2>4, <2>5 DEF PoolInv, TodoIsRest
    <3> QED
      BY <2>1, <2>2, <2>4, <2>5, <3>1 DEF TodoIsRest
  <2>7. \A j \in DOMAIN Types : j # i => Types[j] # Types[i]
    BY <1>1, <2>3, TypesAssumption
  <2>8. CASE Done < N
    <3>1. part = "train" /\ i = Done + 1
      BY <2>8
    <3>2. primary' = primary \cup rows /\ reserve' = reserve
      BY <2>4, <3>1
    <3>3. RowsOfType(primary, Types[i]) = {}
      BY <1>1, <2>2, <2>3, <3>1 DEF PoolInv, QuotasMet
    <3>4. QuotaMet(primary', "train", Types[i])
      BY <2>4, <3>1, <3>2, <3>3, RowsAdded, QuotaOfSame
    <3>5. \A j \in DOMAIN Types : j # i =>
            RowsOfType(primary', Types[j]) = RowsOfType(primary, Types[j])
      BY <2>4, <2>7, <3>2 DEF RowsOfType
    <3>6. ASSUME NEW j \in DOMAIN Types
          PROVE  IF j <= Done + 1 THEN QuotaMet(primary', "train", Types[j])
                                  ELSE RowsOfType(primary', Types[j]) = {}
      <4>1. CASE j = i
        BY <2>2, <3>1, <3>4, <4>1
      <4>2. CASE j # i
        <5>1. j <= Done + 1 <=> j <= Done
          BY <1>1, <2>2, <3>1, <4>2
        <5>2. IF j <= Done THEN QuotaMet(primary, "train", Types[j])
                           ELSE RowsOfType(primary, Types[j]) = {}
          BY DEF PoolInv, QuotasMet
        <5> QED
          BY <3>5, <4>2, <5>1, <5>2, QuotaOfSame
      <4> QED
        BY <4>1, <4>2
    <3>7. ASSUME NEW j \in DOMAIN Types
          PROVE  ~(N + j <= Done + 1) /\ ~(N + j <= Done)
      BY <1>1, <2>2, <2>8
    <3>8. QuotasMet'
      BY <2>5, <3>2, <3>6, <3>7 DEF PoolInv, QuotasMet
    <3> QED
      BY <2>4, <2>6, <3>2, <3>8 DEF PoolInv
  <2>9. CASE ~(Done < N)
    <3>1. part = "reserve" /\ i = Done + 1 - N
      BY <2>9
    <3>2. reserve' = reserve \cup rows /\ primary' = primary
      BY <2>4, <3>1
    <3>3. RowsOfType(reserve, Types[i]) = {}
      <4>1. ~(N + i <= Done) /\ i \in DOMAIN Types
        BY <1>1, <2>2, <2>3, <3>1
      <4> QED
        BY <4>1 DEF PoolInv, QuotasMet
    <3>4. QuotaMet(reserve', "reserve", Types[i])
      BY <2>4, <3>1, <3>2, <3>3, RowsAdded, QuotaOfSame
    <3>5. \A j \in DOMAIN Types : j # i =>
            RowsOfType(reserve', Types[j]) = RowsOfType(reserve, Types[j])
      BY <2>4, <2>7, <3>2 DEF RowsOfType
    <3>6. ASSUME NEW j \in DOMAIN Types
          PROVE  IF N + j <= Done + 1 THEN QuotaMet(reserve', "reserve", Types[j])
                                      ELSE RowsOfType(reserve', Types[j]) = {}
      <4>1. CASE j = i
        <5>1. N + j <= Done + 1
          BY <1>1, <2>2, <3>1, <4>1
        <5> QED
          BY <3>4, <4>1, <5>1
      <4>2. CASE j # i
        <5>1. N + j <= Done + 1 <=> N + j <= Done
          BY <1>1, <2>2, <3>1, <4>2
        <5>2. IF N + j <= Done THEN QuotaMet(reserve, "reserve", Types[j])
                               ELSE RowsOfType(reserve, Types[j]) = {}
          BY DEF PoolInv, QuotasMet
        <5> QED
          BY <3>5, <4>2, <5>1, <5>2, QuotaOfSame
      <4> QED
        BY <4>1, <4>2
    <3>7. ASSUME NEW j \in DOMAIN Types
          PROVE  j <= Done + 1 /\ j <= Done
      BY <1>1, <2>2, <2>9
    <3>8. QuotasMet'
      BY <2>5, <3>2, <3>6, <3>7 DEF PoolInv, QuotasMet
    <3> QED
      BY <2>4, <2>6, <3>2, <3>8 DEF PoolInv
  <2> QED
    BY <2>8, <2>9
<1> QED
    BY <1>2, <1>3

LEMMA PoolKept ==
    ASSUME PoolInv, UNCHANGED pool,
           pc' \in {"scan", "choose", "build", "split", "done"} => todo = <<>>
    PROVE  PoolInv'
BY DEF PoolInv, TodoIsRest, QuotasMet, QuotaMet, Done, pool

LEMMA PoolStep ==
    ASSUME IInv, PoolInv, [Next]_vars
    PROVE  PoolInv'
<1>1. CASE SelectType
  BY <1>1, SelectTypeFills
<1>2. CASE BanWeak
  <2>1. CASE UNCHANGED pool
    BY <1>2, <2>1, PoolKept DEF BanWeak
  <2>2. CASE ~UNCHANGED pool
    <3>1. todo' = Selections /\ primary' = {} /\ reserve' = {} /\ pc' = "select"
      BY <1>2, <2>2 DEF BanWeak
    <3>2. (todo = Selections /\ primary = {} /\ reserve = {} /\ pc = "select")'
      BY <3>1 DEF Selections
    <3> QED
      BY <3>2, IterationStarts, PTL
  <2> QED
    BY <2>1, <2>2
<1>3. CASE PoolDone
  BY <1>3, PoolKept DEF PoolDone
<1>4. CASE ScanBatch \/ KeepRow \/ ReplaceRow \/ ChoiceDone \/ BuildRow
           \/ BuildDone \/ MoveGroup \/ SplitDone \/ Stopped \/ UNCHANGED vars
  <2>1. /\ UNCHANGED pool
        /\ pc' \in {"scan", "choose", "build", "split", "done"}
              => pc \in {"scan", "choose", "build", "split", "done"}
    BY <1>4 DEF ScanBatch, KeepRow, ReplaceRow, ChoiceDone, BuildRow, BuildDone,
                MoveGroup, SplitDone, Stopped, vars
  <2> QED
    BY <2>1, PoolKept DEF PoolInv, TodoIsRest
<1> QED
  BY <1>1, <1>2, <1>3, <1>4 DEF Next

\* The scan keeps intact candidates of the inventory, no more than it may.
ScanTells ==
    /\ pc = "select" => usable = [c \in Category |-> {}]
    /\ DOMAIN usable = Category
    /\ \A c \in Category :
        /\ usable[c] \subseteq {i \in Inventory(c) : Intact(c, i)}
        /\ Cardinality(usable[c]) <= MaxPositive

\* Every final row is a primary row that was looked at or a reserve row that
\* was taken, and can be used; unless some row found no replacement, final and
\* waiting rows together have the quotas of the primary pool.
ChoiceTells ==
    /\ pc \in {"select", "scan"} => waiting = {} /\ left = {} /\ final = {}
    /\ waiting \subseteq primary /\ left \subseteq reserve
    /\ final \subseteq (primary \ waiting) \cup (reserve \ left)
    /\ \A r \in left \cup final : ~Failed(r, usable)
    /\ pc \in {"choose", "build", "split", "done"} /\ ~short =>
        \A t, n : Cardinality(Bucket(final, t, n)) + Cardinality(Bucket(waiting, t, n))
                      = Cardinality(Bucket(primary, t, n))
    /\ pc \in {"build", "split", "done"} => waiting = {} /\ ~short

\* The validation rows are among the supervised ones, share no image with the
\* rest of them, and leave some of them for training.
SplitTells ==
    /\ built \subseteq final /\ validation \subseteq built
    /\ pc \notin {"split", "done"} => validation = {}
    /\ \A r \in validation, s \in built : Image(r) = Image(s) => s \in validation
    /\ built # {} => validation # built
    /\ pc = "done" => ~Unfinished

DataInv == ScanTells /\ ChoiceTells /\ SplitTells /\ NoInternalError

LEMMA FinalAreRows ==
    ASSUME PoolInv, ChoiceTells
    PROVE  final \subseteq Row /\ waiting \subseteq Row /\ left \subseteq Row
BY DEF PoolInv, ChoiceTells

LEMMA DataStarts == Init => DataInv
<1> SUFFICES ASSUME Init PROVE DataInv
  OBVIOUS
<1>1. ScanTells
  <2>1. \A c \in Category : usable[c] = {}
    BY DEF Init
  <2>2. Cardinality({}) <= MaxPositive
    BY FS_EmptySet, LimitAssumption
  <2> QED
    BY <2>1, <2>2 DEF Init, ScanTells
<1>2. ChoiceTells
  BY DEF Init, ChoiceTells
<1>3. SplitTells /\ NoInternalError
  BY DEF Init, SplitTells, NoInternalError
<1> QED
  BY <1>1, <1>2, <1>3 DEF DataInv

\* While the pool is selected there is nothing else yet.
LEMMA SelectionIsFirst ==
    ASSUME DataInv, pc = "select", pc' \in {"select", "refused", "scan"},
           UNCHANGED <<usable, choice, sft>>
    PROVE  DataInv'
<1>1. /\ usable' = [c \in Category |-> {}]
      /\ waiting' = {} /\ left' = {} /\ final' = {}
      /\ built' = {} /\ validation' = {}
  BY DEF DataInv, ScanTells, ChoiceTells, SplitTells, choice, sft
<1>2. ScanTells'
  <2>1. \A c \in Category : usable'[c] = {}
    BY <1>1
  <2>2. Cardinality({}) <= MaxPositive
    BY FS_EmptySet, LimitAssumption
  <2> QED
    BY <1>1, <2>1, <2>2 DEF ScanTells, Category
<1>3. ChoiceTells'
  BY <1>1 DEF ChoiceTells
<1>4. SplitTells' /\ NoInternalError'
  BY <1>1 DEF SplitTells, NoInternalError
<1> QED
  BY <1>2, <1>3, <1>4 DEF DataInv

\* A pool that was selected passes the checks that are made of it.
LEMMA PoolPasses ==
    ASSUME IInv, PoolInv, todo = <<>>, Weak = {}
    PROVE  PoolIsSound
<1>1. TooFew({CategoryOf[q] : q \in Used}, Excluded) = {}
  BY DEF Weak, TooFew, IInv, SelectedAllowed, Selected, Used
<1>2. \A i \in DOMAIN Types : i <= Done /\ Len(Types) + i <= Done
  <2>1. Done = 2 * Len(Types)
    BY TypesAreListed DEF Done
  <2> QED
    BY <2>1, TypesAreListed
<1>3. \A i \in DOMAIN Types :
        /\ QuotaMet(primary, "train", Types[i])
        /\ QuotaMet(reserve, "reserve", Types[i])
  BY <1>2 DEF PoolInv, QuotasMet
<1>4. {r.q : r \in primary} \cap {r.q : r \in reserve} = {}
  BY DEF IInv, PoolsDisjoint
<1> QED
  BY <1>1, <1>3, <1>4 DEF PoolIsSound, QuotaMet

LEMMA PoolDoneKeeps ==
    ASSUME IInv, PoolInv, DataInv, PoolDone
    PROVE  DataInv'
<1>1. pc' = "scan" /\ pc = "select"
  BY PoolPasses DEF PoolDone
<1> QED
  BY <1>1, SelectionIsFirst DEF PoolDone

LEMMA InventoryIsFinite ==
    ASSUME NEW c \in Category
    PROVE  Inventory(c) \subseteq Nat /\ IsFiniteSet(Inventory(c))
<1>1. DOMAIN Catalog[c] = 1..Len(Catalog[c]) /\ Len(Catalog[c]) \in Nat
  BY CatalogAssumption, LenProperties DEF Category
<1>2. IsFiniteSet(1..Len(Catalog[c])) /\ 1..Len(Catalog[c]) \subseteq Nat
  BY <1>1, FS_Interval
<1>3. Inventory(c) \subseteq 1..Len(Catalog[c])
  BY <1>1 DEF Inventory
<1> QED
  BY <1>2, <1>3, FS_Subset

LEMMA ScanBatchKeeps ==
    ASSUME PoolInv, DataInv, ScanBatch
    PROVE  DataInv'
<1>1. /\ pc = "scan" /\ pc' \in {"scan", "choose"}
      /\ UNCHANGED <<evidence, official, damaged, primary, reserve, final, short, sft>>
  BY DEF ScanBatch, inputs, pool
<1>2. waiting = {} /\ left = {} /\ final = {} /\ built = {} /\ validation = {}
  BY <1>1 DEF DataInv, ChoiceTells, SplitTells
<1>3. ScanTells'
  <2> SUFFICES ASSUME NEW c \in Category
               PROVE  /\ usable'[c] \subseteq {i \in Inventory(c) : Intact(c, i)}
                      /\ Cardinality(usable'[c]) <= MaxPositive
    BY <1>1 DEF ScanTells, ScanBatch, Category, Inventory, Intact, Excluded
  <2>1. /\ usable[c] \subseteq {i \in Inventory(c) : Intact(c, i)}
        /\ Cardinality(usable[c]) <= MaxPositive
    BY DEF DataInv, ScanTells
  <2>2. CASE c \notin active
    <3>1. usable'[c] = usable[c]
      BY <2>2 DEF ScanBatch
    <3> QED
      BY <2>1, <3>1
  <2>3. CASE c \in active
    <3> DEFINE more == usable[c] \cup {i \in Batch(c) : Intact(c, i)}
    <3>1. usable'[c] = Lowest(more, MaxPositive)
      BY <2>3 DEF ScanBatch
    <3>2. more \subseteq {i \in Inventory(c) : Intact(c, i)}
      BY <2>1 DEF Batch, Lowest
    <3>3. more \subseteq Nat /\ IsFiniteSet(more)
      BY <3>2, InventoryIsFinite, FS_Subset
    <3> HIDE DEF more
    <3>4. /\ Lowest(more, MaxPositive) \subseteq more
          /\ Cardinality(Lowest(more, MaxPositive)) <= MaxPositive
      BY <3>3, LowestIsBounded, LimitAssumption
    <3> QED
      BY <3>1, <3>2, <3>4
  <2> QED
    BY <2>2, <2>3
<1>4. ChoiceTells'
  <2>1. CASE pc' = "scan"
    <3>1. UNCHANGED <<waiting, left>>
      BY <2>1 DEF ScanBatch
    <3> QED
      BY <1>1, <1>2, <2>1, <3>1 DEF ChoiceTells
  <2>2. CASE pc' = "choose"
    <3>1. waiting' = primary /\ left' = {r \in reserve : ~Failed(r, usable')}
      BY <1>1, <2>2 DEF ScanBatch
    <3>2. \A t, n : /\ Bucket({}, t, n) = {} /\ Cardinality({}) = 0
                    /\ Cardinality(Bucket(primary, t, n)) \in Nat
      <4>1. \A t, n : Bucket(primary, t, n) \subseteq Row
        BY DEF Bucket, PoolInv
      <4> QED
        BY <4>1, CardinalityOfRows, FS_EmptySet DEF Bucket
    <3>3. \A r \in left' : ~Failed(r, usable)'
      BY <1>1, <3>1 DEF Failed
    <3>4. \A t, n : Cardinality(Bucket(final', t, n)) + Cardinality(Bucket(waiting', t, n))
                      = Cardinality(Bucket(primary', t, n))
      BY <1>1, <1>2, <3>1, <3>2
    <3> QED
      BY <1>1, <1>2, <2>2, <3>1, <3>3, <3>4 DEF ChoiceTells
  <2> QED
    BY <1>1, <2>1, <2>2
<1>5. SplitTells' /\ NoInternalError'
  BY <1>1, <1>2 DEF SplitTells, NoInternalError, sft
<1> QED
  BY <1>3, <1>4, <1>5 DEF DataInv

LEMMA ScanKept ==
    ASSUME ScanTells, UNCHANGED <<official, damaged, primary, reserve, usable>>,
           pc # "select", pc' # "select"
    PROVE  ScanTells'
BY DEF ScanTells, Category, Inventory, Intact, Excluded

\* Replacing a row by one of its type and image count keeps the counts.
LEMMA CountsKept ==
    ASSUME NEW chosen, chosen \subseteq Row, NEW queue, queue \subseteq Row,
           NEW r \in queue, NEW s \in Row, s \notin chosen,
           TypeOf[s.q] = TypeOf[r.q], s.n = r.n, NEW t, NEW n
    PROVE  Cardinality(Bucket(chosen \cup {s}, t, n)) + Cardinality(Bucket(queue \ {r}, t, n))
             = Cardinality(Bucket(chosen, t, n)) + Cardinality(Bucket(queue, t, n))
<1> DEFINE C == Bucket(chosen, t, n)
           Q == Bucket(queue, t, n)
<1>1. C \subseteq Row /\ Q \subseteq Row /\ s \notin C
  BY DEF Bucket
<1>2. IsFiniteSet(C) /\ IsFiniteSet(Q) /\ Cardinality(C) \in Nat /\ Cardinality(Q) \in Nat
  BY <1>1, CardinalityOfRows
<1>3. CASE TypeOf[r.q] = t /\ r.n = n
  <2>1. Bucket(chosen \cup {s}, t, n) = C \cup {s} /\ Bucket(queue \ {r}, t, n) = Q \ {r}
        /\ r \in Q
    BY <1>3 DEF Bucket
  <2>2. Cardinality(C \cup {s}) = Cardinality(C) + 1
    BY <1>1, <1>2, FS_AddElement
  <2>3. Cardinality(Q \ {r}) = Cardinality(Q) - 1
    BY <1>2, <2>1, FS_RemoveElement
  <2>4. Cardinality(C \cup {s}) + Cardinality(Q \ {r}) = Cardinality(C) + Cardinality(Q)
    <3> HIDE DEF C, Q
    <3> QED
      BY <1>2, <2>2, <2>3
  <2> QED
    BY <2>1, <2>4
<1>4. CASE ~(TypeOf[r.q] = t /\ r.n = n)
  <2>1. Bucket(chosen \cup {s}, t, n) = C /\ Bucket(queue \ {r}, t, n) = Q
    BY <1>4 DEF Bucket
  <2> QED
    BY <2>1
<1> QED
  BY <1>3, <1>4

\* A row of the queue leaves it, and it or a reserve row that can be used is
\* chosen instead.
LEMMA ChoosingKeeps ==
    ASSUME IInv, PoolInv, ChoiceTells, pc = "choose", pc' = "choose",
           UNCHANGED <<evidence, damaged, primary, reserve, usable, short>>,
           NEW r \in waiting, waiting' = waiting \ {r},
           NEW s, TypeOf[s.q] = TypeOf[r.q], s.n = r.n, final' = final \cup {s},
           \/ s = r /\ ~Failed(r, usable) /\ left' = left
           \/ s \in left /\ left' = left \ {s}
    PROVE  ChoiceTells'
<1>1. /\ waiting \subseteq primary /\ left \subseteq reserve
      /\ final \subseteq (primary \ waiting) \cup (reserve \ left)
      /\ primary \cap reserve = {}
  BY DEF ChoiceTells, IInv, PoolsDisjoint
<1>2. /\ s \notin final /\ waiting' \subseteq primary /\ left' \subseteq reserve
      /\ final' \subseteq (primary \ waiting') \cup (reserve \ left')
  BY <1>1
<1>3. ~Failed(s, usable)
  BY DEF ChoiceTells
<1>4. \A x \in left' \cup final' : ~Failed(x, usable)'
  <2>1. \A x \in left' \cup final' : ~Failed(x, usable)
    BY <1>3 DEF ChoiceTells
  <2> QED
    BY <2>1 DEF Failed
<1>5. ASSUME ~short, NEW t, NEW n
      PROVE  Cardinality(Bucket(final', t, n)) + Cardinality(Bucket(waiting', t, n))
               = Cardinality(Bucket(primary', t, n))
  <2>1. final \subseteq Row /\ waiting \subseteq Row /\ s \in Row
    BY FinalAreRows
  <2>2. Cardinality(Bucket(final \cup {s}, t, n)) + Cardinality(Bucket(waiting \ {r}, t, n))
          = Cardinality(Bucket(final, t, n)) + Cardinality(Bucket(waiting, t, n))
    BY <1>2, <2>1, CountsKept
  <2>3. Cardinality(Bucket(final, t, n)) + Cardinality(Bucket(waiting, t, n))
          = Cardinality(Bucket(primary, t, n))
    BY <1>5 DEF ChoiceTells
  <2> QED
    BY <2>2, <2>3
<1> QED
  BY <1>2, <1>4, <1>5 DEF ChoiceTells

LEMMA ChoiceStepKeeps ==
    ASSUME IInv, PoolInv, DataInv, KeepRow \/ ReplaceRow
    PROVE  DataInv'
<1>1. /\ pc = "choose" /\ pc' = "choose" /\ waiting # {}
      /\ UNCHANGED <<evidence, official, damaged, primary, reserve, usable, built, validation>>
  BY DEF KeepRow, ReplaceRow, inputs, pool, corpus, sft
<1> DEFINE r == First(waiting)
<1>2. r \in waiting
  BY <1>1, FirstIsIn, FinalAreRows DEF DataInv
<1> HIDE DEF r
<1>3. ScanTells'
  BY <1>1, ScanKept DEF DataInv
<1>4. ChoiceTells'
  <2>1. CASE KeepRow
    <3>1. /\ ~Failed(r, usable) /\ final' = final \cup {r}
          /\ waiting' = waiting \ {r} /\ UNCHANGED <<left, short>>
      BY <2>1 DEF KeepRow, r
    <3> QED
      BY <1>1, <1>2, <3>1, ChoosingKeeps DEF DataInv
  <2>2. CASE ReplaceRow /\ QueueFor(r) = {}
    <3>1. short' = TRUE /\ UNCHANGED <<final, left>> /\ waiting' = waiting \ {r}
      BY <2>2 DEF ReplaceRow, r
    <3>2. \A x \in left \cup final : ~Failed(x, usable)'
      BY <1>1 DEF DataInv, ChoiceTells, Failed
    <3> QED
      BY <1>1, <3>1, <3>2 DEF DataInv, ChoiceTells
  <2>3. CASE ReplaceRow /\ QueueFor(r) # {}
    <3> DEFINE s == First(QueueFor(r))
    <3>1. QueueFor(r) \subseteq {x \in left : TypeOf[x.q] = TypeOf[r.q] /\ x.n = r.n}
      BY DEF QueueFor, Queue
    <3>2. QueueFor(r) \subseteq Row
      BY <3>1, FinalAreRows DEF DataInv
    <3>3. s \in QueueFor(r)
      BY <2>3, <3>2, FirstIsIn
    <3>4. /\ final' = final \cup {s} /\ left' = left \ {s} /\ short' = short
          /\ waiting' = waiting \ {r}
      BY <2>3 DEF ReplaceRow, r
    <3> HIDE DEF s
    <3>5. s \in left /\ TypeOf[s.q] = TypeOf[r.q] /\ s.n = r.n
      BY <3>1, <3>3
    <3> QED
      BY <1>1, <1>2, <3>4, <3>5, ChoosingKeeps DEF DataInv
  <2> QED
    BY <2>1, <2>2, <2>3
<1>5. SplitTells' /\ NoInternalError'
  <2>1. final \subseteq final'
    BY DEF KeepRow, ReplaceRow
  <2> QED
    BY <1>1, <2>1 DEF DataInv, SplitTells, NoInternalError
<1> QED
  BY <1>3, <1>4, <1>5 DEF DataInv

\* What was chosen passes the checks that are made of it.
LEMMA UsableIsFinite ==
    ASSUME ScanTells, NEW c \in Category
    PROVE  IsFiniteSet(usable[c]) /\ Cardinality(usable[c]) \in Nat
BY InventoryIsFinite, FS_Subset, FS_CardinalityType DEF ScanTells

LEMMA CorpusPasses ==
    ASSUME PoolInv, ScanTells, ChoiceTells, waiting = {}, ~short,
           pc \in {"choose", "build", "split", "done"}
    PROVE  CorpusIsSound
<1>1. final \subseteq Row /\ final \subseteq primary \cup reserve
  BY FinalAreRows DEF ChoiceTells
<1>2. \A t, n : Cardinality(Bucket(final, t, n)) = Cardinality(Bucket(primary, t, n))
  <2> TAKE t, n
  <2>1. Bucket(waiting, t, n) = {} /\ Cardinality({}) = 0
    BY FS_EmptySet DEF Bucket
  <2>2. Cardinality(Bucket(final, t, n)) \in Nat
    BY <1>1, CardinalityOfRows DEF Bucket
  <2>3. Cardinality(Bucket(final, t, n)) + Cardinality(Bucket(waiting, t, n))
          = Cardinality(Bucket(primary, t, n))
    BY DEF ChoiceTells
  <2> QED
    BY <2>1, <2>2, <2>3
<1>3. ASSUME NEW r \in final
      PROVE  /\ CategoryIn(r) \in Category
             /\ Cardinality(usable[CategoryIn(r)]) \in MinPositive..MaxPositive
             /\ r.q \in evidence
             /\ QueryImages(r) \cap damaged = {}
             /\ QueryImages(r) \subseteq Excluded
  <2>1. ~Failed(r, usable)
    BY DEF ChoiceTells
  <2>2. CategoryIn(r) \in Category
    BY <1>1, CandidateAssumption DEF CategoryIn, Category, Row
  <2>3. Cardinality(usable[CategoryIn(r)]) \in MinPositive..MaxPositive
    <3>1. /\ Cardinality(usable[CategoryIn(r)]) \in Nat
          /\ Cardinality(usable[CategoryIn(r)]) <= MaxPositive
          /\ ~(Cardinality(usable[CategoryIn(r)]) < MinPositive)
      BY <2>1, <2>2, UsableIsFinite DEF Failed, ScanTells
    <3> QED
      BY <3>1, LimitAssumption
  <2>4. QueryImages(r) \subseteq SourceImages(r.q)
    <3>1. r.q \in Question /\ r.n \in DOMAIN Weights
      BY <1>1 DEF Row
    <3> QED
      BY <3>1, CandidateAssumption DEF QueryImages, SourceImages
  <2>5. SourceImages(r.q) \subseteq Excluded
    BY <1>1 DEF Excluded
  <2> QED
    BY <2>1, <2>2, <2>3, <2>4, <2>5 DEF Failed
<1>4. VisionCorpus \cap (Excluded \cup damaged) = {}
  BY <1>3 DEF VisionCorpus, ScanTells, Inventory, Intact
<1> QED
  BY <1>2, <1>3, <1>4 DEF CorpusIsSound

LEMMA ChoiceDoneKeeps ==
    ASSUME PoolInv, DataInv, ChoiceDone
    PROVE  DataInv'
<1>1. /\ pc = "choose" /\ waiting = {}
      /\ UNCHANGED <<evidence, official, damaged, primary, reserve, usable, waiting,
                     left, final, short, built, validation>>
  BY DEF ChoiceDone, inputs, pool, corpus, choice, sft
<1>2. pc' = IF short THEN "refused" ELSE "build"
  BY <1>1, CorpusPasses DEF ChoiceDone, DataInv
<1>3. ScanTells'
  BY <1>1, <1>2, ScanKept DEF DataInv
<1>4. ChoiceTells'
  <2>1. \A x \in left \cup final : ~Failed(x, usable)'
    BY <1>1 DEF DataInv, ChoiceTells, Failed
  <2> QED
    BY <1>1, <1>2, <2>1 DEF DataInv, ChoiceTells
<1>5. SplitTells' /\ NoInternalError'
  BY <1>1, <1>2 DEF DataInv, SplitTells, NoInternalError
<1> QED
  BY <1>3, <1>4, <1>5 DEF DataInv

LEMMA GroupsAreFinite ==
    ASSUME built \subseteq Row
    PROVE  IsFiniteSet(Groups)
<1> DEFINE group == [r \in built |-> Group(r)]
<1>1. group \in Surjection(built, Groups)
  BY DEF Surjection, Groups
<1> QED
  BY <1>1, CardinalityOfRows, FS_Surjection

\* Neither the supervised rows nor their split touch what was chosen.
LEMMA SupervisedKeeps ==
    ASSUME DataInv, pc \in {"build", "split"}, pc' \in {"build", "split", "done"},
           UNCHANGED <<inputs, pool, corpus, choice>>
    PROVE  ScanTells' /\ ChoiceTells' /\ NoInternalError'
<1>1. ScanTells' /\ NoInternalError'
  BY ScanKept DEF DataInv, NoInternalError, inputs, pool, corpus
<1>2. \A x \in left \cup final : ~Failed(x, usable)'
  BY DEF DataInv, ChoiceTells, Failed, inputs, corpus
<1> QED
  BY <1>1, <1>2 DEF DataInv, ChoiceTells, pool, choice

LEMMA BuildKeepsData ==
    ASSUME PoolInv, DataInv, BuildRow \/ BuildDone
    PROVE  DataInv'
<1>1. /\ pc = "build" /\ pc' \in {"build", "split"} /\ validation' = {} /\ final' = final
      /\ UNCHANGED <<inputs, pool, corpus, choice>>
  BY DEF DataInv, SplitTells, BuildRow, BuildDone, choice, sft
<1>2. built' \subseteq final
  <2>1. CASE BuildRow
    <3>1. Candidate \subseteq final
      BY DEF Candidate, Eligible
    <3>2. First(Candidate) \in Candidate
      BY <2>1, <3>1, FirstIsIn, FinalAreRows DEF BuildRow, DataInv
    <3> QED
      BY <2>1, <3>1, <3>2 DEF BuildRow, DataInv, SplitTells
  <2>2. CASE BuildDone
    BY <2>2 DEF BuildDone, sft, DataInv, SplitTells
  <2> QED
    BY <2>1, <2>2
<1>3. SplitTells'
  BY <1>1, <1>2 DEF SplitTells
<1> QED
  BY <1>1, <1>3, SupervisedKeeps DEF DataInv

\* The group that is moved is not the last one outside the validation split.
LEMMA MoveGroupKeeps ==
    ASSUME PoolInv, DataInv, MoveGroup
    PROVE  DataInv'
<1>1. /\ pc = "split" /\ pc' = "split" /\ Unfinished /\ final' = final /\ built' = built
      /\ UNCHANGED <<inputs, pool, corpus, choice>>
  BY DEF MoveGroup, choice
<1>2. PICK g \in Useful : validation' = validation \cup g
  BY DEF MoveGroup
<1>3. PICK p \in built : g = Group(p)
  BY DEF Useful, Groups
<1>4. built \subseteq final /\ validation \subseteq built
  BY DEF DataInv, SplitTells
<1>5. validation' \subseteq built
  BY <1>2, <1>3, <1>4 DEF Group
<1>6. ASSUME NEW r \in validation', NEW s \in built, Image(r) = Image(s)
      PROVE  s \in validation'
  BY <1>2, <1>3, <1>6 DEF Group, DataInv, SplitTells
<1>7. validation' # built
  <2> SUFFICES ASSUME validation \cup g = built
               PROVE  FALSE
    BY <1>2
  <2> DEFINE moved == {h \in Groups : h \subseteq validation}
  <2>1. \A h \in Groups : h # g => h \subseteq validation
    BY <1>3 DEF Groups, Group
  <2>2. Groups \ {g} \subseteq moved
    BY <2>1
  <2>3. IsFiniteSet(Groups)
    BY <1>4, GroupsAreFinite, FinalAreRows DEF DataInv
  <2>4. Cardinality(Groups \ {g}) = Cardinality(Groups) - 1 /\ Cardinality(Groups) \in Nat
    BY <2>3, FS_RemoveElement, FS_CardinalityType DEF Useful
  <2>5. Cardinality(Groups \ {g}) <= Cardinality(moved) /\ Cardinality(moved) \in Nat
    <3>1. IsFiniteSet(moved)
      BY <2>3, FS_Subset
    <3> QED
      BY <2>2, <3>1, FS_Subset, FS_CardinalityType
  <2>6. Cardinality(moved) < Cardinality(Groups) - 1
    BY <1>1 DEF Unfinished
  <2> QED
    BY <2>4, <2>5, <2>6
<1>8. SplitTells'
  <2>1. \A r \in validation', s \in built : Image(r)' = Image(s)' => s \in validation'
    BY <1>6 DEF Image
  <2> QED
    BY <1>1, <1>4, <1>5, <1>7, <2>1 DEF SplitTells
<1> QED
  BY <1>1, <1>8, SupervisedKeeps DEF DataInv

LEMMA SplitStands ==
    ASSUME UNCHANGED <<built, validation>>
    PROVE  Unfinished' = Unfinished
<1>1. Groups' = Groups
  BY DEF Groups, Group, Image
<1>2. \A x : Desired(x)' = Desired(x)
  BY DEF Desired, OfTaxon, TaxonIn, CategoryIn
<1>3. \A x : Lacks(x)' = Lacks(x)
  BY <1>2 DEF Lacks, OfTaxon, TaxonIn, CategoryIn
<1>4. \A g : Helps(g)' = Helps(g)
  BY <1>3 DEF Helps, OfTaxon, TaxonIn, CategoryIn
<1>5. Useful' = Useful
  BY <1>1, <1>4 DEF Useful
<1> QED
  BY <1>1, <1>3, <1>5 DEF Unfinished

LEMMA SplitDoneKeeps ==
    ASSUME DataInv, SplitDone
    PROVE  DataInv'
<1>1. SplitIsSound
  BY DEF SplitIsSound, DataInv, SplitTells
<1>2. /\ pc = "split" /\ pc' = "done" /\ ~Unfinished /\ UNCHANGED <<final, built, validation>>
      /\ UNCHANGED <<inputs, pool, corpus, choice>>
  BY <1>1 DEF SplitDone, choice, sft
<1>3. ~Unfinished'
  BY <1>2, SplitStands
<1>4. SplitTells'
  BY <1>2, <1>3 DEF DataInv, SplitTells, Image
<1> QED
  BY <1>2, <1>4, SupervisedKeeps DEF DataInv

LEMMA DataStands ==
    ASSUME DataInv, UNCHANGED vars
    PROVE  DataInv'
<1>1. Unfinished' = Unfinished
  BY SplitStands DEF vars, sft
<1> QED
  BY <1>1
  DEF DataInv, ScanTells, ChoiceTells, SplitTells, NoInternalError, vars, inputs, pool,
      corpus, choice, sft, Category, Inventory, Intact, Excluded, Failed, Image

LEMMA DataStep ==
    ASSUME IInv, PoolInv, DataInv, [Next]_vars
    PROVE  DataInv'
<1>1. CASE SelectType
  <2>1. pc = "select" /\ pc' \in {"select", "refused"} /\ UNCHANGED <<usable, choice, sft>>
    BY <1>1 DEF SelectType, corpus
  <2> QED
    BY <2>1, SelectionIsFirst
<1>2. CASE BanWeak
  <2>1. IInv'
    BY <1>2, BanWeakHolds
  <2>2. pc = "select" /\ pc' = "select" /\ UNCHANGED <<usable, choice, sft>>
    BY <1>2, <2>1 DEF BanWeak, corpus, IInv, ReachabilityConverges
  <2> QED
    BY <2>2, SelectionIsFirst
<1>3. CASE PoolDone
  BY <1>3, PoolDoneKeeps
<1>4. CASE ScanBatch
  BY <1>4, ScanBatchKeeps
<1>5. CASE KeepRow \/ ReplaceRow
  BY <1>5, ChoiceStepKeeps
<1>6. CASE ChoiceDone
  BY <1>6, ChoiceDoneKeeps
<1>7. CASE BuildRow \/ BuildDone
  BY <1>7, BuildKeepsData
<1>8. CASE MoveGroup
  BY <1>8, MoveGroupKeeps
<1>9. CASE SplitDone
  BY <1>9, SplitDoneKeeps
<1>10. CASE Stopped \/ UNCHANGED vars
  BY <1>10, DataStands DEF Stopped
<1> QED
  BY <1>1, <1>2, <1>3, <1>4, <1>5, <1>6, <1>7, <1>8, <1>9, <1>10 DEF Next

LEMMA DataAlways == Spec => [](IInv /\ PoolInv /\ DataInv)
<1>1. Init => IInv /\ PoolInv /\ DataInv
  BY InitHolds, IterationStarts, DataStarts DEF Init
<1>2. IInv /\ PoolInv /\ DataInv /\ [Next]_vars => (IInv /\ PoolInv /\ DataInv)'
  BY StepHolds, PoolStep, DataStep
<1> QED
  BY <1>1, <1>2, PTL DEF Spec

LEMMA MaxOfTwo ==
    ASSUME NEW a \in Int, NEW b \in Int
    PROVE  Max({a, b}) \in Int /\ Max({a, b}) >= a /\ Max({a, b}) >= b
<1>1. \E x \in {a, b} : \A y \in {a, b} : x >= y
  OBVIOUS
<1>2. Max({a, b}) \in {a, b} /\ \A y \in {a, b} : Max({a, b}) >= y
  BY <1>1 DEF Max
<1> QED
  BY <1>2

\* In the visual corpus a category has exactly its usable images.
LEMMA CorpusOfCategory ==
    ASSUME ScanTells, final \subseteq Row, NEW r \in final
    PROVE  Cardinality(Candidates(CategoryIn(r), {}) \cap VisionCorpus)
             = Cardinality(usable[CategoryIn(r)])
<1> DEFINE c == CategoryIn(r)
           images == Candidates(c, {}) \cap VisionCorpus
           image == [i \in usable[c] |-> Catalog[c][i]]
<1>1. \A s \in final : CategoryIn(s) \in Category
  BY CandidateAssumption DEF CategoryIn, Category, Row
<1>2. \A d \in Category : usable[d] \subseteq DOMAIN Catalog[d]
  BY DEF ScanTells, Inventory
<1>3. \A d, e \in Category :
        \A i \in DOMAIN Catalog[d], j \in DOMAIN Catalog[e] :
            Catalog[d][i] = Catalog[e][j] => d = e /\ i = j
  BY CatalogAssumption DEF Category
<1>4. \A i \in usable[c] : image[i] \in images
  BY <1>1, <1>2 DEF Candidates, VisionCorpus
<1>5. ASSUME NEW x \in images
      PROVE  \E i \in usable[c] : image[i] = x
  <2>1. PICK s \in final : \E i \in usable[CategoryIn(s)] : x = Catalog[CategoryIn(s)][i]
    BY DEF VisionCorpus
  <2>0. PICK i \in usable[CategoryIn(s)] : x = Catalog[CategoryIn(s)][i]
    BY <2>1
  <2>2. PICK j \in DOMAIN Catalog[c] : x = Catalog[c][j]
    BY DEF Candidates
  <2>3. CategoryIn(s) = c
    <3>1. /\ c \in Category /\ CategoryIn(s) \in Category
          /\ i \in DOMAIN Catalog[CategoryIn(s)]
      BY <1>1, <1>2
    <3>2. Catalog[CategoryIn(s)][i] = Catalog[c][j]
      BY <2>0, <2>2
    <3> QED
      BY <1>3, <2>2, <3>1, <3>2
  <2> QED
    BY <2>0, <2>3
<1>6. \A i, j \in usable[c] : image[i] = image[j] => i = j
  BY <1>1, <1>2, <1>3
<1>7. image \in Bijection(usable[c], images)
  <2> HIDE DEF images
  <2> QED
    BY <1>4, <1>5, <1>6 DEF Bijection, Injection, Surjection, IsInjective
<1>8. IsFiniteSet(usable[c])
  BY <1>1, UsableIsFinite
<1> HIDE DEF images
<1>9. Cardinality(images) = Cardinality(usable[c])
  BY <1>7, <1>8, FS_Bijection DEF ExistsBijection
<1> QED
  BY <1>9 DEF images

\* As long as no group was moved, one of several still has to be.
LEMMA SomethingToMove ==
    ASSUME built \subseteq Row, validation = {}, ValPercent > 0, Cardinality(Groups) > 1
    PROVE  Unfinished
<1>1. PICK r \in built : TRUE
  BY FS_EmptySet DEF Groups
<1>2. PICK i \in DOMAIN Taxa : Taxa[i] = TaxonIn(r)
  BY CandidateAssumption DEF TaxonIn, CategoryIn, Row
<1> DEFINE rows == OfTaxon(built, Taxa[i])
           desired == Desired(Taxa[i])
<1>3. r \in rows /\ Cardinality(rows) \in Nat
  BY <1>2, CardinalityOfRows DEF OfTaxon
<1>4. desired \in Int /\ desired >= 1
  <2> DEFINE share == Rounded(Cardinality(rows) * ValPercent)
  <2>1. Cardinality(rows) * ValPercent \in Nat
    BY <1>3, LimitAssumption
  <2>2. share \in Int
    BY <2>1 DEF Rounded
  <2>3. desired = Max({1, share})
    BY <1>3 DEF Desired
  <2> HIDE DEF share, desired
  <2>4. Max({1, share}) \in Int /\ Max({1, share}) >= 1
    BY <2>2, MaxOfTwo
  <2> QED
    BY <2>3, <2>4
<1>5. Lacks(Taxa[i]) > 0
  <2>1. OfTaxon(validation, Taxa[i]) = {} /\ Cardinality({}) = 0
    BY FS_EmptySet DEF OfTaxon
  <2>2. Lacks(Taxa[i]) = Max({0, desired - 0})
    BY <2>1 DEF Lacks
  <2> HIDE DEF desired
  <2>3. Max({0, desired - 0}) >= desired - 0 /\ Max({0, desired - 0}) \in Int
    BY <1>4, MaxOfTwo
  <2> QED
    BY <1>4, <2>2, <2>3
<1>6. Cardinality({g \in Groups : g \subseteq validation}) < Cardinality(Groups) - 1
  <2>1. {g \in Groups : g \subseteq validation} = {}
    BY DEF Groups, Group
  <2>2. Cardinality(Groups) \in Nat
    BY GroupsAreFinite, FS_CardinalityType
  <2>3. 0 < Cardinality(Groups) - 1 /\ Cardinality({}) = 0
    BY <2>2, FS_EmptySet
  <2> QED
    BY <2>1, <2>3
<1>7. Group(r) \in Useful
  <2>1. r \in OfTaxon(Group(r), Taxa[i])
    BY <1>2 DEF OfTaxon, Group
  <2> QED
    BY <1>5, <2>1 DEF Useful, Helps, Groups
<1> QED
  BY <1>5, <1>6, <1>7 DEF Unfinished

LEMMA DataKeepsPromise ==
    ASSUME IInv, PoolInv, DataInv
    PROVE  CorpusAsPromised
<1> SUFFICES ASSUME pc \in {"build", "split", "done"}
             PROVE  CorpusAsPromised
  BY DEF CorpusAsPromised
<1>1. todo = <<>> /\ waiting = {} /\ ~short
  BY DEF PoolInv, TodoIsRest, DataInv, ChoiceTells
<1>2. CorpusIsSound
  BY <1>1, CorpusPasses DEF DataInv
<1>3. final \subseteq Row /\ final \subseteq primary \cup reserve
  BY FinalAreRows DEF DataInv, ChoiceTells
<1>4. ASSUME NEW i \in DOMAIN Types
      PROVE  [n \in DOMAIN Weights |-> Cardinality(Bucket(final, Types[i], n))]
                 = Apportion(Wanted[Types[i]])
  <2>1. i <= Done
    BY <1>1, TypesAreListed DEF Done
  <2>2. QuotaMet(primary, "train", Types[i])
    BY <2>1 DEF PoolInv, QuotasMet
  <2>3. \A n \in DOMAIN Weights :
          Cardinality(Bucket(final, Types[i], n)) = Apportion(Wanted[Types[i]])[n]
    BY <1>2, <2>2 DEF CorpusIsSound, QuotaMet, Quota
  <2>4. Apportion(Wanted[Types[i]])
          = [n \in DOMAIN Weights |-> Apportion(Wanted[Types[i]])[n]]
    BY DEF Apportion
  <2> QED
    BY <2>3, <2>4
<1>5. ASSUME NEW r \in final
      PROVE  /\ CategoryIn(r) \notin banned
             /\ Cardinality(Candidates(CategoryIn(r), {}) \cap VisionCorpus)
                    \in MinPositive..MaxPositive
  BY <1>2, <1>3, CorpusOfCategory
  DEF CorpusIsSound, DataInv, IInv, SelectedAllowed, Selected, CategoryIn
<1>6. /\ VisionCorpus \cap UNION {SourceImages(r.q) : r \in primary \cup reserve} = {}
      /\ VisionCorpus \cap (official \cup damaged) = {}
  BY <1>2 DEF CorpusIsSound, Excluded
<1>7. ASSUME pc = "done", ValPercent > 0, Cardinality(Groups) > 1
      PROVE  /\ validation # {} /\ validation # built
             /\ \A r \in validation, s \in built \ validation :
                    ImagesOf[r.q][1] # ImagesOf[s.q][1]
  <2>1. built \subseteq Row
    BY <1>3 DEF DataInv, SplitTells
  <2>2. validation # {}
    BY <1>7, <2>1, SomethingToMove DEF DataInv, SplitTells
  <2> QED
    BY <2>2 DEF DataInv, SplitTells, Image
<1> QED
  BY <1>4, <1>5, <1>6, <1>7 DEF CorpusAsPromised

\* No check a build makes of its own work ever fails: _rp_build_pool_impl,
\* _rc_build_pool_corpus_impl and build_sft_records refuse what the inputs do
\* not provide, and otherwise produce what they assert.
THEOREM BuildNeverAsserts == Spec => []NoInternalError
<1>1. DataInv => NoInternalError
  BY DEF DataInv
<1> QED
  BY <1>1, DataAlways, PTL

\* The training data of a finished build has the exact quotas, a visual corpus
\* of enough intact images foreign to the pool and to the official validation,
\* and a validation split that is neither empty nor everything and shares no
\* image with the rest.
THEOREM CorpusKeepsPromise == Spec => []CorpusAsPromised
BY DataKeepsPromise, DataAlways, PTL

-----------------------------------------------------------------------------
(* The caches of StageCache: what a marker, a manifest and a file tell.    *)

\* A build that fingerprinted input i when its content was p, and reads it
\* again, reads p, or p was edited away under a build: `old` holds the inputs
\* edited so, with the contents they had.
Since(old, i, p, v) == v = p \/ <<i, p>> \in old

\* d and m are files and manifest that stage i made of u, the files and
\* manifest of the stage before, in a build that began when the stage's input
\* was p: r was recorded of it and v was read.
Made(old, i, p, u, d, m) ==
    \/ /\ i = 1 /\ u = Nothing
       /\ \E r, v \in Nat :
            /\ Since(old, 1, p, r) /\ Since(old, 1, p, v)
            /\ d = <<v>>
            /\ m = [of |-> d, upstream |-> u, inputs |-> <<r>>]
    \/ /\ i = 2
       /\ \E r, v \in Nat :
            /\ Since(old, 2, p, r) /\ Since(old, 2, p, v)
            /\ d = Append(u[1], v)
            /\ m = [of |-> d, upstream |-> u,
                    inputs |-> <<u[2].inputs[1], r>>]
    \/ /\ i = 3
       /\ \E w, v \in Nat :
            /\ Since(old, 2, u[2].inputs[2], w) /\ Since(old, 3, p, v)
            /\ d = u[1] \o <<w, v>>

\* What has been edited away stays in the history.
LEMMA MadeStays ==
    ASSUME NEW old, NEW later, NEW i, NEW p, NEW u, NEW d, NEW m,
           old \subseteq later, Made(old, i, p, u, d, m)
    PROVE  Made(later, i, p, u, d, m)
<1>1. \A k, q, v : Since(old, k, q, v) => Since(later, k, q, v)
    BY DEF Since
<1> QED
    BY <1>1 DEF Made

\* Types, and the phases in which the invariant has something to say.
CacheTypes ==
    /\ input \in [Stage -> Nat] /\ prints \in [Stage -> Nat]
    /\ at # "idle" => \A i \in Stage : Since(replaced, i, prints[i], input[i])
    /\ DOMAIN data = Stage /\ DOMAIN manifest = Stage /\ DOMAIN marker = Stage
    /\ stage \in Stage
    /\ at \in {"idle", "check", "record", "build", "replace", "mark",
               "publish", "vouch"}
    /\ at \in {"publish", "vouch"} => stage = Corpus
    /\ edited \in BOOLEAN
    /\ ~edited => prints = input
    /\ at # "idle" => outcome = "none"

\* A marker vouches for what its stage made under its fingerprint, whichever
\* build wrote it and whatever became of the files.
MarkersTell ==
    \A i \in Stage : marker[i] # Nothing =>
        Made(replaced, i, marker[i].fingerprint[1], marker[i].fingerprint[2],
             marker[i].data, marker[i].manifest)

\* The current build is past stage i.
Passed(i) ==
    /\ at # "idle"
    /\ i < stage \/ at \in {"publish", "vouch"} \/ (at = "mark" /\ i = stage)

\* The files of every stage it is past were made under its own fingerprints.
StageIsMade(i) == Made(replaced, i, prints[i], Upstream(i), data[i], manifest[i])
PassedAreMade == \A i \in Stage : Passed(i) => StageIsMade(i)

\* What a stage has recorded of its inputs, and that the corpus stage has found
\* the knowledge base to be what the pool stage recorded.
Recorded ==
    at \in {"build", "replace"} =>
        /\ recorded.upstream = Upstream(stage)
        /\ at = "replace" => Made(replaced, stage, prints[stage],
                                  Upstream(stage), staged, NewManifest)
        /\ at = "build" /\ stage = 3 =>
                Since(replaced, 2, manifest[2].inputs[2], input[2])
        /\ \E r \in Nat :
            /\ Since(replaced, stage, prints[stage], r)
            /\ stage = 1 => recorded.inputs = <<r>>
            /\ stage = 2 => recorded.inputs = <<manifest[1].inputs[1], r>>

\* Published files were made of the inputs whose fingerprint is p.
Dated(old, p, d) ==
    \E v1, v2, w, v3 \in Nat :
        /\ Since(old, 1, p[1], v1)
        /\ Since(old, 2, p[2], v2) /\ Since(old, 2, p[2], w)
        /\ Since(old, 3, p[3], v3)
        /\ d = <<v1, v2, w, v3>>

\* A published manifest tells of its files what their marker vouches for.
\* Without a marker it tells nothing: --force leaves the published files.
VouchedTells ==
    /\ vouched # Nothing =>
            Dated(replaced, vouched.fingerprint, vouched.manifest.of)
    /\ at = "vouch" =>
            /\ public.manifest = [fingerprint |-> prints, of |-> public.data]
            /\ Dated(replaced, prints, public.data)

CacheInv ==
    CacheTypes /\ MarkersTell /\ PassedAreMade /\ Recorded /\ VouchedTells

\* A step that writes no marker keeps what the markers tell.
LEMMA MarkersKept ==
    ASSUME MarkersTell, replaced \subseteq replaced',
           \A i \in Stage : marker'[i] = marker[i] \/ marker'[i] = Nothing
    PROVE  MarkersTell'
<1> SUFFICES ASSUME NEW i \in Stage, marker'[i] # Nothing
             PROVE  Made(replaced', i, marker[i].fingerprint[1],
                         marker[i].fingerprint[2], marker[i].data,
                         marker[i].manifest)
                    /\ marker'[i] = marker[i]
    BY DEF MarkersTell
<1>1. marker'[i] = marker[i]
    OBVIOUS
<1>2. Made(replaced, i, marker[i].fingerprint[1], marker[i].fingerprint[2],
           marker[i].data, marker[i].manifest)
    BY <1>1 DEF MarkersTell
<1> QED
    BY <1>1, <1>2, MadeStays

LEMMA DatedStays ==
    ASSUME NEW old, NEW later, NEW p, NEW d, old \subseteq later,
           Dated(old, p, d)
    PROVE  Dated(later, p, d)
<1>1. \A k, q, v : Since(old, k, q, v) => Since(later, k, q, v)
    BY DEF Since
<1> QED
    BY <1>1 DEF Dated

\* A step that vouches for nothing new keeps what is vouched for.
LEMMA VouchedKept ==
    ASSUME VouchedTells, replaced \subseteq replaced', at' # "vouch",
           vouched' = vouched \/ vouched' = Nothing
    PROVE  VouchedTells'
<1> SUFFICES ASSUME vouched' # Nothing
             PROVE  Dated(replaced', vouched'.fingerprint, vouched'.manifest.of)
    BY DEF VouchedTells
<1> DEFINE p == vouched.fingerprint
           d == vouched.manifest.of
<1>1. vouched' = vouched
    OBVIOUS
<1>2. Dated(replaced, p, d)
    BY <1>1 DEF VouchedTells
<1> HIDE DEF p, d
<1>3. Dated(replaced', p, d)
    BY <1>2, DatedStays
<1> QED
    BY <1>1, <1>3 DEF p, d

\* A build that ends leaves nothing to say about its stages.
LEMMA EndKeeps ==
    ASSUME CacheInv, UNCHANGED <<input, prints, history>>, at' = "idle", stage' = 1,
           DOMAIN data' = Stage, DOMAIN manifest' = Stage, DOMAIN marker' = Stage,
           \A i \in Stage : marker'[i] = marker[i] \/ marker'[i] = Nothing,
           VouchedTells'
    PROVE  CacheInv'
<1>1. CacheTypes'
    BY DEF CacheInv, CacheTypes, Stage, history
<1>2. MarkersTell'
    BY MarkersKept DEF CacheInv, history
<1>3. PassedAreMade' /\ Recorded'
    BY DEF PassedAreMade, Passed, Recorded
<1> QED
    BY <1>1, <1>2, <1>3 DEF CacheInv

LEMMA BeginKeeps ==
    ASSUME CacheInv, Begin
    PROVE  CacheInv'
<1>1. /\ UNCHANGED <<input, public>> /\ prints' = input /\ edited' = FALSE
      /\ stage' = 1
      /\ at' = "idle" \/ (at' = "check" /\ outcome' = "none")
    BY DEF Begin, Goto
<1>2. /\ DOMAIN data' = Stage /\ DOMAIN manifest' = Stage
      /\ DOMAIN marker' = Stage
      /\ MarkersTell' /\ VouchedTells'
  <2>1. CASE UNCHANGED <<cache, vouched, replaced>>
    <3>1. MarkersTell' /\ VouchedTells'
        BY <1>1, <2>1, MarkersKept, VouchedKept DEF CacheInv, cache
    <3> QED
        BY <2>1, <3>1 DEF CacheInv, CacheTypes, cache
  <2>2. CASE Clear
    <3>1. MarkersTell'
        BY <2>2 DEF Clear, MarkersTell
    <3>2. VouchedTells'
        BY <1>1, <2>2 DEF Clear, VouchedTells
    <3> QED
        BY <2>2, <3>1, <3>2 DEF Clear
  <2> QED
    BY <2>1, <2>2 DEF Begin
<1>3. CacheTypes'
  <2>1. \A i \in Stage : Since(replaced', i, prints'[i], input'[i])
    BY <1>1 DEF Since
  <2>2. 1 \in Stage
    BY DEF Stage
  <2> QED
    BY <1>1, <1>2, <2>1, <2>2 DEF CacheInv, CacheTypes
<1>5. PassedAreMade'
  <2>1. \A i \in Stage : ~(i < 1)
    BY DEF Stage
  <2> QED
    BY <1>1, <2>1 DEF PassedAreMade, Passed
<1>6. Recorded'
    BY <1>1 DEF Recorded
<1> QED
    BY <1>2, <1>3, <1>5, <1>6 DEF CacheInv

LEMMA ClearStopsKeeps ==
    ASSUME CacheInv, NEW n \in Stage, ClearStops(n)
    PROVE  CacheInv'
<1>1. /\ UNCHANGED <<input, vouched, marker, replaced>>
      /\ prints' = input /\ edited' = FALSE /\ stage' = 1 /\ at' = "idle"
    BY DEF ClearStops, Ends, Goto, output
<1>2. DOMAIN data' = Stage /\ DOMAIN manifest' = Stage
    BY DEF ClearStops
<1>3. CacheTypes'
  <2>1. 1 \in Stage
    BY DEF Stage
  <2>2. DOMAIN marker' = Stage
    BY <1>1 DEF CacheInv, CacheTypes
  <2> QED
    BY <1>1, <1>2, <2>1, <2>2 DEF CacheInv, CacheTypes
<1>4. MarkersTell' /\ VouchedTells'
    BY <1>1, MarkersKept, VouchedKept DEF CacheInv
<1>5. PassedAreMade' /\ Recorded'
    BY <1>1 DEF PassedAreMade, Passed, Recorded
<1> QED
    BY <1>3, <1>4, <1>5 DEF CacheInv

LEMMA StopsKeep ==
    ASSUME CacheInv, ReplaceStops \/ PublishStops \/ Stop
    PROVE  CacheInv'
<1>1. /\ UNCHANGED <<input, prints, history, marker, vouched>>
      /\ stage' = 1 /\ at' = "idle"
    BY DEF ReplaceStops, PublishStops, Stop, Ends, Goto, output, cache
<1>2. DOMAIN data' = Stage /\ DOMAIN manifest' = Stage
    BY DEF ReplaceStops, PublishStops, Stop, cache, CacheInv, CacheTypes
<1>3. VouchedTells'
    BY <1>1, VouchedKept DEF CacheInv, history
<1> QED
    BY <1>1, <1>2, <1>3, EndKeeps DEF CacheInv, CacheTypes

\* Going on to the next stage, or to the publication after the last.
LEMMA AfterKeeps ==
    ASSUME CacheInv, UNCHANGED <<input, prints, history, data, manifest, vouched, outcome>>,
           at \in {"check", "mark"}, After(stage), StageIsMade(stage),
           DOMAIN marker' = Stage, MarkersTell'
    PROVE  CacheInv'
<1>0. /\ stage \in 1..3 /\ outcome = "none"
    BY DEF CacheInv, CacheTypes, Stage
<1>1. \/ stage = 3 /\ stage' = 3 /\ at' = "publish"
      \/ stage \in 1..2 /\ stage' = stage + 1 /\ at' = "check"
    BY <1>0 DEF After, Goto, Corpus
<1>2. CacheTypes'
  <2>1. stage' \in Stage
    BY <1>1 DEF Stage
  <2>2. at' \in {"publish", "vouch"} => stage' = Corpus
    BY <1>1 DEF Corpus
  <2> QED
    BY <1>0, <1>1, <2>1, <2>2 DEF CacheInv, CacheTypes, history
<1>3. VouchedTells'
    BY <1>1, VouchedKept DEF CacheInv, history
<1>4. PassedAreMade'
  <2> SUFFICES ASSUME NEW i \in Stage, Passed(i)'
               PROVE  StageIsMade(i)
    BY DEF PassedAreMade, StageIsMade, Upstream, history
  <2>1. i = stage \/ i < stage
    BY <1>0, <1>1 DEF Passed, Stage
  <2>2. CASE i < stage
    BY <2>2 DEF CacheInv, PassedAreMade, Passed
  <2> QED
    BY <2>1, <2>2
<1>5. Recorded'
    BY <1>1 DEF Recorded
<1> QED
    BY <1>2, <1>3, <1>4, <1>5 DEF CacheInv

LEMMA CheckKeepsCache ==
    ASSUME CacheInv, Check
    PROVE  CacheInv'
<1>1. /\ UNCHANGED <<input, prints, history, data, manifest, marker, vouched, outcome>>
      /\ at = "check"
    BY DEF Check, cache, output
<1>2. /\ stage \in Stage /\ DOMAIN marker' = Stage /\ MarkersTell'
    BY <1>1, MarkersKept DEF CacheInv, CacheTypes, history
<1>3. CASE StageReusable(stage)
  <2>1. StageIsMade(stage)
    <3>1. marker[stage] # Nothing
        BY <1>3 DEF StageReusable
    <3>2. Made(replaced, stage, marker[stage].fingerprint[1],
               marker[stage].fingerprint[2], marker[stage].data,
               marker[stage].manifest)
        BY <1>2, <3>1 DEF CacheInv, MarkersTell
    <3>3. /\ marker[stage].fingerprint = <<prints[stage], Upstream(stage)>>
          /\ marker[stage].data = data[stage]
          /\ marker[stage].manifest = manifest[stage]
        BY <1>3 DEF StageReusable, StageFingerprint
    <3> QED
        BY <3>2, <3>3 DEF StageIsMade
  <2>2. After(stage)
    BY <1>3 DEF Check
  <2> QED
    BY <1>1, <1>2, <2>1, <2>2, AfterKeeps
<1>4. CASE ~StageReusable(stage)
  <2>1. at' = "record" /\ stage' = stage
    BY <1>4 DEF Check, Goto
  <2>2. CacheTypes'
    BY <1>1, <2>1 DEF CacheInv, CacheTypes, history
  <2>3. VouchedTells'
    BY <1>1, <1>2, <2>1, VouchedKept DEF CacheInv, history
  <2>4. PassedAreMade'
    BY <1>1, <2>1 DEF CacheInv, PassedAreMade, Passed, StageIsMade, Upstream, history
  <2>5. Recorded'
    BY <2>1 DEF Recorded
  <2> QED
    BY <1>2, <2>2, <2>3, <2>4, <2>5 DEF CacheInv
<1> QED
    BY <1>3, <1>4

LEMMA RecordKeeps ==
    ASSUME CacheInv, Record
    PROVE  CacheInv'
<1>1. /\ UNCHANGED <<input, prints, history, data, manifest, marker, vouched>>
      /\ at = "record"
    BY DEF Record, cache, output
<1>2. /\ stage \in Stage /\ DOMAIN marker' = Stage /\ MarkersTell'
      /\ DOMAIN data' = Stage /\ DOMAIN manifest' = Stage
    BY <1>1, MarkersKept DEF CacheInv, CacheTypes, history
<1>3. CASE UpstreamValid(stage)
  <2>1. /\ at' = "build" /\ stage' = stage /\ outcome' = outcome
        /\ recorded' = [upstream |-> Upstream(stage),
                        inputs |-> [j \in 1..stage |-> input[j]]]
    BY <1>3 DEF Record, Goto
  <2>2. CacheTypes'
    BY <1>1, <2>1 DEF CacheInv, CacheTypes, history
  <2>3. VouchedTells'
    BY <1>1, <1>2, <2>1, VouchedKept DEF CacheInv, history
  <2>4. PassedAreMade'
    BY <1>1, <2>1 DEF CacheInv, PassedAreMade, Passed, StageIsMade, Upstream, history
  <2>5. Recorded'
    <3>1. recorded'.upstream = Upstream(stage)'
        BY <1>1, <2>1 DEF Upstream
    <3>2. input[stage] \in Nat /\ Since(replaced, stage, prints[stage], input[stage])
        BY <1>1, <1>2 DEF CacheInv, CacheTypes
    <3>3. stage = 1 => recorded'.inputs = <<input[1]>>
        BY <2>1
    <3>4. ASSUME stage = 2
          PROVE  recorded'.inputs = <<manifest[1].inputs[1], input[2]>>
      <4>1. recorded'.inputs = <<input[1], input[2]>>
        BY <2>1, <3>4
      <4>2. manifest[1].inputs[1] = input[1]
        BY <1>3, <3>4 DEF UpstreamValid
      <4> QED
        BY <4>1, <4>2
    <3>5. ASSUME stage = 3
          PROVE  Since(replaced, 2, manifest[2].inputs[2], input[2])
      <4>1. 3 > 1 /\ 3 - 1 = 2 /\ 2 \in 1..2
        OBVIOUS
      <4>2. manifest[2].inputs[2] = input[2]
        BY <1>3, <3>5, <4>1 DEF UpstreamValid
      <4> QED
        BY <4>2 DEF Since
    <3>6. \E r \in Nat :
            /\ Since(replaced, stage, prints[stage], r)
            /\ stage = 1 => recorded'.inputs = <<r>>
            /\ stage = 2 => recorded'.inputs = <<manifest[1].inputs[1], r>>
      <4> USE <3>2
      <4> WITNESS input[stage] \in Nat
      <4> QED
        BY <3>2, <3>3, <3>4
    <3> QED
        BY <1>1, <2>1, <3>1, <3>5, <3>6 DEF Recorded, history
  <2> QED
    BY <1>2, <2>2, <2>3, <2>4, <2>5 DEF CacheInv
<1>4. CASE ~UpstreamValid(stage)
  <2>1. at' = "idle" /\ stage' = 1
    BY <1>4 DEF Record, Ends, Goto
  <2>2. VouchedTells'
    BY <1>1, <2>1, VouchedKept DEF CacheInv, history
  <2> QED
    BY <1>1, <1>2, <2>1, <2>2, EndKeeps
<1> QED
    BY <1>3, <1>4

\* What a stage builds is made of what it recorded, or of what was put in its
\* place since.
LEMMA BuildKeeps ==
    ASSUME CacheInv, BuildStage
    PROVE  CacheInv'
<1>1. /\ UNCHANGED <<input, prints, history, data, manifest, marker, vouched,
                     recorded, outcome>>
      /\ at = "build" /\ at' = "replace" /\ stage' = stage /\ staged' = Built(stage)
    BY DEF BuildStage, Goto, cache, output
<1>2. /\ stage \in Stage /\ DOMAIN marker' = Stage /\ MarkersTell'
    BY <1>1, MarkersKept DEF CacheInv, CacheTypes, history
<1>3. CacheTypes'
    BY <1>1 DEF CacheInv, CacheTypes, history
<1>4. VouchedTells'
    BY <1>1, VouchedKept DEF CacheInv, history
<1>5. PassedAreMade'
    BY <1>1 DEF CacheInv, PassedAreMade, Passed, StageIsMade, Upstream, history
<1>6. Recorded'
  <2>1. recorded.upstream = Upstream(stage)
    BY <1>1 DEF CacheInv, Recorded
  <2>2. PICK r \in Nat :
            /\ Since(replaced, stage, prints[stage], r)
            /\ stage = 1 => recorded.inputs = <<r>>
            /\ stage = 2 => recorded.inputs = <<manifest[1].inputs[1], r>>
    BY <1>1 DEF CacheInv, Recorded
  <2>3. /\ input[1] \in Nat /\ input[2] \in Nat /\ input[3] \in Nat
        /\ Since(replaced, 1, prints[1], input[1])
        /\ Since(replaced, 2, prints[2], input[2])
        /\ Since(replaced, 3, prints[3], input[3])
    BY <1>1 DEF CacheInv, CacheTypes, Stage
  <2> DEFINE m == [of |-> Built(stage), upstream |-> recorded.upstream,
                   inputs |-> recorded.inputs]
  <2>4. Made(replaced, stage, prints[stage], Upstream(stage), Built(stage), m)
    <3>1. CASE stage = 1
      <4>1. Built(1) = <<input[1]>> /\ Upstream(1) = Nothing
        BY DEF Built, Upstream
      <4>2. m = [of |-> Built(1), upstream |-> Nothing, inputs |-> <<r>>]
        BY <2>1, <2>2, <3>1, <4>1
      <4>3. \E r1, v \in Nat :
                /\ Since(replaced, 1, prints[1], r1)
                /\ Since(replaced, 1, prints[1], v)
                /\ Built(1) = <<v>>
                /\ m = [of |-> Built(1), upstream |-> Nothing, inputs |-> <<r1>>]
        <5> USE <2>3
        <5> WITNESS r \in Nat, input[1] \in Nat
        <5> QED
          BY <2>2, <2>3, <3>1, <4>1, <4>2
      <4> QED
        BY <3>1, <4>1, <4>3 DEF Made
    <3>2. CASE stage = 2
      <4>1. /\ Built(2) = Append(data[1], input[2])
            /\ Upstream(2) = <<data[1], manifest[1]>>
        BY DEF Built, Upstream
      <4>2. /\ Upstream(2)[1] = data[1] /\ Upstream(2)[2] = manifest[1]
        BY <4>1
      <4>3. m = [of |-> Built(2), upstream |-> Upstream(2),
                 inputs |-> <<Upstream(2)[2].inputs[1], r>>]
        BY <2>1, <2>2, <3>2, <4>2
      <4>4. Built(2) = Append(Upstream(2)[1], input[2])
        BY <4>1, <4>2
      <4>5. \E r2, v \in Nat :
                /\ Since(replaced, 2, prints[2], r2)
                /\ Since(replaced, 2, prints[2], v)
                /\ Built(2) = Append(Upstream(2)[1], v)
                /\ m = [of |-> Built(2), upstream |-> Upstream(2),
                        inputs |-> <<Upstream(2)[2].inputs[1], r2>>]
        <5> USE <2>3
        <5> WITNESS r \in Nat, input[2] \in Nat
        <5> QED
          BY <2>2, <2>3, <3>2, <4>3, <4>4
      <4> QED
        BY <3>2, <4>5 DEF Made
    <3>3. CASE stage = 3
      <4>1. Built(3) = data[2] \o <<input[2], input[3]>>
        BY DEF Built
      <4>2. Upstream(3) = <<data[2], manifest[2]>>
        BY DEF Upstream
      <4>3. Upstream(3)[1] = data[2] /\ Upstream(3)[2] = manifest[2]
        BY <4>2
      <4>4. Since(replaced, 2, Upstream(3)[2].inputs[2], input[2])
        BY <1>1, <3>3, <4>3 DEF CacheInv, Recorded
      <4>5. Built(3) = Upstream(3)[1] \o <<input[2], input[3]>>
        BY <4>1, <4>3
      <4>6. \E w, v \in Nat :
                /\ Since(replaced, 2, Upstream(3)[2].inputs[2], w)
                /\ Since(replaced, 3, prints[3], v)
                /\ Built(3) = Upstream(3)[1] \o <<w, v>>
        <5> USE <2>3
        <5> WITNESS input[2] \in Nat, input[3] \in Nat
        <5> QED
          BY <2>3, <4>4, <4>5, Zenon
      <4> QED
        BY <3>3, <4>6 DEF Made
    <3> QED
        BY <1>2, <3>1, <3>2, <3>3 DEF Stage
  <2>5. NewManifest' = m
    BY <1>1 DEF NewManifest
  <2>6. Upstream(stage)' = Upstream(stage)
    BY <1>1 DEF Upstream
  <2> HIDE DEF m
  <2>7. Made(replaced, stage, prints[stage], Upstream(stage), staged, NewManifest)'
    BY <1>1, <2>4, <2>5, <2>6 DEF history
  <2> QED
    BY <1>1, <2>1, <2>2, <2>6, <2>7 DEF Recorded, history
<1> QED
    BY <1>2, <1>3, <1>4, <1>5, <1>6 DEF CacheInv

LEMMA ReplaceKeeps ==
    ASSUME CacheInv, Replace
    PROVE  CacheInv'
<1>1. /\ UNCHANGED <<input, prints, history, marker, vouched, outcome>>
      /\ at = "replace" /\ at' = "mark" /\ stage' = stage
      /\ data' = [data EXCEPT ![stage] = staged]
      /\ manifest' = [manifest EXCEPT ![stage] = NewManifest]
    BY DEF Replace, Goto, output
<1>2. /\ stage \in Stage /\ DOMAIN marker' = Stage /\ MarkersTell'
    BY <1>1, MarkersKept DEF CacheInv, CacheTypes, history
<1>3. DOMAIN data' = Stage /\ DOMAIN manifest' = Stage
    BY <1>1 DEF CacheInv, CacheTypes, history
<1>4. CacheTypes'
    BY <1>1, <1>2, <1>3 DEF CacheInv, CacheTypes, history
<1>5. VouchedTells'
    BY <1>1, <1>2, VouchedKept DEF CacheInv, history
<1>6. /\ data'[stage] = staged /\ manifest'[stage] = NewManifest
      /\ \A i \in Stage : i # stage => data'[i] = data[i] /\ manifest'[i] = manifest[i]
    BY <1>1, <1>2 DEF CacheInv, CacheTypes, history
<1>7. \A i \in Stage : i <= stage => Upstream(i)' = Upstream(i)
  <2>1. ASSUME NEW i \in Stage, i <= stage, i # 1
        PROVE  data'[i - 1] = data[i - 1] /\ manifest'[i - 1] = manifest[i - 1]
    <3>1. i - 1 \in Stage /\ i - 1 # stage
        BY <1>2, <2>1 DEF Stage
    <3> QED
        BY <1>6, <3>1
  <2> QED
    BY <2>1 DEF Upstream
<1>8. PassedAreMade'
  <2> SUFFICES ASSUME NEW i \in Stage, Passed(i)'
               PROVE  StageIsMade(i)'
    BY DEF PassedAreMade
  <2>1. i = stage \/ (i < stage /\ i # stage /\ Passed(i))
    BY <1>1, <1>2 DEF Passed, Stage
  <2>2. i <= stage
    BY <1>2, <2>1 DEF Stage
  <2>3. CASE i = stage
    <3>1. Made(replaced, stage, prints[stage], Upstream(stage), staged, NewManifest)
        BY <1>1 DEF CacheInv, Recorded
    <3> QED
        BY <1>1, <1>6, <1>7, <2>2, <2>3, <3>1 DEF StageIsMade, history
  <2>4. CASE i # stage /\ Passed(i)
    <3>1. StageIsMade(i)
        BY <2>4 DEF CacheInv, PassedAreMade
    <3> QED
        BY <1>1, <1>6, <1>7, <2>2, <2>4, <3>1 DEF StageIsMade, history
  <2> QED
    BY <2>1, <2>3, <2>4
<1>9. Recorded'
    BY <1>1 DEF Recorded
<1> QED
    BY <1>2, <1>4, <1>5, <1>8, <1>9 DEF CacheInv

LEMMA MarkKeeps ==
    ASSUME CacheInv, Mark
    PROVE  CacheInv'
<1>1. /\ UNCHANGED <<input, prints, history, data, manifest, vouched, outcome>>
      /\ at = "mark" /\ After(stage)
      /\ marker' = [marker EXCEPT ![stage] =
                       [fingerprint |-> StageFingerprint(stage),
                        data |-> data[stage], manifest |-> manifest[stage]]]
    BY DEF Mark, output
<1>2. stage \in Stage /\ DOMAIN marker = Stage
    BY DEF CacheInv, CacheTypes, history
<1>3. StageIsMade(stage)
    BY <1>1, <1>2 DEF CacheInv, PassedAreMade, Passed
<1>4. /\ DOMAIN marker' = Stage
      /\ marker'[stage] = [fingerprint |-> StageFingerprint(stage),
                           data |-> data[stage], manifest |-> manifest[stage]]
      /\ \A i \in Stage : i # stage => marker'[i] = marker[i]
    BY <1>1, <1>2
<1>5. MarkersTell'
  <2> SUFFICES ASSUME NEW i \in Stage, marker'[i] # Nothing
               PROVE  Made(replaced, i, marker'[i].fingerprint[1],
                           marker'[i].fingerprint[2], marker'[i].data,
                           marker'[i].manifest)
    BY <1>1 DEF MarkersTell, history
  <2>1. CASE i = stage
    <3>1. /\ marker'[i].fingerprint[1] = prints[stage]
          /\ marker'[i].fingerprint[2] = Upstream(stage)
          /\ marker'[i].data = data[stage] /\ marker'[i].manifest = manifest[stage]
        BY <1>4, <2>1 DEF StageFingerprint
    <3> QED
        BY <1>3, <2>1, <3>1 DEF StageIsMade
  <2>2. CASE i # stage
    BY <1>4, <2>2 DEF CacheInv, MarkersTell
  <2> QED
    BY <2>1, <2>2
<1> QED
    BY <1>1, <1>3, <1>4, <1>5, AfterKeeps

\* The files of the stages, written out.
LEMMA PairAppends ==
    ASSUME NEW a \in Nat, NEW b \in Nat
    PROVE  Append(<<a>>, b) = <<a, b>>
<1>0. /\ <<a>> \in Seq(Nat) /\ Len(<<a>>) = 1 /\ <<a>>[1] = a
      /\ <<a, b>> \in Seq(Nat) /\ Len(<<a, b>>) = 2
      /\ <<a, b>>[1] = a /\ <<a, b>>[2] = b
  OBVIOUS
<1> DEFINE s == Append(<<a>>, b)
           t == <<a, b>>
<1>1. /\ s \in Seq(Nat) /\ Len(s) = 2 /\ s[1] = a /\ s[2] = b
  BY <1>0, AppendProperties
<1>2. /\ t \in Seq(Nat) /\ Len(t) = 2 /\ t[1] = a /\ t[2] = b
  BY <1>0
<1> HIDE DEF s, t
<1>3. \A i \in 1..Len(s) : s[i] = t[i]
  BY <1>1, <1>2
<1>4. s = t
  BY <1>1, <1>2, <1>3, SeqEqual
<1> QED
  BY <1>4 DEF s, t

LEMMA PairsConcatenate ==
    ASSUME NEW a \in Nat, NEW b \in Nat, NEW c \in Nat, NEW d \in Nat
    PROVE  <<a, b>> \o <<c, d>> = <<a, b, c, d>>
<1>0. /\ <<a, b>> \in Seq(Nat) /\ Len(<<a, b>>) = 2
      /\ <<a, b>>[1] = a /\ <<a, b>>[2] = b
      /\ <<c, d>> \in Seq(Nat) /\ Len(<<c, d>>) = 2
      /\ <<c, d>>[1] = c /\ <<c, d>>[2] = d
      /\ <<a, b, c, d>> \in Seq(Nat) /\ Len(<<a, b, c, d>>) = 4
      /\ <<a, b, c, d>>[1] = a /\ <<a, b, c, d>>[2] = b
      /\ <<a, b, c, d>>[3] = c /\ <<a, b, c, d>>[4] = d
  OBVIOUS
<1> DEFINE p == <<a, b>>
           q == <<c, d>>
           s == p \o q
           t == <<a, b, c, d>>
<1>1. /\ p \in Seq(Nat) /\ Len(p) = 2 /\ p[1] = a /\ p[2] = b
      /\ q \in Seq(Nat) /\ Len(q) = 2 /\ q[1] = c /\ q[2] = d
      /\ t \in Seq(Nat) /\ Len(t) = 4
      /\ t[1] = a /\ t[2] = b /\ t[3] = c /\ t[4] = d
  BY <1>0
<1> HIDE DEF p, q, t
<1>2. /\ s \in Seq(Nat) /\ Len(s) = 4
      /\ s[1] = a /\ s[2] = b /\ s[3] = c /\ s[4] = d
  <2>1. /\ s \in Seq(Nat) /\ Len(s) = Len(p) + Len(q)
        /\ \A i \in 1..(Len(p) + Len(q)) :
              s[i] = IF i <= Len(p) THEN p[i] ELSE q[i - Len(p)]
      BY <1>1, ConcatProperties
  <2> HIDE DEF s
  <2>2. \A i \in 1..4 : s[i] = IF i <= 2 THEN p[i] ELSE q[i - 2]
      BY <1>1, <2>1
  <2>3. 1 \in 1..4 /\ 2 \in 1..4 /\ 3 \in 1..4 /\ 4 \in 1..4
      OBVIOUS
  <2>4. s[1] = p[1] /\ s[2] = p[2] /\ s[3] = q[1] /\ s[4] = q[2]
      BY <2>2, <2>3
  <2> QED
      BY <1>1, <2>1, <2>4
<1> HIDE DEF s
<1>3. \A i \in 1..Len(s) : s[i] = t[i]
  BY <1>1, <1>2
<1>4. s = t
  BY <1>1, <1>2, <1>3, SeqEqual
<1> QED
  BY <1>4 DEF s, p, q, t

\* What the three stages of one build make together is dated by the inputs
\* the build began with: it is the corpus stage's third read of the knowledge
\* base that needs the manifest of the second stage.
LEMMA CorpusDated ==
    ASSUME StageIsMade(1), StageIsMade(2), StageIsMade(3)
    PROVE  Dated(replaced, prints, data[3])
<1>2. PICK v1 \in Nat : Since(replaced, 1, prints[1], v1) /\ data[1] = <<v1>>
  <2>1. 1 # 2 /\ 1 # 3
    OBVIOUS
  <2> QED
    BY <2>1, Zenon DEF StageIsMade, Made
<1>3. PICK r, v2 \in Nat :
        /\ Since(replaced, 2, prints[2], r) /\ Since(replaced, 2, prints[2], v2)
        /\ data[2] = Append(Upstream(2)[1], v2)
        /\ manifest[2] = [of |-> data[2], upstream |-> Upstream(2),
                          inputs |-> <<Upstream(2)[2].inputs[1], r>>]
    BY DEF StageIsMade, Made
<1>4. PICK w, v3 \in Nat :
        /\ Since(replaced, 2, Upstream(3)[2].inputs[2], w)
        /\ Since(replaced, 3, prints[3], v3)
        /\ data[3] = Upstream(3)[1] \o <<w, v3>>
  <2>1. 3 # 1 /\ 3 # 2
    OBVIOUS
  <2> QED
    BY <2>1, Zenon DEF StageIsMade, Made
<1>5. /\ Upstream(2)[1] = data[1]
      /\ Upstream(3)[1] = data[2] /\ Upstream(3)[2] = manifest[2]
    BY DEF Upstream
<1>6. manifest[2].inputs[2] = r
    BY <1>3
<1>7. Since(replaced, 2, prints[2], w)
    BY <1>3, <1>4, <1>5, <1>6 DEF Since
<1>8. data[2] = <<v1, v2>>
  <2>1. Append(<<v1>>, v2) = <<v1, v2>>
    BY PairAppends
  <2> QED
    BY <1>2, <1>3, <1>5, <2>1, Zenon
<1>9. data[3] = <<v1, v2, w, v3>>
  <2>1. <<v1, v2>> \o <<w, v3>> = <<v1, v2, w, v3>>
    BY PairsConcatenate
  <2> QED
    BY <1>4, <1>5, <1>8, <2>1, Zenon
<1> QED
    BY <1>2, <1>3, <1>4, <1>7, <1>9 DEF Dated

LEMMA PublishKeeps ==
    ASSUME CacheInv, Publish
    PROVE  CacheInv'
<1>1. /\ UNCHANGED <<input, prints, history, data, manifest, marker, vouched,
                     outcome>>
      /\ at = "publish" /\ at' = "vouch" /\ stage' = Corpus
      /\ public' = [data |-> data[3],
                    manifest |-> [fingerprint |-> prints, of |-> data[3]]]
    BY DEF Publish, Goto, cache, Corpus
<1>2. /\ stage \in Stage /\ DOMAIN marker' = Stage /\ MarkersTell'
    BY <1>1, MarkersKept DEF CacheInv, CacheTypes, history
<1>3. CacheTypes'
    BY <1>1 DEF CacheInv, CacheTypes, Stage, Corpus, history
<1>4. \A i \in Stage : StageIsMade(i)
    BY <1>1 DEF CacheInv, PassedAreMade, Passed
<1>5. PassedAreMade'
    BY <1>1, <1>4 DEF PassedAreMade, StageIsMade, Upstream, history
<1>6. Dated(replaced, prints, data[3])
    BY <1>4, CorpusDated DEF Stage
<1>7. VouchedTells'
    BY <1>1, <1>6 DEF CacheInv, VouchedTells, history
<1>8. Recorded'
    BY <1>1 DEF Recorded
<1> QED
    BY <1>2, <1>3, <1>5, <1>7, <1>8 DEF CacheInv

LEMMA VouchKeeps ==
    ASSUME CacheInv, Vouch
    PROVE  CacheInv'
<1>1. /\ UNCHANGED <<input, prints, history, data, manifest, marker, public>>
      /\ at = "vouch" /\ stage' = 1 /\ at' = "idle"
      /\ vouched' = [fingerprint |-> prints, manifest |-> public.manifest]
    BY DEF Vouch, Ends, Goto, cache
<1>2. VouchedTells'
    BY <1>1 DEF CacheInv, VouchedTells, history
<1> QED
    BY <1>1, <1>2, EndKeeps DEF CacheInv, CacheTypes

\* An edit under a build leaves in the history what it has replaced.
LEMMA EditKeeps ==
    ASSUME CacheInv, NEW e \in Stage, Edit(e)
    PROVE  CacheInv'
<1>1. /\ UNCHANGED <<data, manifest, marker, public, vouched, prints, at, stage,
                     recorded, staged, outcome>>
      /\ edited' = TRUE /\ replaced \subseteq replaced'
    BY DEF Edit, cache, output, build
<1>2. PICK c \in Content : input' = [input EXCEPT ![e] = c]
    BY DEF Edit
<1>3. input' \in [Stage -> Nat]
    BY <1>2 DEF CacheInv, CacheTypes, Content
<1>4. ASSUME at # "idle", NEW i \in Stage, NEW p, Since(replaced, i, p, input[i])
      PROVE  Since(replaced', i, p, input'[i])
  <2>1. <<e, input[e]>> \in replaced'
    BY <1>4 DEF Edit
  <2>2. i # e => input'[i] = input[i]
    BY <1>2 DEF CacheInv, CacheTypes
  <2> QED
    BY <1>1, <1>4, <2>1, <2>2 DEF Since
<1>5. CacheTypes'
    BY <1>1, <1>3, <1>4 DEF CacheInv, CacheTypes
<1>6. MarkersTell'
    BY <1>1, MarkersKept DEF CacheInv
<1>7. PassedAreMade'
  <2> SUFFICES ASSUME NEW i \in Stage, Passed(i)
               PROVE  Made(replaced', i, prints[i], Upstream(i), data[i], manifest[i])
    BY <1>1 DEF PassedAreMade, Passed, StageIsMade, Upstream
  <2>1. Made(replaced, i, prints[i], Upstream(i), data[i], manifest[i])
    BY DEF CacheInv, PassedAreMade, StageIsMade
  <2> QED
    BY <1>1, <2>1, MadeStays
<1>8. Recorded'
  <2> SUFFICES ASSUME at \in {"build", "replace"} PROVE Recorded'
    BY <1>1 DEF Recorded
  <2>1. recorded.upstream = Upstream(stage) /\ stage \in Stage
    BY DEF CacheInv, Recorded, CacheTypes
  <2>2. PICK r \in Nat :
            /\ Since(replaced, stage, prints[stage], r)
            /\ stage = 1 => recorded.inputs = <<r>>
            /\ stage = 2 => recorded.inputs = <<manifest[1].inputs[1], r>>
    BY DEF CacheInv, Recorded
  <2>3. Since(replaced', stage, prints[stage], r)
    BY <1>1, <2>2 DEF Since
  <2>4. at = "replace" => Made(replaced', stage, prints[stage], Upstream(stage),
                               staged, NewManifest)
    BY <1>1, MadeStays DEF CacheInv, Recorded
  <2>5. at = "build" /\ stage = 3 =>
            Since(replaced', 2, manifest[2].inputs[2], input'[2])
    <3>1. 2 \in Stage
        BY DEF Stage
    <3> QED
        BY <1>4, <3>1 DEF CacheInv, Recorded
  <2>6. Upstream(stage)' = Upstream(stage) /\ NewManifest' = NewManifest
    BY <1>1 DEF Upstream, NewManifest
  <2> QED
    BY <1>1, <2>1, <2>2, <2>3, <2>4, <2>5, <2>6 DEF Recorded
<1>9. VouchedTells'
    BY <1>1, DatedStays DEF CacheInv, VouchedTells
<1> QED
    BY <1>5, <1>6, <1>7, <1>8, <1>9 DEF CacheInv

LEMMA CacheInvStarts == BuildInit => CacheInv
<1> SUFFICES ASSUME BuildInit PROVE CacheInv
    OBVIOUS
<1>1. /\ input \in [Stage -> Nat] /\ prints = input /\ at = "idle" /\ stage = 1
      /\ edited = FALSE
      /\ DOMAIN data = Stage /\ DOMAIN manifest = Stage /\ DOMAIN marker = Stage
      /\ \A i \in Stage : marker[i] = Nothing
      /\ vouched = Nothing
    BY DEF BuildInit
<1>2. CacheTypes
  <2>1. 1 \in Stage
    BY DEF Stage
  <2> QED
    BY <1>1, <2>1 DEF CacheTypes
<1>3. MarkersTell /\ PassedAreMade /\ Recorded /\ VouchedTells
    BY <1>1 DEF MarkersTell, PassedAreMade, Passed, Recorded, VouchedTells
<1> QED
    BY <1>2, <1>3 DEF CacheInv

LEMMA CacheInvKept == CacheInv /\ [BuildNext]_buildVars => CacheInv'
<1> SUFFICES ASSUME CacheInv, [BuildNext]_buildVars PROVE CacheInv'
    OBVIOUS
<1>1. CASE UNCHANGED buildVars
  <2>1. UNCHANGED <<input, data, manifest, marker, public, vouched, prints, at,
                    stage, recorded, staged, outcome, edited, replaced>>
    BY <1>1 DEF buildVars, cache, output, build, history
  <2> QED
    BY <2>1 DEF CacheInv, CacheTypes, MarkersTell, PassedAreMade, Passed,
                StageIsMade, Upstream, Recorded, NewManifest, VouchedTells
<1> QED
    BY <1>1, BeginKeeps, ClearStopsKeeps, CheckKeepsCache, RecordKeeps,
       BuildKeeps, ReplaceKeeps, StopsKeep, MarkKeeps, PublishKeeps,
       VouchKeeps, EditKeeps DEF BuildNext

LEMMA CacheInvAlways == BuildSpec => []CacheInv
BY CacheInvStarts, CacheInvKept, PTL DEF BuildSpec

\* Files dated by the inputs as they are now are fresh, unless an input has
\* been put back.
LEMMA DatedIsFresh ==
    ASSUME ~PutBack, NEW d, Dated(replaced, input, d)
    PROVE  d = Fresh
<1>1. \A i \in Stage : \A v : Since(replaced, i, input[i], v) => v = input[i]
    BY DEF Since, PutBack
<1>2. 1 \in Stage /\ 2 \in Stage /\ 3 \in Stage
    BY DEF Stage
<1>3. PICK v1, v2, w, v3 \in Nat :
        /\ Since(replaced, 1, input[1], v1)
        /\ Since(replaced, 2, input[2], v2) /\ Since(replaced, 2, input[2], w)
        /\ Since(replaced, 3, input[3], v3)
        /\ d = <<v1, v2, w, v3>>
    BY DEF Dated
<1> QED
    BY <1>1, <1>2, <1>3 DEF Fresh

LEMMA ReuseIsFresh ==
    ASSUME CacheInv, CanReuse(input), ~PutBack
    PROVE  public.data = Fresh
<1>1. /\ vouched # Nothing /\ vouched.fingerprint = input
      /\ vouched.manifest.of = public.data
    BY DEF CanReuse
<1>2. Dated(replaced, input, public.data)
    BY <1>1 DEF CacheInv, VouchedTells
<1> QED
    BY <1>2, DatedIsFresh

\* A record is not the empty tuple.
LEMMA SomeManifest ==
    ASSUME NEW a, NEW b
    PROVE  [fingerprint |-> a, of |-> b] # Nothing
<1>1. "of" \in DOMAIN [fingerprint |-> a, of |-> b]
    OBVIOUS
<1>2. "of" \notin DOMAIN <<>>
    OBVIOUS
<1> QED
    BY <1>1, <1>2 DEF Nothing

LEMMA SteadyKept ==
    CacheInv /\ SteadyBuildIsFresh /\ [BuildNext]_buildVars => SteadyBuildIsFresh'
<1> SUFFICES ASSUME CacheInv, SteadyBuildIsFresh, [BuildNext]_buildVars,
                    outcome' \in {"built", "reused"}, ~edited', ~PutBack'
             PROVE  public'.data = Fresh' /\ CanReuse(input)'
    BY DEF SteadyBuildIsFresh
<1>1. CASE Begin
  <2>1. /\ outcome' = "reused" /\ CanReuse(input)
        /\ UNCHANGED <<input, public, vouched, replaced>>
    BY <1>1 DEF Begin
  <2>2. public.data = Fresh
    BY <2>1, ReuseIsFresh DEF PutBack
  <2> QED
    BY <2>1, <2>2 DEF Fresh, CanReuse
<1>2. CASE Vouch
  <2>1. /\ at = "vouch" /\ ~edited
        /\ vouched' = [fingerprint |-> prints, manifest |-> public.manifest]
        /\ UNCHANGED <<input, public, prints, replaced>>
    BY <1>2 DEF Vouch, history
  <2>2. prints = input /\ public.manifest = [fingerprint |-> prints, of |-> public.data]
    BY <2>1 DEF CacheInv, CacheTypes, VouchedTells
  <2>3. public.manifest # Nothing
    BY <2>2, SomeManifest
  <2>4. "manifest" \in DOMAIN vouched'
    BY <2>1
  <2>5. vouched' # Nothing
    BY <2>4 DEF Nothing
  <2>6. CanReuse(input)'
    BY <2>1, <2>2, <2>3, <2>5 DEF CanReuse
  <2>7. Dated(replaced, input, public.data)
    BY <2>1, <2>2 DEF CacheInv, VouchedTells
  <2>8. public.data = Fresh
    BY <2>1, <2>7, DatedIsFresh DEF PutBack
  <2> QED
    BY <2>1, <2>6, <2>8 DEF Fresh
<1>3. CASE UNCHANGED buildVars
  <2>1. UNCHANGED <<input, public, vouched, outcome, edited, replaced>>
    BY <1>3 DEF buildVars, output, build, history
  <2> QED
    BY <2>1 DEF SteadyBuildIsFresh, PutBack, Fresh, CanReuse
<1>4. CASE Check \/ BuildStage \/ Replace \/ Mark \/ Publish
  <2>1. at # "idle" /\ outcome' = outcome
    BY <1>4 DEF Check, BuildStage, Replace, Mark, Publish
  <2> QED
    BY <2>1 DEF CacheInv, CacheTypes
<1>5. CASE Record
  <2>1. at # "idle" /\ (outcome' = outcome \/ outcome' = "refused")
    BY <1>5 DEF Record, Ends
  <2> QED
    BY <2>1 DEF CacheInv, CacheTypes
<1>6. ASSUME NEW n \in Stage, ClearStops(n) PROVE FALSE
    BY <1>6 DEF ClearStops, Ends
<1>7. CASE ReplaceStops \/ PublishStops \/ Stop
    BY <1>7 DEF ReplaceStops, PublishStops, Stop, Ends
<1>8. ASSUME NEW i \in Stage, Edit(i) PROVE FALSE
    BY <1>8 DEF Edit
<1> QED
    BY <1>1, <1>2, <1>3, <1>4, <1>5, <1>6, <1>7, <1>8 DEF BuildNext

LEMMA RefusedKept ==
    CacheInv /\ RefusedOnlyAfterEdit /\ [BuildNext]_buildVars
        => RefusedOnlyAfterEdit'
<1> SUFFICES ASSUME CacheInv, RefusedOnlyAfterEdit, [BuildNext]_buildVars,
                    outcome' = "refused", ~edited', ~PutBack'
             PROVE  FALSE
    BY DEF RefusedOnlyAfterEdit, CacheInv, CacheTypes
<1>1. CASE Record
  <2>1. /\ at = "record" /\ ~edited /\ outcome = "none" /\ stage \in Stage
        /\ prints = input /\ ~PutBack
    BY <1>1 DEF Record, CacheInv, CacheTypes, PutBack, history
  <2>2. ~UpstreamValid(stage)
    BY <1>1, <2>1 DEF Record
  <2>3. stage = 2 \/ stage = 3
    BY <2>1, <2>2 DEF UpstreamValid, Stage
  <2>4. /\ prints[1] = input[1] /\ prints[2] = input[2]
        /\ \A i \in Stage : \A v : Since(replaced, i, input[i], v) => v = input[i]
        /\ 1 \in Stage /\ 2 \in Stage
    BY <2>1 DEF Since, PutBack, Stage
  <2>5. StageIsMade(1)
    BY <2>1, <2>3 DEF CacheInv, PassedAreMade, Passed, Stage
  <2>6. PICK r \in Nat :
            /\ Since(replaced, 1, prints[1], r)
            /\ manifest[1] = [of |-> data[1], upstream |-> Nothing, inputs |-> <<r>>]
    BY <2>5 DEF StageIsMade, Made
  <2>7. r = input[1]
    BY <2>4, <2>6
  <2>8. /\ manifest[1].of = data[1] /\ manifest[1].upstream = Upstream(1)
        /\ manifest[1].inputs[1] = input[1] /\ manifest[1] # Nothing
    <3>1. "of" \in DOMAIN manifest[1]
        BY <2>6
    <3> QED
        BY <2>6, <2>7, <3>1 DEF Upstream, Nothing
  <2>9. CASE stage = 2
    <3>1. \A j \in 1..(2 - 1) : j = 1
        OBVIOUS
    <3> QED
        BY <2>2, <2>8, <2>9, <3>1 DEF UpstreamValid
  <2>10. CASE stage = 3
    <3>1. StageIsMade(2)
        BY <2>1, <2>10 DEF CacheInv, PassedAreMade, Passed, Stage
    <3>2. PICK r2 \in Nat :
            /\ Since(replaced, 2, prints[2], r2)
            /\ manifest[2] = [of |-> data[2], upstream |-> Upstream(2),
                              inputs |-> <<Upstream(2)[2].inputs[1], r2>>]
        BY <3>1 DEF StageIsMade, Made
    <3>3. r2 = input[2]
        BY <2>4, <3>2
    <3>4. Upstream(2)[2] = manifest[1]
        BY DEF Upstream
    <3>5. "of" \in DOMAIN manifest[2]
        BY <3>2
    <3>6. /\ manifest[2].of = data[2] /\ manifest[2].upstream = Upstream(2)
          /\ manifest[2].inputs[1] = input[1] /\ manifest[2].inputs[2] = input[2]
          /\ manifest[2] # Nothing
        BY <2>8, <3>2, <3>3, <3>4, <3>5 DEF Nothing
    <3>7. \A j \in 1..(3 - 1) : j = 1 \/ j = 2
        OBVIOUS
    <3> QED
        BY <2>2, <2>10, <3>6, <3>7 DEF UpstreamValid
  <2> QED
    BY <2>3, <2>9, <2>10
<1>2. CASE UNCHANGED buildVars
    BY <1>2 DEF buildVars, build, history, RefusedOnlyAfterEdit, PutBack
<1>3. CASE Check \/ BuildStage \/ Replace \/ Mark \/ Publish
  <2>1. at # "idle" /\ outcome' = outcome
    BY <1>3 DEF Check, BuildStage, Replace, Mark, Publish
  <2> QED
    BY <2>1 DEF CacheInv, CacheTypes
<1>4. CASE Begin \/ Vouch
    BY <1>4 DEF Begin, Vouch, Ends
<1>5. ASSUME NEW n \in Stage, ClearStops(n) PROVE FALSE
    BY <1>5 DEF ClearStops, Ends
<1>6. CASE ReplaceStops \/ PublishStops \/ Stop
    BY <1>6 DEF ReplaceStops, PublishStops, Stop, Ends
<1>7. ASSUME NEW i \in Stage, Edit(i) PROVE FALSE
    BY <1>7 DEF Edit
<1> QED
    BY <1>1, <1>2, <1>3, <1>4, <1>5, <1>6, <1>7 DEF BuildNext

\* Whatever edits, failures and deaths interrupted the builds before it, and
\* whatever of theirs it reused, a build whose inputs stayed as they were
\* leaves files made from exactly these inputs, unless one of them has been
\* edited under a build and put back since.
THEOREM CachedBuildIsFresh == BuildSpec => []SteadyBuildIsFresh
<1>1. BuildInit => SteadyBuildIsFresh
    BY DEF BuildInit, SteadyBuildIsFresh
<1> QED
    BY <1>1, CacheInvStarts, CacheInvKept, SteadyKept, PTL DEF BuildSpec

\* No cache that build() reuses is one that a stage then refuses, unless an
\* input has been edited under a build and put back since.
THEOREM ReusedIsNeverRefused == BuildSpec => []RefusedOnlyAfterEdit
<1>1. BuildInit => RefusedOnlyAfterEdit
    BY DEF BuildInit, RefusedOnlyAfterEdit
<1> QED
    BY <1>1, CacheInvStarts, CacheInvKept, RefusedKept, PTL DEF BuildSpec
=============================================================================
