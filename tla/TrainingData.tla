---------------------------- MODULE TrainingData ----------------------------
(***************************************************************************)
(* What data/build_rl.py and data/build_sft.py select: from the questions  *)
(* with evidence a primary and a reserve pool of exact quotas, for their   *)
(* categories a visual corpus that holds none of the pool's own images,    *)
(* from both the training rows, and from these the rows of the supervised  *)
(* training and its validation split.                                      *)
(*                                                                         *)
(* Abstracted: a question is a candidate that passed the metadata checks   *)
(* of _rp_spool_train_candidates and their deduplication, its number the   *)
(* order of its sample_id; an image is its key and its path, which are one *)
(* to one.  Hashes that order candidates are any order, the quota matrix   *)
(* is any with its two margins.  Fractions are percentages, computed       *)
(* exactly where the code uses floats.  A teacher may fail on any row.     *)
(***************************************************************************)
EXTENDS Integers, Sequences, FiniteSets, FiniteSetsExt, SequencesExt

CONSTANTS
    Question, TypeOf, CategoryOf,   \* the candidates
    ImagesOf,       \* the images of a question, in the order of the CSV
    Catalog,        \* the images of a category, in the order of the catalog
    TaxonOf, Taxa,  \* the coarse taxon of a category, their configured order
    Types,          \* the question types, in order
    Wanted,         \* primary_counts
    ReservePercent, \* reserve_fraction
    Weights,        \* image_count_weights
    MinPositive, MaxPositive, ScanLimit,
    Official,       \* the images the official validation questions may use
    SamplePercent, ValPercent,      \* sample_fraction, validation_fraction
    MaxDamaged, MaxUnproven         \* bounds: bad images, questions without evidence

\* The order of the candidates is that of their numbers.
ASSUME QuestionAssumption == IsFiniteSet(Question) /\ Question \subseteq Nat
\* A candidate has as many images as a row may show; the taxon of its category
\* is one of the configured ones.
ASSUME CandidateAssumption ==
    \A q \in Question :
        /\ \A n \in DOMAIN Weights : 1..n \subseteq DOMAIN ImagesOf[q]
        /\ CategoryOf[q] \in DOMAIN Catalog
        /\ \E i \in DOMAIN Taxa : Taxa[i] = TaxonOf[CategoryOf[q]]
\* The question types are the keys of primary_counts.
ASSUME TypesAssumption ==
    /\ Types \in Seq(Range(Types))
    /\ \A i, j \in DOMAIN Types : Types[i] = Types[j] => i = j
\* image_key is the primary key of the catalog's images.
ASSUME CatalogAssumption ==
    /\ \A c \in DOMAIN Catalog : Catalog[c] \in Seq(Range(Catalog[c]))
    /\ \A c, d \in DOMAIN Catalog :
        \A i \in DOMAIN Catalog[c], j \in DOMAIN Catalog[d] :
            Catalog[c][i] = Catalog[d][j] => c = d /\ i = j
ASSUME LimitAssumption ==
    /\ Weights \in Seq(Nat)
    /\ MinPositive \in Nat /\ MaxPositive \in Nat
    /\ ValPercent \in 0..100

VARIABLES
    evidence,       \* the questions whose evidence the knowledge base has
    official,       \* the images of the official validation questions
    damaged,        \* the images that are missing in the archive, or corrupt
    pc,
    banned,         \* categories with too few positive candidates
    iteration,      \* of the reachability loop
    todo,           \* the selections left in this iteration
    primary, reserve,
    scanned, active, usable,    \* the scan of the inventory: positions, by category
    waiting, left, final, short,    \* the choice of the final rows
    tried, built, validation        \* the supervised rows

inputs == <<evidence, official, damaged>>
pool == <<banned, iteration, todo, primary, reserve>>
corpus == <<scanned, active, usable>>
choice == <<waiting, left, final, short>>
sft == <<tried, built, validation>>
vars == <<inputs, pc, pool, corpus, choice, sft>>

Category == DOMAIN Catalog
Row == [q : Question, n : DOMAIN Weights]
Automatic == "automatic"

CategoryIn(r) == CategoryOf[r.q]
TaxonIn(r) == TaxonOf[CategoryOf[r.q]]
SourceImages(q) == {ImagesOf[q][i] : i \in DOMAIN ImagesOf[q]}
QueryImages(r) == {ImagesOf[r.q][i] : i \in 1..r.n}

\* The images that may not be candidates: _rp_pool_source_exclusions and the
\* official validation.  The mutant keeps out only what a row shows.
ExcludedShown == official \cup UNION {QueryImages(r) : r \in primary \cup reserve}
Excluded == official \cup UNION {SourceImages(r.q) : r \in primary \cup reserve}

----------------------------------------------------------------------------
(* Quotas.                                                                 *)

Total(s) == FoldSeq(+, 0, s)

\* _rp_apportion: floors, then one more for the largest remainders.
Apportion(total) ==
    LET sum == Total(Weights)
        floor == [i \in DOMAIN Weights |-> (total * Weights[i]) \div sum]
        remainder(i) == (total * Weights[i]) % sum
        ahead(i) == {j \in DOMAIN Weights : \/ remainder(j) > remainder(i)
                                           \/ (remainder(j) = remainder(i) /\ j < i)}
    IN [i \in DOMAIN Weights |->
           floor[i] + IF Cardinality(ahead(i)) < total - Total(floor) THEN 1 ELSE 0]

\* _rp_balanced_category_totals: an equal share each, the remainder from the
\* taxon at the type's own index.
Balanced(total, offset) ==
    LET k == Len(Taxa)
        extra == {(offset + i) % k : i \in 0..((total % k) - 1)}
    IN [i \in 1..k |-> total \div k + IF i - 1 \in extra THEN 1 ELSE 0]

\* _rp_adjust_category_capacity: what a taxon lacks goes, one by one, to the
\* taxon with the most candidates to spare.
Adjusted(desired, available) ==
    LET start == [i \in DOMAIN Taxa |-> Min({desired[i], available[i]})]
        deficit == Total(desired) - Total(start)
        spare(a, i) == available[i] - a[i]
        donor(a) == CHOOSE i \in DOMAIN Taxa : \A j \in DOMAIN Taxa \ {i} :
                        \/ spare(a, i) > spare(a, j)
                        \/ (spare(a, i) = spare(a, j) /\ i < j)
        after[d \in 0..deficit] ==
            IF d = 0 THEN start
            ELSE [after[d - 1] EXCEPT ![donor(after[d - 1])] = @ + 1]
    IN after[deficit]

Quota(part, t) ==
    IF part = "train" THEN Wanted[t] ELSE (Wanted[t] * ReservePercent + 50) \div 100

Selections == [i \in 1..Len(Types) |-> <<"train", i>>]
              \o [i \in 1..Len(Types) |-> <<"reserve", i>>]

----------------------------------------------------------------------------
(* The pool: _rp_build_pool_impl.                                          *)

Images == UNION {{Catalog[c][i] : i \in DOMAIN Catalog[c]} : c \in Category}
EvidenceCategories == {CategoryOf[q] : q \in evidence}
Candidates(c, excluded) == {Catalog[c][i] : i \in DOMAIN Catalog[c]} \ excluded
TooFew(cs, excluded) == {c \in cs : Cardinality(Candidates(c, excluded)) < MinPositive}

Init ==
    /\ evidence \in {q \in SUBSET Question : Cardinality(Question \ q) <= MaxUnproven}
    /\ official \in SUBSET Official
    /\ damaged = {}
    /\ pc = "select"
    /\ banned = TooFew(EvidenceCategories, official)
    /\ iteration = 1
    /\ todo = Selections
    /\ primary = {} /\ reserve = {}
    /\ scanned = [c \in Category |-> {}]
    /\ usable = [c \in Category |-> {}]
    /\ active = {}
    /\ waiting = {} /\ left = {} /\ final = {} /\ short = FALSE
    /\ tried = {} /\ built = {} /\ validation = {}

Used == {r.q : r \in primary \cup reserve}
Available(t) == {q \in evidence : TypeOf[q] = t /\ CategoryOf[q] \notin banned} \ Used
InTaxon(S, i) == {q \in S : TaxonOf[CategoryOf[q]] = Taxa[i]}

\* _rp_select_partition for one question type: rows with the margins of the
\* adjusted quota matrix, or _rp_PoolCapacityError.
SelectType ==
    /\ pc = "select" /\ todo # <<>>
    /\ LET part == Head(todo)[1]
           index == Head(todo)[2]
           free == Available(Types[index])
           total == Quota(part, Types[index])
           share == Adjusted(Balanced(total, index - 1),
                             [i \in DOMAIN Taxa |-> Cardinality(InTaxon(free, i))])
       IN IF Cardinality(free) < total
          THEN pc' = "refused" /\ UNCHANGED pool
          ELSE \E chosen \in kSubset(total, free), count \in [free -> DOMAIN Weights] :
                 LET rows == {[q |-> q, n |-> count[q]] : q \in chosen} IN
                 /\ \A q \in free \ chosen : count[q] = 1
                 /\ \A i \in DOMAIN Taxa : Cardinality(InTaxon(chosen, i)) = share[i]
                 /\ \A k \in DOMAIN Weights :
                        Cardinality({r \in rows : r.n = k}) = Apportion(total)[k]
                 /\ primary' = IF part = "train" THEN primary \cup rows ELSE primary
                 /\ reserve' = IF part = "reserve" THEN reserve \cup rows ELSE reserve
                 /\ todo' = Tail(todo)
                 /\ UNCHANGED <<pc, banned, iteration>>
    /\ UNCHANGED <<inputs, corpus, choice, sft>>

\* The categories the selection left with too few candidates, now that the
\* images of the selected questions are no candidates any more.
Weak == TooFew({CategoryOf[q] : q \in Used}, Excluded) \ banned

\* They are banned and everything is selected again; the loop has one
\* iteration more than there are categories.
BanWeak ==
    /\ pc = "select" /\ todo = <<>> /\ Weak # {}
    /\ IF iteration > Cardinality(EvidenceCategories)
       THEN pc' = "diverged" /\ UNCHANGED pool
       ELSE /\ banned' = banned \cup Weak
            /\ iteration' = iteration + 1
            /\ todo' = Selections
            /\ primary' = {} /\ reserve' = {}
            /\ UNCHANGED pc
    /\ UNCHANGED <<inputs, corpus, choice, sft>>

RowsOfType(rows, t) == {r \in rows : TypeOf[r.q] = t}

\* The checks before the pool is written, and those after it is read back.
PoolIsSound ==
    /\ TooFew({CategoryOf[q] : q \in Used}, Excluded) = {}
    /\ \A i \in DOMAIN Types :
        /\ Cardinality(RowsOfType(primary, Types[i])) = Quota("train", Types[i])
        /\ Cardinality(RowsOfType(reserve, Types[i])) = Quota("reserve", Types[i])
    /\ {r.q : r \in primary} \cap {r.q : r \in reserve} = {}

PoolDone ==
    /\ pc = "select" /\ todo = <<>> /\ Weak = {}
    /\ pc' = IF PoolIsSound THEN "scan" ELSE "assertion"
    /\ active' = {CategoryOf[q] : q \in Used}
    /\ damaged' \in {{}} \cup {Range(f) : f \in [1..MaxDamaged -> Images]}
    /\ UNCHANGED <<evidence, official, pool, scanned, usable, choice, sft>>

----------------------------------------------------------------------------
(* The corpus: _rc_build_pool_corpus_impl.                                 *)

Inventory(c) == {i \in DOMAIN Catalog[c] : Catalog[c][i] \notin Excluded}

\* The first n of some positions.
Lowest(S, n) == {i \in S : Cardinality({j \in S : j < i}) < n}

\* _rc_next_candidate_batch
Batch(c) == Lowest(Inventory(c) \ scanned[c], ScanLimit)

Intact(c, i) == Catalog[c][i] \notin damaged

\* Why a row cannot be used, given the candidates that are.
Failed(r, found) ==
    \/ QueryImages(r) \cap damaged # {}
    \/ Cardinality(found[CategoryIn(r)]) < MinPositive
    \/ r.q \notin evidence

\* A round of _rc_materialize_candidate_inventory: a batch of every category
\* that is neither full nor exhausted.
ScanBatch ==
    /\ pc = "scan"
    /\ scanned' = [c \in Category |->
            IF c \in active THEN scanned[c] \cup Batch(c) ELSE scanned[c]]
    /\ usable' = [c \in Category |->
            IF c \in active
            THEN Lowest(usable[c] \cup {i \in Batch(c) : Intact(c, i)}, MaxPositive)
            ELSE usable[c]]
    /\ active' = {c \in active : Batch(c) # {} /\ Cardinality(usable'[c]) < MaxPositive}
    /\ IF active' = {} \/ \A c \in active : Batch(c) = {}
       THEN /\ pc' = "choose"
            /\ waiting' = primary
            /\ left' = {r \in reserve : ~Failed(r, usable')}
       ELSE UNCHANGED <<pc, waiting, left>>
    /\ UNCHANGED <<inputs, pool, final, short, sft>>

First(rows) == CHOOSE r \in rows : \A s \in rows : r.q <= s.q

\* The queue of reserve rows for r, of its own taxon or of the one with most.
Queue(r, i) ==
    {s \in left : /\ TypeOf[s.q] = TypeOf[r.q] /\ s.n = r.n
                  /\ TaxonIn(s) = Taxa[i]}
Longest(r) == CHOOSE i \in DOMAIN Taxa : \A j \in DOMAIN Taxa :
    \/ Cardinality(Queue(r, i)) > Cardinality(Queue(r, j))
    \/ (Cardinality(Queue(r, i)) = Cardinality(Queue(r, j)) /\ i <= j)
QueueFor(r) ==
    LET own == CHOOSE i \in DOMAIN Taxa : Taxa[i] = TaxonIn(r)
    IN Queue(r, IF Queue(r, own) # {} THEN own ELSE Longest(r))

\* _rc_choose_final_rows, row by row.
KeepRow ==
    /\ pc = "choose" /\ waiting # {}
    /\ LET r == First(waiting) IN
        /\ ~Failed(r, usable)
        /\ final' = final \cup {r}
        /\ waiting' = waiting \ {r}
    /\ UNCHANGED <<inputs, pc, pool, corpus, left, short, sft>>

ReplaceRow ==
    /\ pc = "choose" /\ waiting # {}
    /\ LET r == First(waiting) IN
        /\ Failed(r, usable)
        /\ waiting' = waiting \ {r}
        /\ IF QueueFor(r) = {}
           THEN short' = TRUE /\ UNCHANGED <<final, left>>
           ELSE /\ final' = final \cup {First(QueueFor(r))}
                /\ left' = left \ {First(QueueFor(r))}
                /\ UNCHANGED short
    /\ UNCHANGED <<inputs, pc, pool, corpus, sft>>

Bucket(rows, t, n) == {r \in rows : TypeOf[r.q] = t /\ r.n = n}
VisionCorpus ==
    UNION {{Catalog[CategoryIn(r)][i] : i \in usable[CategoryIn(r)]} : r \in final}

\* The checks before the training rows are written, and those of
\* build_sft_records on what it is given.
CorpusIsSound ==
    /\ \A i \in DOMAIN Types, n \in DOMAIN Weights :
        Cardinality(Bucket(final, Types[i], n)) = Cardinality(Bucket(primary, Types[i], n))
    /\ \A r \in final :
        /\ Cardinality(usable[CategoryIn(r)]) \in MinPositive..MaxPositive
        /\ r.q \in evidence
        /\ QueryImages(r) \cap damaged = {}
        /\ QueryImages(r) \subseteq Excluded
    /\ VisionCorpus \cap (Excluded \cup damaged) = {}

ChoiceDone ==
    /\ pc = "choose" /\ waiting = {}
    /\ pc' = IF short THEN "refused" ELSE IF CorpusIsSound THEN "build" ELSE "assertion"
    /\ UNCHANGED <<inputs, pool, corpus, choice, sft>>

----------------------------------------------------------------------------
(* The supervised rows: build_sft_records.                                 *)

Eligible == {r \in final : TypeOf[r.q] = Automatic /\ r.n = 1}
OfTaxon(rows, x) == {r \in rows : TaxonIn(r) = x}

\* _sample_targets
Target(x) ==
    LET count == Cardinality(OfTaxon(Eligible, x))
    IN Min({count, Max({1, (count * SamplePercent + 99) \div 100})})

Candidate == {r \in Eligible \ tried :
                Cardinality(OfTaxon(built, TaxonIn(r))) < Target(TaxonIn(r))}

\* _build_trajectory succeeds, or raises TrajectoryBuildError.
BuildRow ==
    /\ pc = "build" /\ Candidate # {}
    /\ tried' = tried \cup {First(Candidate)}
    /\ built' \in {built, built \cup {First(Candidate)}}
    /\ UNCHANGED <<inputs, pc, pool, corpus, choice, validation>>

BuildDone ==
    /\ pc = "build" /\ Candidate = {}
    /\ pc' = "split"
    /\ UNCHANGED <<inputs, pool, corpus, choice, sft>>

\* _connected_train_val_split: rows that share their image stay together.
\* Every row is a parent of its own.
Image(r) == ImagesOf[r.q][1]
\* The mutant groups by the parent only.
GroupByParent(r) == {s \in built : s.q = r.q}
Group(r) == {s \in built : Image(s) = Image(r)}
Groups == {Group(r) : r \in built}

\* round() takes halves to the even number.
Rounded(hundredths) ==
    LET whole == hundredths \div 100
        part == hundredths % 100
    IN IF part > 50 \/ (part = 50 /\ whole % 2 = 1) THEN whole + 1 ELSE whole

Desired(x) ==
    IF OfTaxon(built, x) = {} THEN 0
    ELSE Max({1, Rounded(Cardinality(OfTaxon(built, x)) * ValPercent)})

Lacks(x) == Max({0, Desired(x) - Cardinality(OfTaxon(validation, x))})
Gain(g) == Total([i \in DOMAIN Taxa |->
    Min({Cardinality(OfTaxon(g, Taxa[i])), Lacks(Taxa[i])})])
Overshoot(g) == Total([i \in DOMAIN Taxa |->
    Max({0, Cardinality(OfTaxon(validation \cup g, Taxa[i])) - Desired(Taxa[i])})])
Score(g) == 100 * Gain(g) - Overshoot(g)

\* A gain is positive as soon as one of its terms is.
Helps(g) == \E i \in DOMAIN Taxa : OfTaxon(g, Taxa[i]) # {} /\ Lacks(Taxa[i]) > 0
Useful == {g \in Groups : g \cap validation = {} /\ Helps(g)}

Unfinished ==
    /\ ValPercent > 0 /\ Cardinality(Groups) > 1
    /\ \E i \in DOMAIN Taxa : Lacks(Taxa[i]) > 0
    /\ Cardinality({g \in Groups : g \subseteq validation}) < Cardinality(Groups) - 1
    /\ Useful # {}

\* The group that helps most; ties are broken by a hash.
MoveGroup ==
    /\ pc = "split" /\ Unfinished
    /\ \E g \in Useful :
        /\ \A h \in Useful : Score(h) <= Score(g)
        /\ validation' = validation \cup g
    /\ UNCHANGED <<inputs, pc, pool, corpus, choice, tried, built>>

SplitIsSound ==
    {Image(r) : r \in validation} \cap {Image(r) : r \in built \ validation} = {}

SplitDone ==
    /\ pc = "split" /\ ~Unfinished
    /\ pc' = IF SplitIsSound THEN "done" ELSE "assertion"
    /\ UNCHANGED <<inputs, pool, corpus, choice, sft>>

Stopped == pc \in {"refused", "diverged", "assertion", "done"} /\ UNCHANGED vars

Next ==
    \/ SelectType \/ BanWeak \/ PoolDone
    \/ ScanBatch \/ KeepRow \/ ReplaceRow \/ ChoiceDone
    \/ BuildRow \/ BuildDone \/ MoveGroup \/ SplitDone
    \/ Stopped

Spec == Init /\ [][Next]_vars

----------------------------------------------------------------------------

\* Whatever was banned, damaged, replaced or failed on the way, the finished
\* data has the quotas that were asked for, enough candidates for every
\* question, none of the pool's or the official validation's images and no bad
\* one in the visual corpus, and a validation split of other images.
CorpusAsPromised ==
    pc \in {"build", "split", "done"} =>
        /\ \A i \in DOMAIN Types :
            [n \in DOMAIN Weights |-> Cardinality(Bucket(final, Types[i], n))]
                = Apportion(Wanted[Types[i]])
        /\ \A r \in final :
            /\ CategoryIn(r) \notin banned
            /\ Cardinality(Candidates(CategoryIn(r), {}) \cap VisionCorpus)
                    \in MinPositive..MaxPositive
        /\ VisionCorpus \cap UNION {SourceImages(r.q) : r \in primary \cup reserve} = {}
        /\ VisionCorpus \cap (official \cup damaged) = {}
        /\ pc = "done" /\ ValPercent > 0 /\ Cardinality(Groups) > 1 =>
            /\ validation # {} /\ validation # built
            /\ \A r \in validation, s \in built \ validation :
                ImagesOf[r.q][1] # ImagesOf[s.q][1]

\* The checks the code makes of its own work, and raises AssertionError or
\* RuntimeError for, never fail: a build ends with its data or because its
\* inputs do not have what was asked for.
NoInternalError == pc \notin {"diverged", "assertion"}

\* The reachability loop never runs out of iterations.
ReachabilityConverges == pc # "diverged"

=============================================================================
