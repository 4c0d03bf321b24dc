------------------------------ MODULE HybridSearch ------------------------------
(***************************************************************************)
(* One search of the indexed chunks (backend/app/retrieval/hybrid,         *)
(* backend/app/query/multi_retrieval.py and backend/app/reranking): every  *)
(* variant of the query asks the dense and the sparse index at once, the   *)
(* two lists are fused by their ranks, the lists of several variants are   *)
(* fused again, and a cross-encoder scores the best candidates in batches, *)
(* under a semaphore that it shares with other searches.                   *)
(* A chunk stands for its id.  Scores of an index fall along its list:     *)
(* equal ones are left out.                                                *)
(***************************************************************************)
EXTENDS Integers, FiniteSets, Sequences, SequencesExt, Functions

CONSTANTS Chunks,        \* bound: the chunks there are, numbers in the order of their ids
          MaxListed,     \* bound: the chunks an index lists, for each number of variants
          Weights,       \* of the variants, in tenths: 10, then 8 or 9
          TopKs,         \* bound: the numbers of results asked for
          RerankLimits,  \* bound: rerank_candidates asked for, or NoLimit
          NoLimit,
          Ceiling,       \* max_candidates of the reranker
          BatchSize,     \* batch_size of the reranker
          Permits,       \* max_concurrent_batches
          Scores,        \* bound: the scores a cross-encoder gives
          Missing        \* a list that has not come

ASSUME SearchAssumption ==
    /\ Chunks \subseteq Nat /\ Weights \in Seq(Nat \ {0})
    /\ \A v \in DOMAIN Weights : MaxListed[v] \in 1..3
    /\ TopKs \subseteq Nat /\ Scores \subseteq Int /\ Missing # <<>>
    /\ NoLimit \notin Nat /\ RerankLimits \subseteq (Nat \ {0}) \cup {NoLimit}
    /\ {Ceiling, BatchSize, Permits} \subseteq Nat \ {0}

VARIABLES search,   \* its stage, parameters and settings
          listed,   \* per variant, the list of each index
          fused,    \* per variant, the list fused of both
          faults,   \* what failed: an index or both of a variant, or the reranker
          pool,     \* candidates in the order of fusion
          batches,  \* of the reranker: chunks, state and scores
          others,   \* permits held by other searches
          returned  \* chunks, in order

hybridVars == <<search, listed, fused, faults, pool, batches, others, returned>>

Indices == {"dense", "sparse"}
Variants == 1..search.variants
Single == search.variants = 1
Rankings == {s \in BoundedSeq(Chunks, MaxListed[search.variants]) : IsInjective(s)}
Least(a, b) == IF a < b THEN a ELSE b
First(s, n) == SubSeq(s, 1, Least(n, Len(s)))

Scoring == {i \in DOMAIN batches : batches[i].state = "scoring"}

(* Stages are those of the code, and the semaphore bounds the batches.     *)
HybridTypeOK ==
    /\ search.stage \in {"idle", "retrieving", "fused", "reranking", "done", "failed"}
    /\ \A i \in DOMAIN batches :
          batches[i].state \in {"waiting", "scoring", "scored", "failed", "cancelled"}
    /\ others + Cardinality(Scoring) \in 0..Permits

HybridInit ==
    /\ search = [stage |-> "idle", variants |-> 0, topK |-> 0, limit |-> NoLimit, rerank |-> FALSE,
                 fallback |-> TRUE, partial |-> TRUE, degraded |-> FALSE]
    /\ listed = <<>> /\ fused = <<>> /\ faults = {}
    /\ pool = <<>> /\ batches = <<>> /\ returned = <<>>
    /\ others = 0
-----------------------------------------------------------------------------
(* What is in S, in an order that puts nothing behind what it comes before.*)
Sorted(S, before(_, _)) ==
    CHOOSE s \in SetToSeqs(S) : \A i, j \in DOMAIN s : i < j => ~before(s[j], s[i])

(* Reciprocal rank fusion.  Unit makes 1 / (60 + rank) a whole number for  *)
(* the first three ranks.                                                  *)
Unit == 61 * 62 * 63
RankIn(s, c) == CHOOSE i \in DOMAIN s : s[i] = c
Share(s, c) == IF c \in ToSet(s) THEN Unit \div (60 + RankIn(s, c)) ELSE 0
Ahead(s, a, b) == a \in ToSet(s) /\ (b \notin ToSet(s) \/ RankIn(s, a) < RankIn(s, b))

(* Of equal sums the better in the dense list comes first, then the better *)
(* in the sparse list, then the smaller id.                                *)
Precedes(dense, sparse, a, b) ==
    LET sum(c) == Share(dense, c) + Share(sparse, c) IN
    \/ sum(a) > sum(b)
    \/ /\ sum(a) = sum(b) /\ ~Ahead(dense, b, a)
       /\ \/ Ahead(dense, a, b)
          \/ Ahead(sparse, a, b)
          \/ ~Ahead(sparse, b, a) /\ a < b

(* Mutant: ranks are added, and an absence counts as rank 0.               *)
FuseByRanks(dense, sparse) ==
    LET rank(s, c) == IF c \in ToSet(s) THEN RankIn(s, c) ELSE 0 IN
    Sorted(ToSet(dense) \cup ToSet(sparse),
           LAMBDA a, b : rank(dense, a) + rank(sparse, a) < rank(dense, b) + rank(sparse, b))

Fuse(dense, sparse) ==
    Sorted(ToSet(dense) \cup ToSet(sparse), LAMBDA a, b : Precedes(dense, sparse, a, b))

(* The lists of the variants are fused by weighted shares, then by id.     *)
Weighted(c) == SumFunction([v \in Variants |-> Weights[v] * Share(fused[v], c)])
FuseVariants ==
    Sorted(UNION {ToSet(fused[v]) : v \in Variants},
           LAMBDA a, b : Weighted(a) > Weighted(b) \/ (Weighted(a) = Weighted(b) /\ a < b))

Ranking == IF Single THEN fused[1] ELSE FuseVariants
AllFused == search.stage = "retrieving" /\ \A v \in Variants : fused[v] # Missing
-----------------------------------------------------------------------------
(* A search begins, with as many variants as its plan has queries.         *)
BeginHybrid ==
    /\ search.stage = "idle"
    /\ \E n \in DOMAIN Weights, partial \in BOOLEAN :
          /\ search' = [search EXCEPT !.stage = "retrieving", !.variants = n, !.partial = partial]
          /\ listed' = [v \in 1..n |-> [i \in Indices |-> Missing]]
          /\ fused' = [v \in 1..n |-> Missing]
    /\ UNCHANGED <<faults, pool, batches, others, returned>>

(* An index answers with a list, or fails.  (The code tells a failure by   *)
(* the message of the exception: one without a message is an empty list.)  *)
IndexAnswers(v, i) ==
    /\ search.stage = "retrieving" /\ fused[v] = Missing /\ listed[v][i] = Missing
    /\ \/ /\ \E s \in Rankings : listed' = [listed EXCEPT ![v][i] = s]
          /\ UNCHANGED faults
       \/ /\ listed' = [listed EXCEPT ![v][i] = <<>>]
          /\ faults' = faults \cup {<<i, v>>}
    /\ UNCHANGED <<search, fused, pool, batches, others, returned>>

(* An exception ends a search of one variant; of several, the variant is   *)
(* taken to have found nothing.                                            *)
VariantFails(v) ==
    /\ \/ Single /\ search' = [search EXCEPT !.stage = "failed"] /\ UNCHANGED fused
       \/ ~Single /\ fused' = [fused EXCEPT ![v] = <<>>] /\ UNCHANGED search
    /\ faults' = faults \cup {<<"variant", v>>}
    /\ UNCHANGED <<listed, pool, batches, others, returned>>

(* Both indices have answered.  Both failed, or one that is not excused, is*)
(* an exception; so is, for one of several variants, a failing hydration.  *)
FuseLists(v) ==
    LET failed == {i \in Indices : <<i, v>> \in faults} IN
    /\ search.stage = "retrieving" /\ fused[v] = Missing
    /\ \A i \in Indices : listed[v][i] # Missing
    /\ \/ /\ failed = Indices \/ (failed # {} /\ ~search.partial) \/ ~Single
          /\ VariantFails(v)
       \/ /\ failed = {} \/ (failed # Indices /\ search.partial)
          /\ fused' = [fused EXCEPT ![v] = Fuse(listed[v]["dense"], listed[v]["sparse"])]
          /\ search' = [search EXCEPT !.degraded = Single /\ failed # {}]
          /\ UNCHANGED <<listed, faults, pool, batches, others, returned>>

RetrievalTimesOut(v) ==
    /\ search.stage = "retrieving" /\ fused[v] = Missing
    /\ \E i \in Indices : listed[v][i] = Missing
    /\ VariantFails(v)

(* The pool is cut.  What was asked of the rest matters from here on, and  *)
(* is chosen here; the lists have served, and so have the failures that    *)
(* were turned into empty lists.  (Limits of 50, 150 and 200 lie beyond    *)
(* the bounds.)                                                            *)
LimitOr(default, limit) == IF limit = NoLimit THEN default ELSE limit

CutPool ==
    /\ AllFused
    /\ \E k \in TopKs, limit \in RerankLimits, rerank, fallback \in BOOLEAN :
          LET most == LimitOr(Ceiling, limit)
              size == IF ~Single THEN LimitOr(Len(Ranking), limit)
                      ELSE IF rerank /\ k < most THEN most ELSE k
          IN  /\ fallback \/ rerank
              /\ search' = [search EXCEPT !.stage = "fused", !.topK = k, !.limit = limit,
                                          !.rerank = rerank, !.fallback = fallback]
              /\ pool' = First(Ranking, size)
    /\ listed' = <<>> /\ fused' = <<>>
    /\ faults' = IF Single THEN faults ELSE {}
    /\ UNCHANGED <<batches, others, returned>>

(* What is returned is hydrated from the database, which may fail.         *)
Return(candidates, degraded) ==
    \/ /\ search' = [search EXCEPT !.stage = "done", !.degraded = degraded]
       /\ returned' = First(candidates, search.topK)
    \/ search' = [search EXCEPT !.stage = "failed"] /\ UNCHANGED returned

ReturnFused ==
    /\ search.stage = "fused" /\ (~search.rerank \/ pool = <<>>)
    /\ Return(pool, search.degraded)
    /\ UNCHANGED <<listed, fused, faults, pool, batches, others>>
-----------------------------------------------------------------------------
(* The reranker.                                                           *)

(* bound_candidates; several variants ask for the whole pool.              *)
Bounded == First(pool, IF Single THEN Least(LimitOr(Ceiling, search.limit), Ceiling) ELSE Ceiling)

BeginReranking ==
    LET n == Len(Bounded) IN
    /\ search.stage = "fused" /\ search.rerank /\ pool # <<>>
    /\ search' = [search EXCEPT !.stage = "reranking"]
    /\ batches' = [b \in 1..((n + BatchSize - 1) \div BatchSize) |->
                      [chunks |-> SubSeq(Bounded, (b - 1) * BatchSize + 1, Least(b * BatchSize, n)),
                       state |-> "waiting", scores |-> <<>>]]
    /\ UNCHANGED <<listed, fused, faults, pool, others, returned>>

(* The query or the tenant of the candidates is rejected before anything   *)
(* is scored, whether or not fallback is allowed.                          *)
RerankingRejected ==
    /\ search.stage = "fused" /\ search.rerank /\ pool # <<>>
    /\ faults' = faults \cup {<<"rerank", 0>>}
    /\ \/ ~Single /\ Return(pool, FALSE)
       \/ Single /\ search' = [search EXCEPT !.stage = "failed"] /\ UNCHANGED returned
    /\ UNCHANGED <<listed, fused, pool, batches, others>>

BatchStarts(b) ==
    /\ batches[b].state = "waiting" /\ others + Cardinality(Scoring) < Permits
    /\ batches' = [batches EXCEPT ![b].state = "scoring"]
    /\ UNCHANGED <<search, listed, fused, faults, pool, others, returned>>

BatchScores(b) ==
    /\ batches[b].state = "scoring"
    /\ \E s \in [DOMAIN batches[b].chunks -> Scores] :
          batches' = [batches EXCEPT ![b].state = "scored", ![b].scores = s]
    /\ UNCHANGED <<search, listed, fused, faults, pool, others, returned>>

(* Without scores the order of fusion is returned.  Where that is not      *)
(* allowed the error is raised, to be ignored by a search of several       *)
(* variants, which alone does not tell that it is degraded.                *)
RerankFails ==
    /\ faults' = faults \cup {<<"rerank", 0>>}
    /\ \/ search.fallback /\ Return(Bounded, Single)
       \/ ~search.fallback /\ ~Single /\ Return(pool, FALSE)
       \/ /\ ~search.fallback /\ Single
          /\ search' = [search EXCEPT !.stage = "failed"] /\ UNCHANGED returned
    /\ UNCHANGED <<listed, fused, pool, others>>

(* One batch raises: the search goes on without the others, which are left *)
(* to run.                                                                 *)
BatchRaises(b) ==
    /\ batches[b].state = "scoring"
    /\ batches' = [batches EXCEPT ![b].state = "failed"]
    /\ \/ search.stage = "reranking" /\ RerankFails
       \/ /\ search.stage # "reranking"
          /\ UNCHANGED <<search, listed, fused, faults, pool, others, returned>>

RerankTimesOut ==
    /\ search.stage = "reranking"
    /\ \E b \in DOMAIN batches : batches[b].state \in {"waiting", "scoring"}
    /\ batches' = [b \in DOMAIN batches |->
                      IF batches[b].state = "scored" THEN batches[b]
                      ELSE [batches[b] EXCEPT !.state = "cancelled"]]
    /\ RerankFails

(* The scores are those of the bounded candidates, in the order of the     *)
(* batches; equal scores leave the order of fusion (but for equal sums of  *)
(* several variants, where dense scores, which are left out, come first).  *)
Reranked ==
    LET scores == FlattenSeq([b \in DOMAIN batches |-> batches[b].scores])
        order == Sorted(DOMAIN Bounded, LAMBDA i, j : scores[i] > scores[j]
                                                      \/ (scores[i] = scores[j] /\ i < j))
    IN  [n \in DOMAIN order |-> Bounded[order[n]]]

ScoresGathered ==
    /\ search.stage = "reranking" /\ \A b \in DOMAIN batches : batches[b].state = "scored"
    /\ Return(Reranked, search.degraded)
    /\ UNCHANGED <<listed, fused, faults, pool, batches, others>>

(* Bound: other searches are followed while batches of this one are about. *)
OthersScore ==
    /\ \E b \in DOMAIN batches : batches[b].state \in {"waiting", "scoring"}
    /\ \/ others + Cardinality(Scoring) < Permits /\ others' = others + 1
       \/ others > 0 /\ others' = others - 1
    /\ UNCHANGED <<search, listed, fused, faults, pool, batches, returned>>
-----------------------------------------------------------------------------
(* What the search itself and its timers do.                               *)
HybridStep ==
    \/ \E v \in DOMAIN fused : FuseLists(v) \/ RetrievalTimesOut(v)
    \/ CutPool \/ ReturnFused \/ BeginReranking \/ RerankingRejected
    \/ RerankTimesOut \/ ScoresGathered

HybridNext ==
    \/ BeginHybrid \/ HybridStep \/ OthersScore
    \/ \E v \in DOMAIN fused, i \in Indices : IndexAnswers(v, i)
    \/ \E b \in DOMAIN batches : BatchStarts(b) \/ BatchScores(b) \/ BatchRaises(b)

HybridSpec == HybridInit /\ [][HybridNext]_hybridVars /\ WF_hybridVars(HybridStep)
-----------------------------------------------------------------------------
(* A list counts unless its variant failed.  One chunk beats another if it *)
(* is ahead in every list that has the other, and in one at least.         *)
Counting == UNION {Range(listed[v]) : v \in {w \in Variants : <<"variant", w>> \notin faults}}
Beats(a, b) ==
    /\ \A s \in Counting : b \in ToSet(s) => Ahead(s, a, b)
    /\ \E s \in Counting : Ahead(s, a, b)

ScoreOf(c) ==
    LET b == CHOOSE b \in DOMAIN batches : c \in ToSet(batches[b].chunks)
    IN  batches[b].scores[RankIn(batches[b].chunks, c)]

(* Fusion ranks what was listed, all of it and once, and never ahead of    *)
(* what beats it, through two fusions of lists of any lengths and through  *)
(* failures of some.  Of the candidates a cross-encoder scored, whichever  *)
(* batch ended first, the best by their own scores are returned, in that   *)
(* order, as many as asked for.  A search of one variant that missed an    *)
(* index or the scores, and no other, is marked degraded.                  *)
RankingsAreTrue ==
    /\ AllFused =>
          /\ IsInjective(Ranking)
          /\ ToSet(Ranking) = UNION {ToSet(s) : s \in Counting}
          /\ \A a, b \in ToSet(Ranking) : Beats(a, b) => RankIn(Ranking, a) < RankIn(Ranking, b)
    /\ search.stage = "done" =>
          /\ Single => (search.degraded <=> faults # {})
          /\ batches # <<>> /\ <<"rerank", 0>> \notin faults =>
                /\ IsInjective(returned) /\ Len(returned) = Least(search.topK, Len(Bounded))
                /\ \A i \in DOMAIN returned :
                      \A c \in ToSet(Bounded) \ ToSet(SubSeq(returned, 1, i)) :
                         ScoreOf(returned[i]) >= ScoreOf(c)

(* A search comes to an end, whatever the indices and the model do not     *)
(* answer and whoever holds the permits.                                   *)
SearchEnds == search.stage = "retrieving" ~> search.stage \in {"done", "failed"}
================================================================================
