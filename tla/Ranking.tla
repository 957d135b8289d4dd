------------------------------ MODULE Ranking ------------------------------
(***************************************************************************)
(* How passages are ranked (services/retrieval.py): two candidate lists,   *)
(* best first, are united, scored by a reranker, and that score is blended *)
(* with the reciprocal ranks of the lists.  The code's floats are exact    *)
(* fractions here, written <<numerator, denominator>>.                     *)
(***************************************************************************)
EXTENDS Integers, FiniteSetsExt, Lists

CONSTANTS
    Chunks,         \* document_chunks rows
    Weight,         \* RERANK_WEIGHT, a fraction from 0 to 1
    RrfK,           \* rrf_k
    RrfUnit         \* a multiple of RrfK + r for every rank r that occurs

ASSUME RankingAssumption ==
    /\ IsFiniteSet(Chunks)
    /\ Weight \in Int \X (Nat \ {0})
    /\ RrfK \in Nat \ {0} /\ RrfUnit \in Nat

Scored == [chunk : Chunks, score : Int \X (Nat \ {0})]

ChunksOf(s) == {s[i].chunk : i \in DOMAIN s}

Greater(x, y) == x[1] * y[2] > y[1] * x[2]

(* sort(key=score, reverse=True), which keeps the order of equal scores:    *)
(* the place of an element is known from what goes before it.              *)
Place(s, i) ==
    1 + Cardinality({j \in DOMAIN s :
                        \/ Greater(s[j].score, s[i].score)
                        \/ j < i /\ ~Greater(s[i].score, s[j].score)})

SortDesc(s) == [p \in DOMAIN s |-> s[CHOOSE i \in DOMAIN s : Place(s, i) = p]]

Top(s, k) == SubSeq(s, 1, IF Len(s) < k THEN Len(s) ELSE k)

----------------------------------------------------------------------------
(* Lists of distinct chunks of S, best first.                               *)
Rankings(S, n) == {s \in [1..n -> S] : \A i, j \in DOMAIN s : s[i] = s[j] => i = j}

(* vector_search: every chunk in scope has a distance, so k are found if    *)
(* there are k; in which order is up to the embeddings.                    *)
VectorSearch(scope, k) ==
    Rankings(scope, IF Cardinality(scope) < k THEN Cardinality(scope) ELSE k)

(* keyword_search.search: only chunks that share a term with the query, at  *)
(* most k of them, maybe none.                                             *)
KeywordSearch(scope, k) == UNION {Rankings(scope, n) : n \in 0..k}

(* rerank: one score for each passage, fractions of the query's terms or    *)
(* whatever a cross-encoder says.                                          *)
Rerank(passages, scores) == [passages -> scores]

(* Union and dedup, in the order of the dict. *)
Candidates(dense, sparse) ==
    dense \o Kept(sparse, Listed(sparse) \ Listed(dense))

(* 1 / (rrf_k + rank) of c in one list, in units of 1 / RrfUnit; ranks are  *)
(* counted from 0.                                                         *)
Reciprocal(list, c) ==
    IF c \in Listed(list) THEN RrfUnit \div (RrfK + (CHOOSE i \in DOMAIN list : list[i] = c) - 1)
                          ELSE 0

Fusion(dense, sparse, c) == Reciprocal(dense, c) + Reciprocal(sparse, c)

(* _minmax, over the values S: 1 if they are all equal.                     *)
MinMax(S, x) ==
    IF Min(S) = Max(S) THEN <<1, 1>> ELSE <<x - Min(S), Max(S) - Min(S)>>

(* w * rerank + (1 - w) * fusion, both normalized; the raw score for w = 1. *)
Blend(rr, fusion, c) ==
    IF Weight[1] = Weight[2] THEN <<rr[c], 1>>
    ELSE LET r == MinMax({rr[d] : d \in DOMAIN rr}, rr[c])
             f == MinMax({fusion[d] : d \in DOMAIN fusion}, fusion[c])
         IN  <<Weight[1] * r[1] * f[2] + (Weight[2] - Weight[1]) * f[1] * r[2],
               Weight[2] * r[2] * f[2]>>

(* The candidates of one search with their final scores; rr is what the     *)
(* reranker says of them.                                                  *)
Scores(dense, sparse, rr) ==
    LET all == Candidates(dense, sparse)
        fusion == [c \in Listed(all) |-> Fusion(dense, sparse, c)]
    IN  [i \in DOMAIN all |-> [chunk |-> all[i], score |-> Blend(rr, fusion, all[i])]]

HybridSearch(dense, sparse, rr, k) == Top(SortDesc(Scores(dense, sparse, rr)), k)

----------------------------------------------------------------------------
(* The results for chunks that were not found before.                       *)
Unmerged(merged, results) ==
    Kept(results, {s \in Listed(results) : s.chunk \notin ChunksOf(merged)})

(* Variant: the results of the subqueries one after the other. *)
MergeAppending(merged, results) == merged \o results

(* Variant: a chunk found again keeps the score it was found with last. *)
MergeLatest(merged, results) ==
    [i \in DOMAIN merged |->
        IF \E s \in Listed(results) : s.chunk = merged[i].chunk
        THEN CHOOSE s \in Listed(results) : s.chunk = merged[i].chunk
        ELSE merged[i]]
    \o Unmerged(merged, results)

(* The results of one more subquery: a chunk found again keeps its best     *)
(* score and its place in the dict.                                        *)
MergeIn(merged, results) ==
    LET Better(m) == {s \in Listed(results) : s.chunk = m.chunk /\ Greater(s.score, m.score)} IN
    [i \in DOMAIN merged |-> IF Better(merged[i]) = {} THEN merged[i]
                             ELSE CHOOSE s \in Better(merged[i]) : TRUE]
    \o Unmerged(merged, results)
=============================================================================
