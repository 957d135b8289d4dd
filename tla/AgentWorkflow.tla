--------------------------- MODULE AgentWorkflow ---------------------------
(***************************************************************************)
(* One question on its way through the agents (agents/workflow.py,         *)
(* agents/nodes.py): planner, retriever, verifier, then the hold or the    *)
(* synthesizer and the attribution of its [n] markers; each model call is  *)
(* routed by services/model_router.py.  What the models say is any value;  *)
(* what QueryReview takes as the outcome of a question is worked out here. *)
(***************************************************************************)
EXTENDS Ranking

CONSTANTS
    MaxSubqueries,  \* MAX_SUBQUERIES
    VectorK, Bm25K, \* HYBRID_VECTOR_CANDIDATES, HYBRID_BM25_CANDIDATES
    FinalTopK,      \* FINAL_TOP_K
    RerankScores,   \* what the reranker may say
    ConfidenceThreshold,    \* CONFIDENCE_THRESHOLD, in hundredths
    Markers,        \* the numbers an answer may put in brackets
    None            \* no value

ASSUME WorkflowAssumption ==
    /\ MaxSubqueries \in Nat \ {0} /\ FinalTopK \in Nat \ {0}
    /\ VectorK \in Nat /\ Bm25K \in Nat /\ ConfidenceThreshold \in Nat \ {0}
    /\ RerankScores \subseteq Int /\ Markers \subseteq Nat
    /\ None \notin BOOLEAN \cup (Int \X (Nat \ {0}))

VARIABLES
    config,     \* ENABLE_HUMAN_REVIEW, a private deployment, a self-hosted model
    policy,     \* tenants.settings: require_self_hosted_llm
    scope,      \* the chunks of accessible_document_ids, computed once
    node,       \* the node that runs next
    terms,      \* _tenant_settings, loaded once; None before
    todo,       \* subqueries left to search
    merged,     \* merged, by chunk, in the order of the dict
    chunks,     \* AgentState: what the searches found, ranked and cut
    sure,       \* Verification: confident and without a concern
    answer,     \* AgentState: the markers of the answer; None without one
    citations,  \* AgentState
    status,     \* AgentState; "unrouted" stands for LLMRoutingError
    offered,    \* history: the best score a chunk got in any subquery
    sent        \* history: the profiles that were called

workflowVars == <<config, policy, scope, node, terms, todo, merged, chunks, sure, answer,
                  citations, status, offered, sent>>

Configs == [review : BOOLEAN, private : BOOLEAN, selfHosted : BOOLEAN]

WorkflowTypeOK ==
    /\ config \in Configs /\ policy \in BOOLEAN /\ scope \subseteq Chunks
    /\ node \in {"planner", "retriever", "verifier", "human_review", "synthesizer",
                 "source_attributor", "end"}
    /\ terms \in BOOLEAN \cup {None}
    /\ todo \in 0..MaxSubqueries
    /\ merged \in Seq(Scored) /\ Cardinality(ChunksOf(merged)) = Len(merged)
    /\ chunks \in Seq(Scored)
    /\ sure \in BOOLEAN
    /\ answer = None \/ answer \subseteq Markers
    /\ citations \subseteq [marker : Markers, chunk : Chunks]
    /\ status \in {"processing", "pending_approval", "completed", "failed", "unrouted"}
    /\ sent \subseteq {"cloud", "self_hosted"}

WorkflowInit ==
    /\ config \in Configs /\ policy \in BOOLEAN /\ scope \in SUBSET Chunks
    /\ node = "planner" /\ terms = None /\ todo = 0
    /\ merged = <<>> /\ chunks = <<>> /\ sure = FALSE
    /\ answer = None /\ citations = {} /\ status = "processing"
    /\ offered = [c \in Chunks |-> None] /\ sent = {}

----------------------------------------------------------------------------
(* ModelRouter.resolve; None is LLMRoutingError.  No caller passes a        *)
(* document classification.                                                *)

(* Variant: without a self-hosted model the cloud is better than nothing. *)
ResolveOpen(t) == IF config.selfHosted /\ (config.private \/ t) THEN "self_hosted" ELSE "cloud"

(* get_model_router builds the profile only where an endpoint is set.       *)
SelfHostedRoute == IF config.selfHosted THEN "self_hosted" ELSE None

Resolve(t) == IF config.private \/ t THEN SelfHostedRoute ELSE "cloud"

Unrouted(t) ==
    /\ Resolve(t) = None
    /\ node' = "end" /\ status' = "unrouted"
    /\ UNCHANGED sent

Routed(t) == Resolve(t) # None /\ sent' = sent \cup {Resolve(t)}

(* The settings are read by the first node.  One subquery at least: the     *)
(* question itself, if the model gives none or fails.                      *)
Planner ==
    /\ node = "planner"
    /\ terms' = policy
    /\ \/ Unrouted(policy) /\ UNCHANGED todo
       \/ Routed(policy) /\ todo' \in 1..MaxSubqueries /\ node' = "retriever" /\ UNCHANGED status
    /\ UNCHANGED <<config, policy, scope, merged, chunks, sure, answer, citations, offered>>

(* One subquery: hybrid_search for two lists of distinct chunks in scope.   *)
Search(dense, sparse, rr) ==
    LET all == Scores(dense, sparse, rr)
        Score(c) == (CHOOSE s \in Listed(all) : s.chunk = c).score
    IN
    /\ node = "retriever" /\ todo > 0
    /\ merged' = MergeIn(merged, HybridSearch(dense, sparse, rr, FinalTopK))
    /\ offered' = [c \in Chunks |->
                     IF c \notin ChunksOf(all) THEN offered[c]
                     ELSE IF offered[c] = None THEN Score(c)
                     ELSE IF Greater(Score(c), offered[c]) THEN Score(c) ELSE offered[c]]
    /\ todo' = todo - 1
    /\ UNCHANGED <<config, policy, scope, node, terms, chunks, sure, answer, citations,
                   status, sent>>

(* The merged results, sorted and cut. *)
Retriever ==
    /\ node = "retriever" /\ todo = 0
    /\ chunks' = Top(SortDesc(merged), FinalTopK)
    /\ node' = "verifier"
    /\ UNCHANGED <<config, policy, scope, terms, todo, merged, sure, answer, citations,
                   status, offered, sent>>

RouteAfterVerify(v) == IF config.review /\ ~v THEN "human_review" ELSE "synthesizer"

(* Without sources no model is asked; a failing model is not sure.          *)
Verifier ==
    /\ node = "verifier"
    /\ \/ /\ chunks = <<>> /\ sure' = (0 >= ConfidenceThreshold)
          /\ node' = RouteAfterVerify(sure') /\ UNCHANGED <<sent, status>>
       \/ /\ chunks # <<>> /\ Routed(terms) /\ sure' \in BOOLEAN
          /\ node' = RouteAfterVerify(sure') /\ UNCHANGED status
       \/ chunks # <<>> /\ Unrouted(terms) /\ UNCHANGED sure
    /\ UNCHANGED <<config, policy, scope, terms, todo, merged, chunks, answer, citations, offered>>

HumanReview ==
    /\ node = "human_review"
    /\ node' = "end" /\ status' = "pending_approval"
    /\ UNCHANGED <<config, policy, scope, terms, todo, merged, chunks, sure, answer,
                   citations, offered, sent>>

(* An answer with any markers, or a failed synthesis.                       *)
Synthesizer ==
    /\ node = "synthesizer"
    /\ \/ Unrouted(terms) /\ UNCHANGED answer
       \/ /\ Routed(terms) /\ node' = "source_attributor"
          /\ \/ status' = "failed" /\ UNCHANGED answer
             \/ answer' \in SUBSET Markers /\ UNCHANGED status
    /\ UNCHANGED <<config, policy, scope, terms, todo, merged, chunks, sure, citations, offered>>

(* build_citations: markers that number no source are dropped.              *)
BuildCitations ==
    {[marker |-> n, chunk |-> chunks[n].chunk] : n \in {n \in answer : n \in DOMAIN chunks}}

SourceAttributor ==
    /\ node = "source_attributor"
    /\ node' = "end"
    /\ IF status = "failed" THEN UNCHANGED <<citations, status>>
       ELSE citations' = BuildCitations /\ status' = "completed"
    /\ UNCHANGED <<config, policy, scope, terms, todo, merged, chunks, sure, answer, offered, sent>>

(* PUT /admin/tenant/settings, while the question runs. *)
UpdateTenantSettings ==
    /\ policy' = ~policy
    /\ UNCHANGED <<config, scope, node, terms, todo, merged, chunks, sure, answer, citations,
                   status, offered, sent>>

WorkflowNext ==
    \/ Planner
    \/ \E dense \in VectorSearch(scope, VectorK), sparse \in KeywordSearch(scope, Bm25K) :
          \E rr \in Rerank(Listed(dense) \cup Listed(sparse), RerankScores) :
              Search(dense, sparse, rr)
    \/ Retriever
    \/ Verifier
    \/ HumanReview
    \/ Synthesizer
    \/ SourceAttributor
    \/ UpdateTenantSettings

----------------------------------------------------------------------------
(* Properties *)

(* Cutting every subquery's results to the final size first loses nothing:  *)
(* the sources are the best of all candidates, each with the best score    *)
(* any subquery gave it, best first (retriever, hybrid_search).            *)
ChunksAreBest ==
    node \in {"verifier", "human_review", "synthesizer", "source_attributor"} =>
        LET found == {c \in Chunks : offered[c] # None} IN
        /\ Len(chunks) = (IF Cardinality(found) < FinalTopK THEN Cardinality(found) ELSE FinalTopK)
        /\ \A i, j \in DOMAIN chunks : i < j =>
              chunks[i].chunk # chunks[j].chunk /\ ~Greater(chunks[j].score, chunks[i].score)
        /\ \A i \in DOMAIN chunks :
              /\ ~Greater(offered[chunks[i].chunk], chunks[i].score)
              /\ ~Greater(chunks[i].score, offered[chunks[i].chunk])
              /\ \A c \in found \ ChunksOf(chunks) : ~Greater(offered[c], chunks[i].score)

Phase == CASE status = "processing" -> "asked"
           [] status = "pending_approval" -> "held"
           [] status = "completed" -> "answered"
           [] OTHER -> status

Contract == INSTANCE AnswerContract WITH
    gate <- config.review,
    found <- ChunksOf(chunks),
    cited <- {c.chunk : c \in citations},
    phase <- Phase

(* The agents keep the promises of AnswerContract. *)
ImplementsAnswerContract == Contract!Spec
=============================================================================
