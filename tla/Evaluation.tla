----------------------------- MODULE Evaluation -----------------------------
(***************************************************************************)
(* The deploy gate (evals/run_evals.py): it seeds the corpus               *)
(* (eval_seed.py), asks the agents every question of a dataset, scores the *)
(* answers (eval_harness.py, evaluation.py) and exits with the verdict.    *)
(* Texts are the sets of their terms; scores are in ten-thousandths, to    *)
(* which the code rounds.  The evaluator is FakeEvaluator.                 *)
(***************************************************************************)
EXTENDS Integers, Sequences, FiniteSetsExt

CONSTANTS
    Files,          \* the corpus
    Items,          \* ids of questions
    Terms,
    Passages,       \* the terms of the passages of the corpus
    Question, Reference,    \* the terms of the questions, by id
    Threshold,      \* EVAL_THRESHOLD_*, by metric
    MaxContexts,    \* bound: contexts of an answer
    RankUnit,       \* a multiple of every rank up to MaxContexts
    MaxItems,       \* bound: length of a dataset
    MaxCalls        \* bound: how often the gate is called

Whole == 10000      \* scores are rounded to four places

Metrics == {"faithfulness", "context_precision", "answer_relevancy"}

ASSUME EvaluationAssumption ==
    /\ Files # {} /\ IsFiniteSet(Terms) /\ Passages \subseteq SUBSET Terms
    /\ Question \in [Items -> SUBSET Terms] /\ Reference \in [Items -> SUBSET Terms]
    /\ Threshold \in [Metrics -> 0..Whole]
    /\ MaxContexts \in Nat /\ MaxItems \in Nat /\ MaxCalls \in Nat
    /\ RankUnit \in Nat \ {0} /\ \A k \in 1..MaxContexts : RankUnit % k = 0

VARIABLES
    corpus,     \* the documents row of each file: its status, or "absent"
    calls,      \* how often the gate was called
    saves,      \* not --no-save
    stage,      \* how far this call got; "broken" if it ended by an exception or a signal
    unseeded,   \* files still to look at
    ingesting,  \* the file in process_document, if any
    dataset,    \* the ids of the questions, in order
    samples,    \* EvalSample: what the agents answered so far
    run,        \* the EvalRun, in the session
    results,    \* the EvalResult rows, in the session, by item id
    shown,      \* the run and its results as committed: <<>> without one
    exit        \* the exit code; -1 while running, 3 stands for a signal's

evaluationVars == <<corpus, calls, saves, stage, unseeded, ingesting, dataset, samples, run,
                    results, shown, exit>>

Sample == [item : Items, answer : SUBSET Terms, contexts : Seq(Passages)]

Run == [status : {"running", "passed", "failed", "error"}, passed : {"null", "true", "false"}]

EvaluationTypeOK ==
    /\ corpus \in [Files -> {"absent", "pending", "embedded", "failed"}]
    /\ calls \in 0..MaxCalls /\ saves \in BOOLEAN
    /\ stage \in {"seeding", "answering", "scored", "saved", "exited", "broken"}
    /\ unseeded \subseteq Files /\ ingesting \subseteq Files
    /\ dataset \in Seq(Items) /\ samples \in Seq(Sample) /\ Len(samples) <= Len(dataset)
    /\ run \in Run
    /\ DOMAIN results \subseteq {dataset[i] : i \in DOMAIN dataset}
    /\ \A id \in DOMAIN results : results[id] \in [Metrics -> 0..Whole]
    /\ shown = <<>> \/ shown = <<run, results>>
    /\ exit \in -1..3

NoRun == [status |-> "running", passed |-> "null"]
NoResults == [id \in {} |-> 0]

EvaluationInit ==
    /\ corpus = [f \in Files |-> "absent"]
    /\ calls = 0 /\ saves = TRUE /\ stage = "exited" /\ unseeded = {} /\ ingesting = {}
    /\ dataset = <<>> /\ samples = <<>>
    /\ run = NoRun /\ results = NoResults
    /\ shown = <<>> /\ exit = 3

----------------------------------------------------------------------------
(* Scores *)

(* round(n / d, 4); 0 for a text without terms.                             *)
Score(n, d) == IF d = 0 THEN 0 ELSE (2 * Whole * n + d) \div (2 * d)

Relevant(s) == {k \in DOMAIN s.contexts : s.contexts[k] \cap Question[s.item] # {}}

Total(f) == MapThenSumSet(LAMBDA x : f[x], DOMAIN f)

(* _average_precision: at each relevant rank, the share of relevant ones.   *)
AveragePrecision(s) ==
    LET Upto(k) == Cardinality({j \in Relevant(s) : j <= k})
    IN  Score(Total([k \in Relevant(s) |-> Upto(k) * (RankUnit \div k)]),
              RankUnit * Cardinality(Relevant(s)))

Supported(s) == s.answer \cap UNION {s.contexts[k] : k \in DOMAIN s.contexts}

(* FakeEvaluator._score *)
ItemScores(s) ==
    LET target == Question[s.item] \cup Reference[s.item] IN
    [faithfulness |-> Score(Cardinality(Supported(s)), Cardinality(s.answer)),
     context_precision |-> AveragePrecision(s),
     answer_relevancy |-> Score(Cardinality(s.answer \cap target), Cardinality(target))]

(* AggregateScores: does the mean of a metric over the items reach t?  The  *)
(* mean is exact here; the code's float may miss a t that it equals.        *)
MeanReaches(items, metric, t) ==
    IF items = <<>> THEN 0 >= t
    ELSE Total([i \in DOMAIN items |-> items[i][metric]]) >= t * Len(items)

(* Variant: one metric is enough. *)
PassedAny(items) == \E m \in Metrics : MeanReaches(items, m, Threshold[m])

Passed(items) == \A m \in Metrics : MeanReaches(items, m, Threshold[m])

----------------------------------------------------------------------------
(* One call of the gate *)

Running == stage \notin {"exited", "broken"}

(* Nothing requires the ids of a dataset to differ, or that it has any.     *)
StartGate(d, save) ==
    /\ ~Running /\ calls < MaxCalls
    /\ calls' = calls + 1 /\ saves' = save
    /\ dataset' = d /\ samples' = <<>>
    /\ stage' = "seeding" /\ unseeded' = Files /\ ingesting' = {}
    /\ run' = NoRun /\ results' = NoResults /\ shown' = <<>> /\ exit' = -1
    /\ UNCHANGED corpus

Asking == <<calls, saves, dataset, samples, run, results, shown, exit>>

(* seed_corpus: a file whose row exists is taken to be ingested, whatever   *)
(* became of it.                                                           *)
SkipFile(f) ==
    /\ stage = "seeding" /\ ingesting = {} /\ f \in unseeded /\ corpus[f] # "absent"
    /\ unseeded' = unseeded \ {f}
    /\ UNCHANGED <<corpus, stage, ingesting, Asking>>

(* The blob, and the committed row ... *)
InsertFile(f) ==
    /\ stage = "seeding" /\ ingesting = {} /\ f \in unseeded /\ corpus[f] = "absent"
    /\ corpus' = [corpus EXCEPT ![f] = "pending"]
    /\ unseeded' = unseeded \ {f} /\ ingesting' = {f}
    /\ UNCHANGED <<stage, Asking>>

(* ... then process_document in a session of its own, which does not raise. *)
IngestFile(f, status) ==
    /\ f \in ingesting
    /\ corpus' = [corpus EXCEPT ![f] = status]
    /\ ingesting' = {}
    /\ UNCHANGED <<stage, unseeded, Asking>>

(* run_eval: the run is flushed, not committed. *)
StartRun ==
    /\ stage = "seeding" /\ ingesting = {} /\ unseeded = {}
    /\ stage' = "answering"
    /\ UNCHANGED <<corpus, unseeded, ingesting, Asking>>

(* _answer_one: the nodes without the gate for review.  Vector search finds *)
(* something wherever anything is embedded; a failed synthesis leaves the   *)
(* empty answer.                                                           *)
AnswerOne(answer, contexts) ==
    /\ stage = "answering" /\ Len(samples) < Len(dataset)
    /\ contexts = <<>> <=> \A f \in Files : corpus[f] # "embedded"
    /\ samples' = Append(samples, [item |-> dataset[Len(samples) + 1], answer |-> answer,
                                   contexts |-> contexts])
    /\ UNCHANGED <<corpus, calls, saves, stage, unseeded, ingesting, dataset, run, results,
                   shown, exit>>

(* All scores count in the means; the rows are one for each id, the last.   *)
ScoreRun ==
    LET items == [i \in DOMAIN samples |-> ItemScores(samples[i])]
        Places(id) == {i \in DOMAIN samples : samples[i].item = id}
        Last(id) == CHOOSE i \in Places(id) : \A j \in Places(id) : j <= i
    IN
    /\ stage = "answering" /\ Len(samples) = Len(dataset)
    /\ results' = [id \in {samples[i].item : i \in DOMAIN samples} |-> items[Last(id)]]
    /\ run' = IF Passed(items) THEN [status |-> "passed", passed |-> "true"]
                               ELSE [status |-> "failed", passed |-> "false"]
    /\ stage' = "scored"
    /\ UNCHANGED <<corpus, calls, saves, unseeded, ingesting, dataset, samples, shown, exit>>

(* An agent raises - no route, no embedding -, and the run says so. *)
RunFails ==
    /\ stage = "answering"
    /\ run' = [run EXCEPT !.status = "error"]
    /\ stage' = "scored"
    /\ UNCHANGED <<corpus, calls, saves, unseeded, ingesting, dataset, samples, results,
                   shown, exit>>

(* _run, once run_eval returned: commit, or rollback with --no-save ... *)
Verdict ==
    /\ stage = "scored"
    /\ shown' = IF saves THEN <<run, results>> ELSE <<>>
    /\ stage' = "saved"
    /\ UNCHANGED <<corpus, calls, saves, unseeded, ingesting, dataset, samples, run, results, exit>>

(* ... then the summary is printed, and the process exits. *)
Report ==
    /\ stage = "saved"
    /\ stage' = "exited"
    /\ exit' = IF run.status = "error" THEN 2 ELSE IF run.passed = "true" THEN 0 ELSE 1
    /\ UNCHANGED <<corpus, calls, saves, unseeded, ingesting, dataset, samples, run, results, shown>>

(* What was not committed is gone; a saved run stays. *)
Breaks(code) ==
    /\ Running
    /\ stage' = "broken" /\ exit' = code
    /\ ingesting' = {}
    /\ \/ stage # "saved" /\ samples' = <<>> /\ run' = NoRun /\ results' = NoResults
       \/ stage = "saved" /\ UNCHANGED <<samples, run, results>>
    /\ UNCHANGED <<corpus, calls, saves, unseeded, dataset, shown>>

(* An exception ends the process: the database fails, and not even the      *)
(* run's error can be flushed; or the commit is done and its answer is      *)
(* lost, or a print fails.                                                 *)
Raises == Breaks(1)

Killed == Breaks(3)

EvaluationNext ==
    \/ \E d \in UNION {[1..n -> Items] : n \in 0..MaxItems}, save \in BOOLEAN : StartGate(d, save)
    \/ \E f \in Files : SkipFile(f) \/ InsertFile(f)
    \/ \E f \in Files, status \in {"embedded", "failed"} : IngestFile(f, status)
    \/ StartRun
    \/ \E answer \in SUBSET Terms : \E n \in 0..MaxContexts :
          \E contexts \in [1..n -> Passages] : AnswerOne(answer, contexts)
    \/ ScoreRun
    \/ RunFails
    \/ Verdict
    \/ Report
    \/ Raises
    \/ Killed

----------------------------------------------------------------------------
(* Properties *)

Reaches(scores) == \A m \in Metrics : scores[m] >= Threshold[m]

Exceeds(scores) == \A m \in Metrics : scores[m] > Threshold[m]

(* get_eval_run, for the dashboard: the run, and its items with whether     *)
(* each passed.                                                            *)
RunDetail == [status |-> shown[1].status, scores |-> shown[2],
              passed |-> [id \in DOMAIN shown[2] |-> Reaches(shown[2][id])]]

RepeatsAnId == \E i, j \in DOMAIN dataset : i < j /\ dataset[i] = dataset[j]

(* A deploy passes only after every question was answered, and every metric *)
(* that has a threshold above zero was reached by some item; with one for   *)
(* faithfulness, some answer is from what was found in the corpus - though  *)
(* seeding never looks whether anything was ingested.                       *)
PassIsEarned ==
    exit = 0 =>
        /\ Len(samples) = Len(dataset)
        /\ Threshold["faithfulness"] > 0 =>
              /\ \E f \in Files : corpus[f] = "embedded"
              /\ \E i \in DOMAIN samples : Supported(samples[i]) # {}
        /\ \A m \in Metrics : Threshold[m] > 0 =>
              \E i \in DOMAIN samples : ItemScores(samples[i])[m] >= Threshold[m]

(* A deploy is held back for its scores only if some item does not exceed   *)
(* some threshold, or nothing was asked.                                    *)
FailIsEarned ==
    run.status = "failed" /\ dataset # <<>> =>
        \E i \in DOMAIN samples : ~Exceeds(ItemScores(samples[i]))

(* The exit code never says more than what was saved, and what was saved    *)
(* says what the process exited with, unless it broke off after the commit: *)
(* then a run that passed is shown and the deploy was held back.  A saved   *)
(* run fails though each of its items is above all thresholds only if two   *)
(* of its questions share an id.                                           *)
ShownIsTrue ==
    /\ exit = 0 /\ saves => shown # <<>>
    /\ shown # <<>> =>
          /\ exit = 0 => RunDetail.status = "passed"
          /\ exit = 2 => RunDetail.status = "error"
          /\ RunDetail.status \in {"passed", "error"} /\ stage = "exited" => exit \in {0, 2}
          /\ RunDetail.status = "passed" => \A m \in Metrics : Threshold[m] > 0 =>
                RepeatsAnId \/ \E id \in DOMAIN RunDetail.scores :
                                  RunDetail.scores[id][m] >= Threshold[m]
          /\ RunDetail.status = "failed" /\ dataset # <<>> =>
                RepeatsAnId \/ \E id \in DOMAIN RunDetail.scores :
                                  ~RunDetail.passed[id] \/ ~Exceeds(RunDetail.scores[id])

(* The verdict of the gate is that of the answers (run_eval, _run).         *)
GateIsHonest == ~Running /\ calls > 0 => PassIsEarned /\ FailIsEarned /\ ShownIsTrue
=============================================================================
