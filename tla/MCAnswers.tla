----------------------------- MODULE MCAnswers -----------------------------
(* Instances of Answers for TLC: a question while the limiter stands still, *)
(* the limiter over windows while the one question finds no route, and the *)
(* gate while both stand still.                                            *)
EXTENDS Answers, TLC

CONSTANTS x, y, t1, t2

MCWeight == <<1, 2>>

MCPassages == {{t1}, {t2}}
MCThreshold == [m \in Metrics |-> 7000]
MCQuestion == (x :> {t1}) @@ (y :> {t2})
MCReference == (x :> {t1, t2}) @@ (y :> {})

(* The gate was called as often as it will be.                              *)
NoGateCalls ==
    /\ corpus = [f \in Files |-> "absent"]
    /\ calls = MaxCalls /\ saves = TRUE /\ stage = "exited" /\ unseeded = {} /\ ingesting = {}
    /\ dataset = <<>> /\ samples = <<>>
    /\ run = NoRun /\ results = NoResults
    /\ shown = <<>> /\ exit = 3

QuestionInit ==
    /\ WorkflowInit
    /\ config \in {[review |-> TRUE, private |-> FALSE, selfHosted |-> TRUE],
                   [review |-> FALSE, private |-> FALSE, selfHosted |-> FALSE],
                   [review |-> TRUE, private |-> TRUE, selfHosted |-> TRUE]}
    /\ scope \in {Chunks, {}}
    /\ now = MaxTime
    /\ hits = [c \in Clients |-> [i \in 1..Limit |-> MaxTime]]
    /\ admitted = hits
    /\ NoGateCalls

LimiterOnlyInit ==
    /\ LimiterInit /\ WorkflowInit
    /\ config = [review |-> TRUE, private |-> TRUE, selfHosted |-> FALSE]
    /\ scope = {} /\ policy = TRUE
    /\ NoGateCalls

GateOnlyInit ==
    /\ WorkflowInit /\ EvaluationInit
    /\ config = [review |-> TRUE, private |-> TRUE, selfHosted |-> FALSE]
    /\ scope = {} /\ policy = TRUE
    /\ now = MaxTime
    /\ hits = [c \in Clients |-> [i \in 1..Limit |-> MaxTime]]
    /\ admitted = hits

MCInit == QuestionInit \/ LimiterOnlyInit \/ GateOnlyInit

MCSpec == MCInit /\ [][Next]_vars

Symmetry == Permutations(Clients) \cup Permutations(Files)
=============================================================================
