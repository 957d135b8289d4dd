SPECIFICATION Spec
CONSTANTS
    Queries = {q1}
    Decisions = {x1, x2}
    Asker = Asker
    Lists = {l1, l2}
    None = None
    HumanReview = TRUE
CHECK_DEADLOCK FALSE
INVARIANT
    CitationsMatchAnswer
