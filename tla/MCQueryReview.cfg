\* Two questions, asked or streamed, and three overlapping decisions;
\* two lists of citations, which two runs may share.
\* Deadlock: questions and decisions run out.
SPECIFICATION Spec
CONSTANTS
    Queries = {q1, q2}
    Decisions = {x1, x2, x3}
    Asker = Asker
    Lists = {l1, l2}
    None = None
    HumanReview = TRUE
SYMMETRY Symmetry
CHECK_DEADLOCK FALSE
INVARIANTS
    TypeOK
    TrailExplainsRow
    LastDecisionStands
    CitationsPartOnlyByOverlap
    StreamedIsStored
PROPERTY
    NothingIsUndone
