SPECIFICATION Spec
CONSTANTS
    Turns = {t1, t2, t3}
    Threshold = 2
    Verbatim = 1
SYMMETRY TurnSymmetry
INVARIANTS TypeOK SummaryIsPrefix VerbatimKept SentOnce
CHECK_DEADLOCK FALSE
