SPECIFICATION Spec
CONSTANTS
    Space = "_"
    Sentence <- Refusal
    Queries = {q1, q2}
    Docs <- DocSet
    Permitted <- OneEach
    Clearance <- OneCleared
    UserRoles <- NoRoles
    Relevant <- First
    Context <- First
    Confident <- First
    Requests <- MixedAsks
    RerankTopK = 2
    TopK = 1
    FallbackTopK = 0
    SkipEnabled = TRUE
    ExpansionEnabled = TRUE
    Limit = 1
    Chunks <- AnswerChunks
    MaxChunks = 1
    Thinking = TRUE
    TracerEnabled = FALSE
    Deletable <- DocSet
    None = None
INVARIANTS TypeOK PolicyHolds StaleOnlyByOverlap
PROPERTIES OutageNeverAbstains
CHECK_DEADLOCK FALSE
