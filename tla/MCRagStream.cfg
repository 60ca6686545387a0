SPECIFICATION FairSpec
CONSTANTS
    Space = "_"
    Sentence <- TwoWords
    Queries = {q1, q2}
    Docs <- First
    Permitted <- AllowFirst
    Clearance <- OneCleared
    UserRoles <- NoRoles
    Relevant <- First
    Context <- First
    Confident <- First
    Requests <- NoCacheAsks
    RerankTopK = 2
    TopK = 1
    FallbackTopK = 0
    SkipEnabled = TRUE
    ExpansionEnabled = FALSE
    Limit = 1
    Chunks <- TextChunks
    MaxChunks = 2
    Thinking = TRUE
    TracerEnabled = FALSE
    Deletable <- NoDocs
    None = None
INVARIANTS AnswerIntact
PROPERTIES PermitsCirculate AnswersEnd
CHECK_DEADLOCK FALSE
