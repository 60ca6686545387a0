SPECIFICATION Spec
CONSTANTS
    MaxTokens = 2
    OverlapTokens = 1
    Alone <- OneMore
    MaxLength = 7
    Title = {"a", "b", "c"}
    PerDataset = 2
INVARIANTS NothingLost FitsBudget SamplesAreWhole
CHECK_DEADLOCK FALSE
