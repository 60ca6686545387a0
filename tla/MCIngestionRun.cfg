SPECIFICATION Spec
CONSTANTS
    Texts <- AllTexts
    Blank = ""
    Dictionary <- English
    Lone <- Letters
    Docs <- Two
    Threads = {t1, t2}
    Kind <- TwoKinds
    Content <- TwoContents
    Domain <- AllHr
    VlmReplies <- Loading
    ShardPages = 2
    MaxDeliveries = 2
    MaxEntries = 2
    MaxMishaps = 2
    None = None
SYMMETRY ThreadSymmetry
INVARIANTS RunTypeOK CompletedIsWhole CompletedIsSearchable CheckpointCovered
CHECK_DEADLOCK FALSE
