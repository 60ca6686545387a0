SPECIFICATION Spec
CONSTANTS
    Tenants = {"acme"}
    Models = {"qwen3", "qwen2.5-vl"}
    DefaultModel = "qwen3"
    None = None
    Named = {"qwen2.5-vl"}
    Marks <- NameMarks
    Families <- BuiltinFamilies
    Fields <- BothFields
    Profiles <- Rows
    Callers = {c1, c2}
    MaxEdits = 2
    MaxMishaps = 1
INVARIANTS TypeOK CacheIsCurrent KindsKeptApart
SYMMETRY Symmetry
CHECK_DEADLOCK FALSE
