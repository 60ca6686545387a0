SPECIFICATION FairSpec
CONSTANTS
    NumEvents = 3
    Malformed = {3}
    Unconvertible = {1}
    BatchSize = 2
    ClaimBatch = 2
    MaxLen = 1
    MaxCount = 2
    MaxMishaps = 3
INVARIANTS CTypeOK RowsWithinDeliveries
PROPERTIES ContractSpec StoredInTheEnd
CHECK_DEADLOCK FALSE
