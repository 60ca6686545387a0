SPECIFICATION FairSpec
CONSTANTS
    NumMsgs = 3
    Tenants <- AB
    TenantOf <- OneTenant
    Missing <- SecondMissing
    Malformed <- FirstMalformed
    Permits = {p1, p2}
    BatchSize = 2
    ClaimSize = 2
    MaxDelivery = 2
    MaxCopies = 1
    MaxFaults = 1
INVARIANTS TypeOK
PROPERTIES ContractSpec NoneForgotten
CHECK_DEADLOCK FALSE
