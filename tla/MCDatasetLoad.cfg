SPECIFICATION FairSpec
CONSTANTS
    Dataset <- Requested
    Samples = 2
    Readers = {r1, r2}
    MaxEventsKept = 5
    MaxMishaps = 2
INVARIANTS TypeOK CountIsBacked DoneMeansLoaded EndedSawAll
PROPERTIES StreamsEnd
CHECK_DEADLOCK FALSE
