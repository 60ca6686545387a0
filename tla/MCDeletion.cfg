SPECIFICATION RFairSpec
CONSTANTS
    Docs = {d1}
    Tasks = {t1}
    Handlers = {h1}
    None = None
    Requests <- UserRequests
    MaxAttempts = 2
    MaxRequests = 2
    MaxFaults = 2
    MaxReady = 1
    MaxEvents = 1
INVARIANTS CompletedIsIndexed
PROPERTIES OrphansRemoved InFlightSettles DeletionCompletes
CHECK_DEADLOCK FALSE
