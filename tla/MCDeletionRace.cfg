SPECIFICATION Spec
CONSTANTS
    Docs = {d1}
    Tasks = {t1, t2}
    Handlers = {h1, h2}
    None = None
    Requests <- RaceRequests
    MaxAttempts = 1
    MaxRequests = 3
    MaxFaults = 0
    MaxReady = 1
    MaxEvents = 1
SYMMETRY Symmetry
INVARIANTS TypeOK DeletingHasTask
PROPERTIES SettledStays
CHECK_DEADLOCK FALSE
