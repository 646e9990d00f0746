CONSTANTS
    S = 2
    SlotCount = 2
    Limit = 2
    Threaded = {0, 1}
    Always = {0}
    Host = {}
    r1 = r1
    r2 = r2
    Requests = {r1}
    MaxPasses = 2
    MaxItems = 1
    Failures = TRUE
SPECIFICATION Spec
INVARIANTS HandOverSound
PROPERTIES PassesEnd StopEnds
