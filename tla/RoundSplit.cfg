CONSTANTS
    S = 3
    SlotCount = 3
    Limit = 3
    Threaded = {2}
    Always = {}
    Host = {1}
    r1 = r1
    r2 = r2
    Requests = {r1, r2}
    MaxPasses = 4
    MaxItems = 0
    Failures = TRUE
SPECIFICATION Spec
SYMMETRY Symmetry
INVARIANTS FormationOrder
