SPECIFICATION Spec
CONSTANTS
    Settings <- MCSettings
    Ring = 3
    InFlight = 2
    Readers = {"crossing"}
INVARIANTS
    ReadsWhole
CHECK_DEADLOCK FALSE
