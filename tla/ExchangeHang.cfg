SPECIFICATION Spec
CONSTANTS
    Settings <- OneFailure
    Ring = 3
    InFlight = 2
    Readers = {"head"}
PROPERTIES
    NoWaiterHangs
CHECK_DEADLOCK FALSE
