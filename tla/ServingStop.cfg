CONSTANTS
    c1 = c1
    c2 = c2
    Conns = {c1}
    Logprobs = {c1}
    MaxSeqs = 1
    MaxQueue = 1
    RowsWaiting = 1
    MaxPicks = 1
    MaxTokens <- One
    MaxPauses = 0
SPECIFICATION Spec
PROPERTIES StopEnds
CHECK_DEADLOCK FALSE
