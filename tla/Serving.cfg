CONSTANTS
    c1 = c1
    c2 = c2
    Conns = {c1, c2}
    Logprobs = {c1}
    MaxSeqs = 1
    MaxQueue = 1
    RowsWaiting = 1
    MaxPicks = 2
    MaxTokens <- Limits
    MaxPauses = 1
SPECIFICATION Spec
INVARIANTS ServingSound WholeReply
PROPERTIES Answered
CHECK_DEADLOCK FALSE
