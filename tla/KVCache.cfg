SPECIFICATION MemorySpec
CONSTANTS
    s1 = s1
    s2 = s2
    t1 = t1
    t2 = t2
    NoToken = NoToken
    Handles <- MCHandles
    Tokens <- MCTokens
    MaxBlocks = 3
    Budgets = {2}
    BlockTokens = 2
    MaxLength = 4
SYMMETRY Symmetry
INVARIANTS
    BlocksAccounted
    LaidOut
PROPERTIES
    HistoriesOfTheirOwn
