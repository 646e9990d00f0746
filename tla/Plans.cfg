SPECIFICATION AskSpec
CONSTANTS
    t1 = t1
    t2 = t2
    B = B
    SegmentBlocks = 2
    NoBuild = NoBuild
    NoKey = NoKey
    Histories <- Forked
    Returned <- OneBack
    KeepsState = TRUE
    Cap = 4
    LeftBefore <- LeftFiles
    Builds = {B}
    ReadIds = {1}
    MaxWrites = 2
    MaxLeft = 3
    MaxBlocks = 2
    Requests = {"a", "b", "c"}
    Text <- MCText
    Prompt <- MCPrompt
    Uncapped = {"a", "b"}
    BT = 2
    Pool = 4
    Growth = 1
    MaxSeqs = 2
    HostCap = 3
    Ubatch = 2
    Slots = 2
    Turn = 1
    Cancels = {"c"}
INVARIANTS
    CacheSound
    RoomKept
    TierSound
    PlansBest
PROPERTIES
    OldestKeeps
    RequestsEnd
    LandsOnItsPath
    IndexAnswers
