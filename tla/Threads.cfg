SPECIFICATION ThreadsSpec
CONSTANTS
    S = 4
    Chunks = 6
    Lanes = {0, 2, 3}
    Count = 5
    Slots = 3
    MaxReaders = 2
    Consumers = {"load", "disk"}
    FailingStarts = {"load"}
    Pulls = {"p", "q"}
    Streams <- MCStreams
    Attempts = 2
    Found = {"damaged"}
    Outages = 1
INVARIANTS
    PassOfItsChunk
    RowsOfItsChunk
    NeverStuck
    CallReturnsWhole
    RingSound
    PullSound
PROPERTIES
    DeliversOrFails
    JoinsEnd
