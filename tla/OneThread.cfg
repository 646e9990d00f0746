CONSTANTS
    k1 = k1
    k2 = k2
    k3 = k3
    k4 = k4
    Slots = {k1, k2, k3, k4}
    SlotCount = 4
    PerPass = 5
    q1 = q1
    q2 = q2
    m1 = m1
    Seqs = {q1, q2}
    NoSlot = NoSlot
    Buffers = {m1}
    NoBuffer = NoBuffer
    NLive = 2
    NKept = 1
    S = 2
    MaxLen = 3
SPECIFICATION OneSpec
SYMMETRY Symmetry
INVARIANTS OwnRows QueuedFits SlotsAccounted ReadsItsState
