\* The parts of the library, each on its own.
SPECIFICATION MCSpec
CONSTANTS
    Parts = {"art", "life", "stream", "two", "recv", "acks", "buf"}
    s2 = s2
    b1 = b1
    b2 = b2
    Packet = {p1, p2}
    MaxRound = 3
    Window = 4
    MaxRedundancy = 6
    Pkt = {p1, p2, p3}
    MaxNo = 4
    Streams = {s1}
    Final <- MCFinal
    Sfcw = 4
    Cfcw = 4
    MaxSfcw = 5
    MaxCfcw = 6
    MaxOff = 5
    BlockSize = 3
    EffThreshLow = 1
    EffThreshHigh = 3
    EffFar = 1
    EffMaxHoles = 1
    EffTiny = 1
    MaxFrame = 2
    MaxRead = 3
    StEvents = {"rst", "stop", "shutdown", "poll", "blocked"}
    MaxPackno = 6
    MaxBit = 2
    TrMax = 3
    UcharMax = 3
    FirstElems = 2
    MaxRanges = 3
CHECK_DEADLOCK FALSE
INVARIANTS
    TypesOK
    FeedbackSound
    LifeSafe
    HistoryExact
    AckHasBase
    StreamBytesKept
    HonestAccepted
    StreamWindowsAddUp
    StreamHolesCounted
    StreamNoReadMissed
    StreamWindowsReopen
    BufferedCounted
    
    
PROPERTIES
    GrowthOnlyUnderTotalLoss
    NoOscillation
    NumbersFresh
    StreamsImplementFlowCtl
