\* First: acknowledgements, losses, alarms and ART duplicates of two packets.
\* Second: three packets, delayed sends, ACKs put to the front, stream resets,
\* probes, poison.
SPECIFICATION MCSpec
CONSTANTS
    p1 = p1
    p2 = p2
    p3 = p3
    Modulus = 16
    Pkt = {p1, p2}
    Spaces = {"app"}
    MaxNo = 5
    ReordThresh = 1
    NewKinds = {"stream"}
    Needs = {2}
    Cwnd = 2
    Gaps = {1}
    MaxResets = 0
    Events = {"delay"}
    Pkt2 = {p1, p2, p3}
    Spaces2 = {"app"}
    MaxNo2 = 3
    ReordThresh2 = 0
    NewKinds2 = {"stream", "ack"}
    Needs2 = {1}
    Cwnd2 = 3
    Gaps2 = {1}
    MaxResets2 = 1
    Events2 = {"delay", "optack"}
SYMMETRY PktSymmetry
CHECK_DEADLOCK FALSE
INVARIANTS
    TypesOK
    CursorAlive
    RoundHasAlarm
    TwoAfterRto
    NothingOverdue
    RepackIsSuffix
    NumbersConsecutive
    WireNumber
    PoisonApart
PROPERTY FirstImplementsPacketLife
