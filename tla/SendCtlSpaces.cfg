\* First: two packet number spaces, one of which is dropped, and gaps in the
\* numbers for optimistic-ACK detection.  Second: everything that may befall
\* scheduled packets, sends without a tick, resets during the tick and both ways
\* to close.
SPECIFICATION MCSpec
CONSTANTS
    p1 = p1
    p2 = p2
    Modulus = 16
    Pkt = {p1, p2}
    Spaces = {"init", "app"}
    MaxNo = 4
    ReordThresh = 1
    NewKinds = {"hello", "ack"}
    Needs = {1}
    Cwnd = 2
    Gaps = {1, 2}
    MaxResets = 0
    Events = {"delay", "optack"}
    Pkt2 = {p1, p2}
    Spaces2 = {"app"}
    MaxNo2 = 4
    ReordThresh2 = 1
    NewKinds2 = {"stream", "probe"}
    Needs2 = {1}
    Cwnd2 = 2
    Gaps2 = {1}
    MaxResets2 = 1
    Events2 = {"delay", "unsent", "intick", "abort", "close"}
SYMMETRY PktSymmetry
CHECK_DEADLOCK FALSE
INVARIANTS
    ChainsAreWhole
    InFlightAccounting
    FlagsNameTheQueue
    RetxAlarmArmed
    SpacesApart
