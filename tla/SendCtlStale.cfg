\* Delayed packets are renumbered and then sent without a tick.
SPECIFICATION Spec
CONSTANTS
    p1 = p1
    p2 = p2
    Pkt = {p1, p2}
    Spaces = {"app"}
    MaxNo = 4
    Modulus = 16
    ReordThresh = 0
    NewKinds = {"stream"}
    Needs = {1}
    Cwnd = 2
    Gaps = {1}
    MaxResets = 1
    Events = {"delay", "unsent"}
SYMMETRY PktSymmetry
CHECK_DEADLOCK FALSE
INVARIANT
    WireNumber
