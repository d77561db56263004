\* A fake loss record is in flight
SPECIFICATION Spec
CONSTANTS
    p1 = p1
    p2 = p2
    Pkt = {p1, p2}
    Spaces = {"app"}
    MaxNo = 4
    Modulus = 16
    ReordThresh = 0
    NewKinds = {"stream"}
    Needs = {1}
    Cwnd = 2
    Gaps = {1}
    MaxResets = 0
    Events = {}
SYMMETRY PktSymmetry
CHECK_DEADLOCK FALSE
INVARIANT
    SanityCheckCount
