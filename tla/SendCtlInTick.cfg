\* A stream is reset from within the tick, after packets were scheduled in it.
SPECIFICATION Spec
CONSTANTS
    p1 = p1
    p2 = p2
    p3 = p3
    Pkt = {p1, p2, p3}
    Spaces = {"app"}
    MaxNo = 5
    Modulus = 16
    ReordThresh = 0
    NewKinds = {"stream"}
    Needs = {1}
    Cwnd = 4
    Gaps = {1}
    MaxResets = 1
    Events = {"intick"}
SYMMETRY PktSymmetry
CHECK_DEADLOCK FALSE
INVARIANT
    NumbersConsecutive
