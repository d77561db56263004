\* A packet goes through two turns of duplicates.
SPECIFICATION Spec
CONSTANTS
    p1 = p1
    p2 = p2
    Pkt = {p1, p2}
    Spaces = {"app"}
    MaxNo = 5
    Modulus = 16
    ReordThresh = 1
    NewKinds = {"stream"}
    Needs = {1}
    Cwnd = 3
    Gaps = {1}
    MaxResets = 0
    Events = {"delay"}
SYMMETRY PktSymmetry
CHECK_DEADLOCK FALSE
PROPERTY TurnStartsAtZero
