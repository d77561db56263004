SPECIFICATION Spec
CONSTANTS
  c1 = c1
  c2 = c2
  r1 = r1
  Conns <- MCConns
  Reqs <- MCReqs
  MaxInchoate = 1
  FirstAlloc = 1
  MinBatch = 1
  MaxBatch = 2
  FirstBatch = 2
  MaxIov = 3
  MaxEvConns = 1
  MaxParties = 2
  MaxPackets = 2
  Faults = {"again", "fatal", "msgsize", "enc", "deadline"}
INVARIANTS TypeOK RefsAgree PacketsOnce NothingStranded EvanescentCounted
SYMMETRY ConnSymmetry
CHECK_DEADLOCK FALSE
