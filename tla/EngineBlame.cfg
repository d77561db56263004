SPECIFICATION Spec
CONSTANTS
  c1 = c1
  c2 = c2
  r1 = r1
  Conns <- MCConns
  Reqs = {}
  MaxInchoate = 0
  FirstAlloc = 1
  MinBatch = 2
  MaxBatch = 2
  FirstBatch = 2
  MaxIov = 3
  MaxEvConns = 1
  MaxParties = 2
  MaxPackets = 2
  Faults = {"fatal", "msgsize"}
INVARIANT CulpritClosed
CHECK_DEADLOCK FALSE
