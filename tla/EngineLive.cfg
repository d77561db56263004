SPECIFICATION LiveSpec
CONSTANTS
  c1 = c1
  c2 = c2
  r1 = r1
  Conns <- MCConns
  Reqs = {}
  MaxInchoate = 0
  FirstAlloc = 1
  MinBatch = 1
  MaxBatch = 1
  FirstBatch = 1
  MaxIov = 3
  MaxEvConns = 1
  MaxParties = 2
  MaxPackets = 1
  Faults = {"again"}
PROPERTIES TickableTicked ClosedDestroyed
CHECK_DEADLOCK FALSE
