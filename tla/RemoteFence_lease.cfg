SPECIFICATION Spec
CONSTANTS
  c1 = c1  c2 = c2
  l1 = l1  l2 = l2  l3 = l3
  Client = {c1, c2}
  Lease = {l1, l2, l3}
  Ttl = 3
  Heartbeat = 1
  Missed = 1
  Jitter = 1
  Horizons = {2}
  MaxFuture = 3
  MaxAttempts = 2
  Prior <- PriorRecords
  MaxTime = 4
  MaxLate = 1
SYMMETRY Symmetry
INVARIANTS HorizonCovered
PROPERTIES PeerSafe WindowsExclusive
CHECK_DEADLOCK FALSE
