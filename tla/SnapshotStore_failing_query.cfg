\* As SnapshotStore_shared, where an API query may also raise.
SPECIFICATION Spec
CONSTANTS
  web = web  daemon = daemon  cli = cli
  w1 = w1  w2 = w2  r1 = r1  r2 = r2
  Conns = {web, daemon}
  Writers = {w1, w2}
  Readers = {r1, r2}
  ConnOf <- SharedConns
  Batches = {b1, b2}
  BatchSize = 3
  NoBatch = NoBatch
  QueriesMayFail = TRUE
SYMMETRY BatchSymmetry
INVARIANT AckedDurable
