\* One lifespan: start, stop at any moment, filter changes, failing inserts.
SPECIFICATION FairSpec
CONSTANTS
  m1 = m1  m2 = m2  m3 = m3  curl = curl  dig = dig
  Metrics = {m1, m2, m3}
  PidOf <- PidsOf3
  DirOf <- DirsOf3
  ProtoOf <- ProtosOf3
  MaxThreads = 1
  MaxChanges = 1
  InsertMayFail = TRUE
  QueryMayFail = TRUE
INVARIANTS TypeOK SessionMatchesInserts RatesOfBatch
PROPERTIES TotalsNeverDecrease UsesFlowSource CatchesUp StopEnds
CHECK_DEADLOCK FALSE
