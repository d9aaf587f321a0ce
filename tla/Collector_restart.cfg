\* Two lifespans: start() after stop(), two collector threads on one session map.
SPECIFICATION Spec
CONSTANTS
  m1 = m1  m2 = m2  m3 = m3  curl = curl  dig = dig
  Metrics = {m1, m2}
  PidOf <- PidsOf2
  DirOf <- DirsOf2
  ProtoOf <- ProtosOf2
  MaxThreads = 2
  MaxChanges = 1
  InsertMayFail = TRUE
  QueryMayFail = TRUE
INVARIANTS OnePlace ShownWasInserted
CHECK_DEADLOCK FALSE
