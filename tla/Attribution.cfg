\* Two PIDs that exec, exit and are reused while a batch is attributed; a
\* process, or a thread of it, has a name or the empty one.
SPECIFICATION Spec
CONSTANTS
  Pids = {p1, p2}
  Comms = {curl, noname}
  Empty = noname
  PidName = PidName
  NoProcess = NoProcess
  TTL = 2
  MaxTime = 3
  MaxFlows = 3
SYMMETRY Symmetry
INVARIANTS TypeOK NamedByLookups
CHECK_DEADLOCK FALSE
