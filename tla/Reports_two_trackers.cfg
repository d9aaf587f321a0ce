\* Two trackers with probes: the daemon and the dashboard write one file.
SPECIFICATION Spec
CONSTANTS
  m1 = m1  m2 = m2  m3 = m3  curl = curl  dig = dig  daemon = daemon  web = web
  host = host  lo = lo  any = any  lan = lan  net = net
  Metrics = {m1, m2, m3}
  PidOf <- Pids3
  DirOf <- Dirs3
  ProtoOf <- Protos3
  CommOf <- Comms3
  PeerOf <- Peers3
  Host = host  Loopback = lo  AnyAddress = any
  Public = {net}
  Trackers = {daemon, web}
  FilterOf <- All
  Web = {web}
  Window = 1  TopLimit = 2  Start = 1  MaxTicks = 1  MaxSteps = 0  MaxFailed = 0
INVARIANT HistoryIsTraffic
CHECK_DEADLOCK FALSE
