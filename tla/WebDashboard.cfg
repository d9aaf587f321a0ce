\* One page, reloaded once, and clicks in others: two requests in flight, one lost.
SPECIFICATION FairSpec
CONSTANTS
  s1 = s1  s2 = s2
  Slots = {s1, s2}
  Windows = {"1h", "24h"}
  DefaultTab = "1h"
  Intervals = {"1000", "5000"}
  DefaultInterval = "1000"
  MaxVersion = 1
  MaxLost = 1
  MaxReloads = 1
INVARIANTS TypeOK OneTimer ButtonIsFilter TabIsWindow
PROPERTY ShowsLatest
