\* Two writing processes and a CLI query, each with its own connection.
SPECIFICATION FairSpec
CONSTANTS
  web = web  daemon = daemon  cli = cli
  w1 = w1  w2 = w2  r1 = r1  r2 = r2
  Conns = {web, daemon, cli}
  Writers = {w1, w2}
  Readers = {r1}
  ConnOf <- SeparateConns
  Batches = {b1, b2, b3}
  BatchSize = 2
  NoBatch = NoBatch
  QueriesMayFail = TRUE
INVARIANT NothingLeftOpen
PROPERTIES ImplementsBatchStore InsertsEnd
