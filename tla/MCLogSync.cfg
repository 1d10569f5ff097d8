\* Two hosts that both write, two records and one failure of any kind.  The
\* pulling cycle of either host, or of both, returns at any time.
\* A host that failed to join knows nobody and has nothing left to do.
SPECIFICATION FairSpec
CHECK_DEADLOCK FALSE
CONSTANTS
  a = a
  b = b
  Hosts = {a, b}
  Creator = a
  Writers = {a, b}
  MaxRec = 2
  MaxExchanges = 1
  MaxPulls = 1
  MaxWaiting = 1
  MaxFailures = 1
  PullingLimit = 10
  Faults = {"push", "exchange", "repeat", "put", "request", "crash"}
  Quitters = {a, b}
INVARIANTS TypeOK NothingInvented
PROPERTIES NothingForgotten Converges
