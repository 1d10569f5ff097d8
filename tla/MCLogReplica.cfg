\* Two goroutines put overlapping chains of three records; every fault.
CONSTANTS
  Putters = {p1, p2}
  Nobody = Nobody
  MaxRec = 3
  AppConnected = TRUE
  CanRead = TRUE
  LegacyPeers = FALSE
  Faults = {"read", "reject", "sethead", "handler", "add", "bus", "crash"}
SPECIFICATION FairSpec
INVARIANTS TypeOK CounterExact AppliedInOrder BroadcastInOrder NothingSkipped
PROPERTIES HeadMovesByOne ImplementsPromise PutReturns
