\* Puts with and without counters, no fault that interrupts a record.
CONSTANTS
  Putters = {p1, p2}
  Nobody = Nobody
  MaxRec = 4
  AppConnected = TRUE
  CanRead = TRUE
  LegacyPeers = TRUE
  Faults = {"read", "reject", "sethead", "bus"}
SPECIFICATION Spec
SYMMETRY PutterSymmetry
INVARIANTS CounterExact AppliedInOrder NothingSkipped
PROPERTY HeadMovesByOne
