\* A reply cut short by its sender reaches a replica that has gone further.
CONSTANTS
  Putters = {p1, p2}
  Nobody = Nobody
  MaxRec = 3
  AppConnected = TRUE
  CanRead = TRUE
  LegacyPeers = FALSE
  Faults = {"short"}
SPECIFICATION Spec
INVARIANT HeadCountsRecords
