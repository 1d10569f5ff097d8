\* The head is in the blockstore between puts.
CONSTANTS
  Putters = {p1, p2}
  Nobody = Nobody
  MaxRec = 3
  AppConnected = TRUE
  CanRead = TRUE
  LegacyPeers = FALSE
  Faults = {"handler"}
SPECIFICATION Spec
INVARIANT HeadInBlockstore
