\* The head's inner blocks are available between puts.
CONSTANTS
  Putters = {p1, p2}
  Nobody = Nobody
  MaxRec = 3
  AppConnected = TRUE
  CanRead = TRUE
  LegacyPeers = FALSE
  Faults = {"reject"}
SPECIFICATION Spec
INVARIANT HeadFullyAvailable
