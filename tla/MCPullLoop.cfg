\* Threads are deleted and added, logs are learned of, the store fails and the
\* host is closed. Then startPulling ends, or is left blocked in Add.
CHECK_DEADLOCK FALSE
SPECIFICATION FairSpec
CONSTANTS
  t1 = t1
  t2 = t2
  p1 = p1
  p2 = p2
  PeersOf <- SharedWith
  Volatile = {t2}
  NoPack = NoPack
  Threads = {t1, t2}
  Peers = {p1, p2}
  MaxPackSize = 2
  InBufSize = 1
  OutBufSize = 1
  Events = {"delete", "log", "error", "close"}
INVARIANTS TypeOK PackFits
PROPERTIES AcceptedIsExchanged PulledWhileRunning
