\* One of two threads may be deleted or get a new log; the other one stays.
SPECIFICATION FairSpec
CONSTANTS
  t1 = t1
  t2 = t2
  p1 = p1
  p2 = p2
  PeersOf <- SharedWith
  Volatile = {t2}
  NoPack = NoPack
  Threads = {t1, t2}
  Peers = {p1, p2}
  MaxPackSize = 2
  InBufSize = 1
  OutBufSize = 1
  Events = {"delete", "log"}
PROPERTY PulledAgain
