\* Four threads, so that an operation can leave from the middle of the list,
\* with the two priorities of net.go.
SPECIFICATION Spec
CONSTANTS
  t1 = t1
  t2 = t2
  t3 = t3
  t4 = t4
  Nil = Nil
  Threads = {t1, t2, t3, t4}
  Priorities = {1, 3}
INVARIANTS TypeOK Consistent
PROPERTY ImplementsFifo
