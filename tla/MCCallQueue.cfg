\* Two schedulers, one direct caller and two goroutines to spawn.
SPECIFICATION FairSpec
CONSTANTS
  t1 = t1
  t2 = t2
  s1 = s1
  s2 = s2
  c1 = c1
  r1 = r1
  r2 = r2
  Nothing = Nothing
  Threads = {t1, t2}
  Priorities = {1}
  Schedulers = {s1, s2}
  Callers = {c1}
  Runners = {r1, r2}
INVARIANTS OnePerThread MarkHasWorker
PROPERTIES OverdueSpawned WaitingCallIsMade
