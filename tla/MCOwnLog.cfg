\* Transactions of a database under the identity of the host, whose log may be
\* stored without being indexed; the numbers of records and logs are bounded.
CONSTANTS
  Writers = {w1, w2, w3}
  Nobody = Nobody
  Serialized = TRUE
  HostIdentity = TRUE
  MaxRec = 4
  MaxLogs = 2
  Faults = {"invalid", "store", "bus", "push", "dispatch", "crash"}
SPECIFICATION Spec
CHECK_DEADLOCK FALSE
SYMMETRY WriterSymmetry
INVARIANTS OneLog CounterIsLength PushedAtItsPlace LoggedIsDispatched
  DispatchedInLogOrder
PROPERTY AppendOnly
