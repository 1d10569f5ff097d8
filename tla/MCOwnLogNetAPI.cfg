\* Two concurrent CreateRecord calls of the network API.
CONSTANTS
  Writers = {w1, w2}
  Nobody = Nobody
  Serialized = FALSE
  HostIdentity = FALSE
  MaxRec = 3
  MaxLogs = 2
  Faults = {}
SPECIFICATION Spec
CHECK_DEADLOCK FALSE
PROPERTY AppendOnly
