\* Two sends, one of whose connections is lost.  (violation)
SPECIFICATION FairSpec

CONSTANTS
  c1 = c1
  c2 = c2
  k1 = k1
  k2 = k2
  k3 = k3
  k4 = k4
  Callers = {c1, c2}
  Conns = {k1, k2, k3, k4}
  None = None
  Disturbances = {"close"}
  MaxTroubles = 1

PROPERTIES
  DeadChannelIsDropped
