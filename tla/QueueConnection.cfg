\* Two sends that overlap, with two troubles of any kind.  At most three names are
\* in use when a connection is made: connection, channel and the other call's.
SPECIFICATION FairSpec

CONSTANTS
  c1 = c1
  c2 = c2
  k1 = k1
  k2 = k2
  k3 = k3
  k4 = k4
  Callers = {c1, c2}
  Conns = {k1, k2, k3, k4}
  None = None
  Disturbances = {"down", "close"}
  MaxTroubles = 2

INVARIANT FailsOnlyInTrouble

PROPERTIES
  ChannelDiesUnstored
  SendReturns
  Recovers
  DeadStaysDead
