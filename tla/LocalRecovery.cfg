\* What the refresh must repair: missed exits, processes that are lost, a load
\* that stale copies, a failed save or a restart made wrong.
SPECIFICATION FairSpec

CONSTANTS
  t1 = t1
  b1 = b1
  Tasks = {t1}
  BusSlots = {b1}
  NoTask = NoTask
  WorkUnits = 1
  Capacity = 1
  RemoveCodes = {}
  Disturbances = {"kill", "crash", "faults"}
  MaxTroubles = 1

PROPERTIES
  MissedExitIsCaught
  LostTaskIsSwept
  LoadConverges
  StartIsAnswered
