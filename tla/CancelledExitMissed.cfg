\* A task is stopped and no event follows.  (violation)
SPECIFICATION FairSpec

CONSTANTS
  t1 = t1
  b1 = b1
  Tasks = {t1}
  BusSlots = {b1}
  NoTask = NoTask
  WorkUnits = 1
  Capacity = 1
  RemoveCodes = {}
  Disturbances = {"stop"}
  MaxTroubles = 0

PROPERTIES
  MissedExitIsCaught
