\* A restart between the creation of a row and its first save.  (violation)
SPECIFICATION FairSpec

CONSTANTS
  t1 = t1
  Tasks = {t1}
  BusSlots = {}
  NoTask = NoTask
  WorkUnits = 1
  Capacity = 1
  RemoveCodes = {}
  Disturbances = {"crash"}
  MaxTroubles = 1

PROPERTIES
  AbandonedStartIsSwept
