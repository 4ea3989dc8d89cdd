\* The refresh and one bus event report the same exit.  (violation)
SPECIFICATION Spec

CONSTANTS
  t1 = t1
  b1 = b1
  Tasks = {t1}
  BusSlots = {b1}
  NoTask = NoTask
  WorkUnits = 0
  Capacity = 1
  RemoveCodes = {}
  Disturbances = {}
  MaxTroubles = 0

PROPERTIES
  RecordedResultKept
