\* Two tasks of which one fits, one bus event in handling besides the refresh.
\* Nothing is disturbed; what goes out of order, by a refresh that overlooks a
\* start or by two handlers that stamp the same row, is not followed further.
SPECIFICATION LoadSpec
SYMMETRY Symmetry
CONSTRAINT InOrder

CONSTANTS
  t1 = t1
  t2 = t2
  b1 = b1
  Tasks = {t1, t2}
  BusSlots = {b1}
  NoTask = NoTask
  WorkUnits = 1
  Capacity = 1
  RemoveCodes = {}
  Disturbances = {}
  MaxTroubles = 0

INVARIANTS
  CapacityKept
  LoadConsistent
