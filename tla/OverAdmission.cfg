\* Room for two tasks, and three requests.  (violation)
SPECIFICATION Spec

SYMMETRY Symmetry

CONSTANTS
  t1 = t1
  t2 = t2
  t3 = t3
  Tasks = {t1, t2, t3}
  BusSlots = {}
  NoTask = NoTask
  WorkUnits = 1
  Capacity = 2
  RemoveCodes = {}
  Disturbances = {}
  MaxTroubles = 0

INVARIANTS
  WithinCapacity
