\* One task, one bus event in handling besides the refresh, a user's stops,
\* removals of cancelled and successful rows, the death of PM2, and one trouble: a
\* restart, or a save or a call to PM2 that fails.
SPECIFICATION Spec

CONSTANTS
  t1 = t1
  b1 = b1
  Tasks = {t1}
  BusSlots = {b1}
  NoTask = NoTask
  WorkUnits = 0
  Capacity = 1
  RemoveCodes = {2, 3}
  Disturbances = {"stop", "crash", "faults", "kill"}
  MaxTroubles = 1

INVARIANTS
  TypeOK
  RunningNotCompleted
  SuccessIsEarned
  ErrorIsEarned
  LiveProcessNotSwept
  RemovedOnlyAfterCompletionSaved
  AnnouncedFirst
  CompletedMeansStopped
  Consistent

PROPERTIES
  ForsakenRunsOn
  ImplementsLifecycle
