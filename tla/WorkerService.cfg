\* One task, two capacities, and two troubles: a restart, a lost socket, or a failure of
\* the first authenticate, of the queue's connect, of a save, a read or a transaction.
SPECIFICATION FairSpec

CONSTANTS
  t1 = t1
  Tasks = {t1}
  RemoveCodes = {3, 4}
  MaxTroubles = 2
  Capacities = {0, 1}

INVARIANTS
  InProgressIsHeld
  MarksAreUnstamped
  WedgedOnlyIfUndefined

PROPERTIES
  NothingIsSentAgain
  FailuresSettle
  ReportConverges
