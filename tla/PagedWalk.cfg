\* Three rows with three codes, pages of one and two rows, a connection without
\* a limit, every status, one removal.
SPECIFICATION FairSpec

CONSTANTS
  t1 = t1
  t2 = t2
  t3 = t3
  Tasks = {t1, t2, t3}
  Unknown = Unknown
  Success = Success
  Incomplete = Incomplete
  Codes = {Incomplete, Unknown, Success}
  NoStatus = NoStatus
  Limits = {0, 1, 2}
  DefaultLimit = 3
  MaxRemovals = 1

INVARIANTS
  WalkIsComplete

PROPERTY WalkEnds

\* every row may have been removed, and the walk be over
CHECK_DEADLOCK FALSE
