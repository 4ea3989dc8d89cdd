\* One task, a user's stops, removals, jobs that LSF forgets, and two troubles: a
\* restart, or a failure of ssh, of a save or of the script.
SPECIFICATION FairSpec

CONSTANTS
  t1 = t1
  Tasks = {t1}
  NoTask = NoTask
  WorkUnits = 1
  Capacity = 1
  RemoveCodes = {2, 3}
  Disturbances = {"stop", "purge", "crash", "faults"}
  MaxTroubles = 2

INVARIANTS
  SuccessIsEarned
  ErrorIsEarned
  WedgedOnlyByLoss
  CompletedMeansEnded
  LiveJobNotSwept

PROPERTIES
  ResultIsKept
  ForsakenRunsOn
  ImplementsLifecycle
  EndIsNoticed
  LoadConverges
