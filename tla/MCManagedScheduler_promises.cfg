SPECIFICATION FairSpec
CONSTANTS
  t1 = t1  t2 = t2  r1 = r1  r2 = r2
  NoRun = NoRun  NoTask = NoTask
  Task = {t1}
  Run = {r1, r2}
  Gated = {}
  Timed = {t1}
  Waited = {t1}
  LateSaveError = FALSE
  MaxLease = 2
  MaxDue = 2
  MaxCrash = 1
  MaxSaveError = 0
  MaxCall = 0
INVARIANTS NoLostWakeup NotifiedOutcomeIsDurable
PROPERTIES TimedSettles
\* A drained scheduler is idle: it stops until the next submission.
CHECK_DEADLOCK FALSE
