SPECIFICATION Spec
CONSTANTS
  t1 = t1  t2 = t2  r1 = r1  r2 = r2
  NoRun = NoRun  NoTask = NoTask
  Task = {t1, t2}
  Run = {r1, r2}
  Gated = {t2}
  Timed = {}
  Waited = {}
  LateSaveError = FALSE
  MaxLease = 2
  MaxDue = 2
  MaxCrash = 0
  MaxSaveError = 0
  MaxCall = 0
INVARIANTS IInv
PROPERTIES StartsInOrder
SYMMETRY Symmetry
\* A drained scheduler is idle: it stops until the next submission.
CHECK_DEADLOCK FALSE
