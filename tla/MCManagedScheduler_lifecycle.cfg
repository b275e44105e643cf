SPECIFICATION Spec
CONSTANTS
  t1 = t1  t2 = t2  r1 = r1  r2 = r2
  NoRun = NoRun  NoTask = NoTask
  Task = {t1}
  Run = {r1, r2}
  Gated = {}
  Timed = {t1}
  Waited = {}
  LateSaveError = FALSE
  MaxLease = 2
  MaxDue = 2
  MaxCrash = 1
  MaxSaveError = 1
  MaxCall = 1
INVARIANTS TypeOK LedgerAgrees ExecutionIsDurable OneLiveExecution DeadlineIsCurrent
PROPERTIES ImplementsLifecycle OwnerSettles OutcomeIsFinal StartsUnderLiveLease
SYMMETRY Symmetry
\* A drained scheduler is idle: it stops until the next submission.
CHECK_DEADLOCK FALSE
