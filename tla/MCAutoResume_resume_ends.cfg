SPECIFICATION FairSpec
CONSTANTS
  d1 = d1  d2 = d2
  Step = {d1, d2}
  MaxTask = 2
  MaxAttempts = 2
  MaxHostFailures = 2
  MaxEvents = 2
  MaxFaults = 1
INVARIANTS OneAttempt
PROPERTIES DisposesOnce StaleNeverCreates Resolves
CHECK_DEADLOCK FALSE
