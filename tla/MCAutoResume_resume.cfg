SPECIFICATION Spec
CONSTANTS
  d1 = d1  d2 = d2
  Step = {d1}
  MaxTask = 3
  MaxAttempts = 1
  MaxHostFailures = 1
  MaxEvents = 2
  MaxFaults = 1
INVARIANTS TypeOK OneFollowUp Driven LineageBudget
CHECK_DEADLOCK FALSE
