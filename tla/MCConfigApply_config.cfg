SPECIFICATION FairSpec
CONSTANTS
  c1 = c1  c2 = c2  c3 = c3
  Call = {c1, c2}
  MaxRevision = 3
INVARIANTS TypeOK PendingIsRest ApplyingIsRunning
PROPERTIES WaitEnds
