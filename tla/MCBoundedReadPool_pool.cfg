SPECIFICATION FairSpec
CONSTANTS
    Caller = {c1, c2, c3}
    Key = {k1, k2, k3}
    Concurrency = 1
    MaxQueued = 1
    MaxSubs = 2
    MaxRun = 4
INVARIANTS TypeOK OneRun Slots NeverAborted
PROPERTIES CallsEnd
CHECK_DEADLOCK FALSE
