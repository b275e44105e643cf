SPECIFICATION Spec
CONSTANTS
    r = r
    c = c
    h1 = h1
    h2 = h2
    Root = r
    Children = {c}
    Heads = {r, c}
    Host = {h1}
    MaxSeq = 3
    MaxTx = 3
    MaxFaults = 0
    FileOnly = FALSE

INVARIANTS FilesFollowChat

CHECK_DEADLOCK FALSE
