SPECIFICATION FairSpec
CONSTANTS
    r = r
    c = c
    h1 = h1
    h2 = h2
    Root = r
    Children = {c}
    Heads = {r, c}
    Host = {h1}
    MaxSeq = 3
    MaxTx = 2
    MaxFaults = 2
    FileOnly = FALSE


PROPERTIES Settles
CHECK_DEADLOCK FALSE
