SPECIFICATION Spec
CONSTANTS
    r = r
    c = c
    h1 = h1
    h2 = h2
    Root = r
    Children = {c}
    Heads = {r}
    Host = {h1, h2}
    MaxSeq = 3
    MaxTx = 3
    MaxFaults = 1
    FileOnly = TRUE
SYMMETRY Symmetry
INVARIANTS TypeOK Whole Quiet FencesOwned
PROPERTIES Final Atomically
CHECK_DEADLOCK FALSE
