CONSTANTS
    Panes = {p1, p2}
    MaxChanges = 2
    MaxWire = 2
    MAX_RECONNECTS = 3
SPECIFICATION FairSpec
\* A client that was refused has stopped.
CHECK_DEADLOCK FALSE
INVARIANT RetriesCapped
PROPERTY CatchesUp
