CONSTANTS
    Shims = {s1, s2}
    Others = {other}
    Own = own
    MaxPanes = 2
    MaxId = 4
    MaxCalls = 4
    Faults = {"die", "human"}
    None = None
SPECIFICATION Spec
SYMMETRY Interchangeable
VIEW WhatTheShimsRead
\* Every call has been answered.
CHECK_DEADLOCK FALSE
INVARIANTS HeldResolves OneIdPerPane KilledIsGone ParsesInventory
