\* Two drains and two senders, with any number of crashes, file errors and
\* slow deliveries.
CONSTANTS
    Msgs = {m1, m2}
    Drains = {d1, d2}
    MaxSeq = 2
    Faults = {"crash", "io", "age"}
    Target = "worker"
    None = None
    Empty = Empty
    Asked = Asked
    Other = Other
    Unset = Unset
SPECIFICATION Spec
VIEW WhatSafetyReads
SYMMETRY Interchangeable
INVARIANTS TypeOK NoLoss ExclusiveClaim NoResubmission InOrder
