\* One drain at a time, which dies finitely often and whose deliveries may fail.
CONSTANTS
    Msgs = {m1, m2}
    Drains = {d1}
    MaxSeq = 2
    Faults = {"crash", "age"}
    Target = "worker"
    None = None
    Empty = Empty
    Asked = Asked
    Other = Other
    Unset = Unset
SPECIFICATION FairSpec
VIEW WhatTheQueueReads
INVARIANT DeliversFaithfully
PROPERTIES KeepsMessages EventuallySubmitted
