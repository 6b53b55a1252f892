CONSTANTS
    Workers = {w1}
    God = God
    Hooks = {h1, h2}
    MaxEvents = 4
    MaxRaises = 1
    Faults = {"fail", "move"}
    None = None
SPECIFICATION HookSpec
SYMMETRY Interchangeable
\* Every event has been handled, or the run has ended.
CHECK_DEADLOCK FALSE
INVARIANTS GatesAnswered MetadataAgrees OnePointerEach
PROPERTY KeepsNotices
