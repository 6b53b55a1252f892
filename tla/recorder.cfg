CONSTANTS
    Mates = {}
    Lead = lead
    t1 = t1
    t2 = t2
    Tasks <- TwoTasks
    BlockedBy <- SecondWaitsForFirst
    QuietSecs = 1
    StalledSecs = 2
    InboxSecs = 1
    MaxAge = 2
    MaxChanges = 2
    Signals = {e1, e2}
    LeadSignals = {e2}
    Newline = Newline
    Faults = {"merge", "append", "restart", "truncate"}
    None = None
SPECIFICATION Spec
\* The recorder runs on, but the bounded world may stop.
CHECK_DEADLOCK FALSE
INVARIANTS LogIsCurrent DeltasChain SignalOnce SignalsKept
