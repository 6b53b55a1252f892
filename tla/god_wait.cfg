CONSTANTS
    Workers = {w1, w2}
    Waiters = {v1}
    Readers = {r1}
    MaxWrites <- TwiceByOne
    Faults = {"die", "timeout"}
    Absent = Absent
SPECIFICATION FairSpec
\* The system stops when every command is done.
CHECK_DEADLOCK FALSE
INVARIANTS DeadIsDead ReachedMeansReady ReadMeansSeen ReadsCommandLines
PROPERTY ReportEndsWait
