\* A team of two that is spawned and resumed, one process at a time; any step may
\* be the last of a process, any Herdr call may fail, panes exit on their own and
\* the god pane closes.
CONSTANTS
    Spawned = {w1, w2}
    Trees = {w1}
    Adoptable = {}
    Panes = {p1, p2, p3}
    UserPanes = {}
    Spawners = {s1}
    Killers = {}
    Adopters = {}
    Faults = {"exit", "god"}
    Mortal = {"spawn", "hook"}
    None = None
    Everyone = Everyone
    Missing = Missing
    Refused = Refused
SPECIFICATION Spec
\* The system stops when all commands are done.
CHECK_DEADLOCK FALSE
SYMMETRY Interchangeable
INVARIANTS RunningBriefed BriefedOnce LaunchAfterAllocation StartsFromSoundTeams
