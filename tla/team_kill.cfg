\* Every command on one small run: two adoptions race for a pane, a kill or an
\* adoption may die between two steps, panes exit and others prompt agents.
CONSTANTS
    Spawned = {w1}
    Trees = {}
    Adoptable = {a, b}
    Panes = {p1}
    UserPanes = {u}
    Spawners = {s1}
    Killers = {k1}
    Adopters = {x, y}
    Faults = {"exit", "prompt"}
    Mortal = {"kill", "adopt"}
    None = None
    Everyone = Everyone
    Missing = Missing
    Refused = Refused
SPECIFICATION Spec
\* The system stops when all commands are done.
CHECK_DEADLOCK FALSE
VIEW WhatStepsRead
SYMMETRY Interchangeable
INVARIANTS OnePanePerWorker
PROPERTIES KeepsRoster KillAccounts
