CONSTANTS
    Panes = {p}
    LeadPane = p
    Texts = {t}
    Messages = {m}
    CONSUMED_TTL_MS = 1
    None = None
    Views = {v}
    Jumps = {j}
    MaxChanges = 1
    MaxClock = 1
    MaxKeys = 2
SPECIFICATION FocusSpec
VIEW WhatThePaneReads
\* The system stops when the pane is closed and the world at rest.
CHECK_DEADLOCK FALSE
INVARIANT ChosenUnlessMoved
PROPERTIES NothingSwallowed JumpsToMostUrgent
