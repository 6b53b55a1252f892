CONSTANTS
    Agents = {a1, a2}
    Boards = {b1, b2}
    None = None
    Absent = Absent
    Malformed = Malformed
    LOCK_RETRY_ATTEMPTS = 2
    MaxNudges = 1
    MaxMessages = 1
    MaxChanges = 1
SPECIFICATION Spec
\* A board may quit or die and nothing is left to happen.
CHECK_DEADLOCK FALSE
SYMMETRY Interchangeable
VIEW WhatTheBoardsRead
INVARIANT ChosenUnlessShifted
PROPERTIES KeepsMailboxes SentOrSaid
