\* One process that dies and is started again, on a database of an old release.
SPECIFICATION Spec
CONSTANTS
    Processes = {q1}
    MaxStarts = 2
INVARIANT
    ServesWithIndexes
CHECK_DEADLOCK FALSE
