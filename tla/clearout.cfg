\* clearout run while a process is at work.
SPECIFICATION Spec
CONSTANTS
    Proc = {p1, p2}
    NA = 2
    NB = 1
    Guest = {g1}
    Empty = Empty
    Blank = Blank
    None = None
    MaxClear = 1
    MaxKill = 0
    Alone = FALSE
INVARIANT ClearoutSeparates
CHECK_DEADLOCK FALSE
