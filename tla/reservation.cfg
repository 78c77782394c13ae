\* Two processes, one of which may be killed, and a clearout between uses.
SPECIFICATION Spec
CONSTANTS
    Proc = {p1, p2}
    NA = 2
    NB = 1
    Guest = {g1}
    Empty = Empty
    Blank = Blank
    None = None
    MaxClear = 1
    MaxKill = 1
    Alone = TRUE
INVARIANTS TypeOK MutualExclusion
PROPERTIES StatusIsASnapshot ImplementsTableBook SomeoneIsServed
CHECK_DEADLOCK FALSE
