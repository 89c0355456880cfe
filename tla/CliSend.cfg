SPECIFICATION Spec
CONSTANTS
    a1 = a1
    a2 = a2
    Addrs = {a1, a2}
    NoAddr = NoAddr
    Own = Own
    Rooms <- MCRooms
    Workers = 1
    MaxEdits = 1
    ArgLists <- MCArgLists
    Pickers = {FALSE, TRUE}
    MaxPasses = 2
    Direct = TRUE
INVARIANTS AsksRight NothingOutlives StatusIsTrue
PROPERTY CommandEnds
CHECK_DEADLOCK FALSE
