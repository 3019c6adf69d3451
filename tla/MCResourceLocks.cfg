CONSTANTS
    Owners = {o1, o2}
    NoOwner = NoOwner
    Projects = {p1}
    Names = {x, y}
    Operators = {q}
    Bundlers = {o2}
    TTL = 2
    Grace = 1
    LockWait = 1
    MaxTime = 4
    MaxOverrides = 1
SPECIFICATION LockSpec
INVARIANTS LockTypeOK OneHolder NoPartialHold
