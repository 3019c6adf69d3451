CONSTANTS
    Tasks = {t1}
    Plain = {p1, p2}
    Locked = {c1}
    NoCaller = NoCaller
CHECK_DEADLOCK FALSE
SPECIFICATION Spec
PROPERTY LifecycleKept
