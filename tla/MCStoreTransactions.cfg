CONSTANTS
    Tasks = {t1}
    Plain = {p1, p2}
    Locked = {c1, c2}
    NoCaller = NoCaller
SYMMETRY Symmetry
\* All tasks may reach a terminal status.
CHECK_DEADLOCK FALSE
SPECIFICATION Spec
INVARIANTS TypeOK LockedSeesCurrent
PROPERTY OnlyTheOvertakenStray
