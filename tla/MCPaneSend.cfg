CONSTANTS
    Attempts = {a1, a2, a3}
    Owners = {a1, a2, a3}
    NoOwner = NoOwner
    Panes = {p1}
    Keys = {k1}
    NoKey = NoKey
    LeaseTTL = 4
    PruneGrace = 1
    LockWait = 2
    WaitMax = 1
    SendMax = 2
    ClaimStale = 6
    MaxTime = 9
SYMMETRY AttemptSymmetry
SPECIFICATION Spec
INVARIANTS TypeOK PaneExclusive ClaimsAreSpaced
PROPERTY AnsweredKeyIsClosed
