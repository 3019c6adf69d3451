CONSTANTS
    Keys = {k1, k2, k3}
    Handled = {k1, k2}
    Consumers = {}
    MAX_ATTEMPTS = 1
    MaxSeq = 5
    MaxRetries = 0
    Drains = {d1, d2}
    BatchSize = 2
SYMMETRY Symmetry
SPECIFICATION CoordSpec
INVARIANTS CoordTypeOK NothingSkipped HeldOnlyWhenPaused
