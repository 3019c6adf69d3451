CONSTANTS
    Tasks = {t1, t2}
    Lanes = {l1, l2}
    NoLane = NoLane
    DependsOn <- NoDependencies
    MaxAttempts = 1
    AutoAttempts = 6
SYMMETRY Symmetry
CONSTRAINT Explored
SPECIFICATION Spec
INVARIANTS TypeOK ResumeNeverRefused OneTaskPerExecutionSession
