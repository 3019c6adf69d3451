CONSTANTS
    Tasks = {t1}
    Lanes = {l1}
    Engines = {e1, e2}
    NoLane = NoLane
    NoJob = NoJob
    DependsOn <- NoDependencies
    MaxAttempts = 2
    MaxRetries = 1
    MaxReclaims = 1
    AutoAttempts = 6
SYMMETRY Symmetry
CONSTRAINT Explored
SPECIFICATION EngineSpec
INVARIANTS EngineTypeOK PromptsAccountedFor CompletedOnlyWhenDone
