CONSTANTS
    Tasks = {t1}
    Lanes = {l1}
    NoLane = NoLane
    DependsOn <- NoDependencies
    MaxAttempts = 2
    AutoAttempts = 6
    v1 = v1
    Verifiers = {v1, v2}
    Nobody = Nobody
    Implementer <- ByV1
    Fallback <- HoldAll
    MaxClaims = 2
SPECIFICATION VerifySpec
INVARIANTS VerifyTypeOK PassMeansCompleted VerdictByNamedVerifier
