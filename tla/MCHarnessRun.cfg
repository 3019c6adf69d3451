\* A critical run is a planned one whose checks alone never pass it.
CONSTANTS
    Modes = {"template", "planned"}
    MaxCalls = 2
    MaxIterations = 2
    InfraThreshold = 2
    MaxAttempts = 2
    MaxFaults = 1
SPECIFICATION FairSpec
INVARIANTS HarnessTypeOK BuildersAccountedFor EvaluatedIsBuilt MergeNeedsPass
PROPERTY RunSettles
CHECK_DEADLOCK FALSE
