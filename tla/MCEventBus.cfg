CONSTANTS
    Keys = {k1, k2}
    Consumers = {c1, c2}
    MAX_ATTEMPTS = 2
    MaxSeq = 2
    MaxRetries = 1
SPECIFICATION BusSpec
INVARIANTS BusTypeOK DeliveryBudget
PROPERTY EverySettles
CHECK_DEADLOCK FALSE
