CONSTANTS
    MaxHandoffs = 2
    MaxBatches = 1
    MaxFaults = 1
    Loop = Loop
    Tools = {tool}
SPECIFICATION FairSpec
INVARIANTS IntegrationTypeOK ReworkHasOwner BatchedWasTested
PROPERTIES OnlyTheOvertakenInterfere 
