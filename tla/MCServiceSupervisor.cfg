SPECIFICATION FairSpec
CHECK_DEADLOCK FALSE
CONSTANTS
    infra = infra
    api = api
    Service = {infra, api}
    Order <- MCOrder
    Dependencies <- MCDependencies
    Maximum = 1
    MaxGeneration = 2
    MaxRequests = 2
INVARIANTS StatesAreBacked
PROPERTIES HandlesAreKept EveryOperationEnds

