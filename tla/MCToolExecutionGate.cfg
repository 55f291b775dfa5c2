SPECIFICATION FairGateSpec
CHECK_DEADLOCK FALSE
CONSTANTS
    agent = agent
    write = write
    read1 = read1
    read2 = read2
    inner1 = inner1
    inner2 = inner2
    inner3 = inner3
    Call = {agent, write, read1, read2}
    NestedCall = {inner1, inner2, inner3}
    ParentOf <- Inners
    Exclusive = {agent, write, inner1, inner2, inner3}
INVARIANTS
    LeasesAreConsistent
PROPERTIES
    ImplementsOrderedAdmission
    EveryCallSettles
