SPECIFICATION Spec
CHECK_DEADLOCK FALSE
CONSTANTS
    wide = wide
    narrow = narrow
    other = other
    third = third
    c1 = c1
    c2 = c2
    x = x
    y = y
    Mutation = {wide, narrow, other, third}
    Connection = {c1, c2}
    Resource = {x, y}
    ConnectionOf <- MCConnectionOf
    Keys <- MCKeys
    PerConnection = 2
    Process = 3
    PerResource = 2
INVARIANTS ConflictsRunInOrder
PROPERTIES RefusedNeverRuns ImplementsOrderedAdmission
