SPECIFICATION FairSpec
CHECK_DEADLOCK FALSE
CONSTANTS
    r1 = r1
    r2 = r2
    sub = sub
    push = push
    get = get
    Run = {r1, r2}
    Capture = {sub, push, get}
    RunOf <- MCRunOf
    Origin <- MCOrigin
    Updates <- MCUpdates
    MaxSlots = 3
INVARIANTS StreamIsConsistent NothingSentUnauthorized
PROPERTIES NothingIsHeldUp
