SPECIFICATION FileSpec
CHECK_DEADLOCK FALSE
CONSTANTS
    t1 = t1
    t2 = t2
    f1 = f1
    f2 = f2
    f3 = f3
    r1 = r1
    o1 = o1
    o2 = o2
    None = None
    Thread = {t1, t2}
    File = {f1, f2, f3}
    Reference = {r1}
    Object = {o1, o2}
    Worker = {w1, w2}
    ThreadOf <- Threads
    SourceOf <- Sources
    ContentOf <- Contents
    CloneOf <- Clones
SYMMETRY Symmetry
INVARIANTS
    ReferencedObjectsExist
    OnlyLeftoversBreakIntegrity
    CoordinatorNeverStalls
