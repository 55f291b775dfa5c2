SPECIFICATION Spec
CONSTANTS
    N = 2
    Edges <- MCEdges
    NeedsApproval <- MCNeedsApproval
    User = {u1}
    Handler = {h1, h2}
    MaxJobs = 2
    RetryLimit = 1
    MaxFaults = 1
    MaxErrors = 1
SYMMETRY MCHandlers
INVARIANTS
    ExecutionsAgree
    EffectsAreLicensed
    QueuedRunIsInHand
PROPERTIES
    FinishedStaysFinished
CHECK_DEADLOCK FALSE
