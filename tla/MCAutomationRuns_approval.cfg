SPECIFICATION Spec
CONSTANTS
    N = 2
    Edges <- MCEdges
    NeedsApproval <- MCNeedsApproval
    User = {u1}
    Handler = {h1, h2}
    MaxJobs = 2
    RetryLimit = 2
    MaxFaults = 0
    MaxErrors = 0
INVARIANTS
    RefusedWhileRunning
CHECK_DEADLOCK FALSE
