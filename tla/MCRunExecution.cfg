SPECIFICATION FairRunSpec
CONSTANTS
    Input = {i1, i2}
    Lease = {l1, l2}
    Request = {1, 2, 3}
    Claim = {k1}
    Content = {1, 2, 3}
    None = None
INVARIANTS
    ExecutionTypeOK
    DeliveredAnswersSawEveryInput
    ExecutorFollowsLease
    SteeringWindowAgrees
PROPERTIES
    RunsComeToAnEnd
