SPECIFICATION Spec
CONSTANTS
    Input = {i1, i2, i3}
    Lease = {l1, l2}
    Request = {r1, r2}
    Claim = {k1, k2}
    Content = {c1, c2}
    None = None
SYMMETRY Symmetry
INVARIANTS
    RowsMatchLease
    IncludedInExactlyOneRequest
    ClaimIsExact
PROPERTIES
    RequestClosedByCheckpoint
    ClaimSealsMailbox
    ImplementsOrderedDelivery
