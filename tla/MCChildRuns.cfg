SPECIFICATION ChildSpec
CONSTANTS
    Root = Root
    Child = {c1, c2}
    Message = {m1, m2}
    MaxConcurrent = 1
    MaxTotal = 2
    MaxDepth = 2
    MaxLoad = 4
    None = None
SYMMETRY Symmetry
INVARIANTS
    BudgetIsExact
    MailIsDeliveredInOrder
    FinishedChildIsAnnounced
