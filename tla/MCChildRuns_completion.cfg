SPECIFICATION ChildSpec
CONSTANTS
    Root = Root
    Child = {c1, c2}
    Message = {m1, m2}
    MaxConcurrent = 1
    MaxTotal = 2
    MaxDepth = 2
    MaxLoad = 3
    None = None
SYMMETRY Symmetry
INVARIANT CompletionAgreesWithStatus
