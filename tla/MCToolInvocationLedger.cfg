SPECIFICATION FairLedgerSpec
CHECK_DEADLOCK FALSE
CONSTANTS
    p1 = p1
    x1 = x1
    a1 = a1
    n1 = n1
    PlatformCall = {p1}
    ExtensionCall = {x1}
    AgentCall = {a1}
    InnerCall = {n1}
    OuterOf <- OneInner
    Guarded = {p1}
    MaxTopCalls = 2
INVARIANTS
    LedgerTypeOK
    PendingAreTheUnconfirmedCalls
    ResumableKnowsEveryEffect
    EffectAtMostOnce
    ConfirmedEffectsAreSaved
    GuardedEffectsAreApproved
PROPERTY RunningCallIsSettledOrEscalated
