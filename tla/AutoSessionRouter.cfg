\* One guard for two sessions, so that guards evict; every wait ends.
SPECIFICATION FairSpec
CONSTANTS
    Targets = {t1, t2}
    Sessions = {s1, s2}
    Contexts = {c1}
    Callers = {k1, k2}
    NoTarget = NoTarget
    NoSession = NoSession
    NoContext = NoContext
    Chunked = TRUE
    MaxDetachedSessionGuards = 1
INVARIANTS
    WaitersKept
PROPERTIES
    TablesFollowBrowser
    AttachReturnsServing
    WaitsSettledBySession
    EveryWaitEnds
