\* Two callers on one endpoint whose socket may be lost and dialled again.
SPECIFICATION FairSpec
CONSTANTS
    Callers = {k1, k2}
    Kinds = {"auto", "configure", "discover"}
    Endpoints = {e1}
    Local = e1
    Own = {e1}
    Sockets = {w1, w2}
    Targets = {t1}
    Worker = t1
    Sessions = {s1}
    NoEndpoint = NoEndpoint
    NoSocket = NoSocket
    NoTarget = NoTarget
    NoSession = NoSession
    Unresolved = Unresolved
    Forms = {t1, NoTarget}
CHECK_DEADLOCK FALSE
INVARIANTS
    OneSocketPerEndpoint
    PendingCanBeAnswered
    InitializedIsEnabled
PROPERTIES
    CallersEnd
