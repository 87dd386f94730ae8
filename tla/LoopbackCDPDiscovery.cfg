\* One discovery of a browser that is not the worker's own, and commands.
SPECIFICATION Spec
SYMMETRY Symmetry
CONSTANTS
    Callers = {k1, k2}
    Kinds = {"auto", "loopback_cdp", "discover"}
    Endpoints = {e1}
    Local = e1
    Own = {}
    Sockets = {w1, w2}
    Targets = {t1}
    Worker = t1
    Sessions = {s1, s2}
    NoEndpoint = NoEndpoint
    NoSocket = NoSocket
    NoTarget = NoTarget
    NoSession = NoSession
    Unresolved = Unresolved
    Forms = {NoTarget, Unresolved}
CHECK_DEADLOCK FALSE
INVARIANTS
    SoleDiscoveryForgets
    MappedSessionsAttached
