\* Two clients, each with two commands, and two peers: sharing and replacement.
SPECIFICATION Spec
SYMMETRY Symmetry
CONSTANTS
    Peers = {p1, p2}
    Clients = {c1, c2}
    Commands = {m1, m2}
    Sessions = {s1}
    NoPeer = NoPeer
    FirstReverseId = 0
\* The proxy stops for good once close() has ended.
CHECK_DEADLOCK FALSE
INVARIANTS
    OneOpenPeer
    WaitOnlyWithoutPeer
    CommandsAccountedFor
    SoleClientOwnAnswers
