\* One client, two peers: every wait, bridge and shutdown ends.
SPECIFICATION FairSpec
CONSTANTS
    Peers = {p1, p2}
    Clients = {c1}
    Commands = {m1}
    Sessions = {s1}
    NoPeer = NoPeer
    FirstReverseId = 0
CHECK_DEADLOCK FALSE
PROPERTIES
    ClientsNotStranded
    CloseEnds
