\* Three commands, one without a timeout, over each transport and two peers that replace each other.
SPECIFICATION FairSpec
CONSTANTS
    Calls = {k1, k2, k3}
    Timed = {k1, k2}
    NoCall = NoCall
    Peers = {p1, p2}
    NoPeer = NoPeer
    Modes = {"ws", "pipe", "reversews", "nativemessaging", "nats"}
\* A closed client whose calls are all settled has nothing left to do.
CHECK_DEADLOCK FALSE
PROPERTIES
    RejectedForAReason
    ImplementsCommandCalls
    TimedCallsSettle
