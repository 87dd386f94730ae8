\* Two endpoints, a socket that closes late beside its successor, one termination.
CONSTANTS
    Endpoints = {a, b}
    Default = a
    None = none
    MaxSockets = 2
    MaxCommands = 1
    MaxTerminations = 1
SPECIFICATION FairSpec
INVARIANTS
    OneConnection
    AnswersReturn
PROPERTIES
    ConnectsAgain
