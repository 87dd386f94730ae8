\* One worker of the extension and one of another; connect() is called twice.
CONSTANTS
    Targets = {w1, w2}
    Own = {w1}
    MaxAttempts = 2
    Configs <- SomeConfigs
SPECIFICATION MCFairSpec
CHECK_DEADLOCK FALSE
INVARIANTS
    PendingCanSettle
    TidyUseLeaksNothing
PROPERTIES
    ConnectedIsReady
    ConnectEnds
