\* Two commands, two sessions that attach to a page or to the worker.
CONSTANTS
    MaxCommands = 2
    PageSessions = {p1}
    Orphans = {o1}
    ExtSession = ext
    Page = page
    Worker = worker
    Root = root
    OwnId = 1
    FirstId = 10
    MaxChannel = 2
    MaxUnseen = 1
    ForwardMirrored = FALSE
SPECIFICATION Spec
CHECK_DEADLOCK FALSE
INVARIANTS
    AnswersSteered
    OrderKept
    WorkerHidden
    FanoutToAttached
