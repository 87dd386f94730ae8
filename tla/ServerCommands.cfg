\* Two commands of two methods, one debuggee, an attach and a later event.
CONSTANTS
    Calls = {c1, c2}
    Methods = {"Page.enable", "Custom.x"}
    Domains = {"Page.*", "Custom.*"}
    DomainOf <- MCDomainOf
    Every = "*"
    ModDomains = {"Custom.*"}
    BuiltIn = {}
    UserRoutes <- MCUserRoutes
    Debuggees = {d1}
    Attaches = {e1}
    Plain = {e2, e3}
    MaxMiddlewares = 1
SPECIFICATION Spec
CONSTRAINTS
    OneRegistration Apart
SYMMETRY CallSymmetry
CHECK_DEADLOCK FALSE
INVARIANTS
    RunsOnce
    AttachedUnlessDetached
    RoutesAgree
    OvertakesOnlyWaiting
