-------------------------- MODULE MCServerCommands --------------------------
(***************************************************************************)
(* Instances of ServerCommands for TLC: a method of a native domain and a  *)
(* custom one, and routes that set a default anew, or add a method before  *)
(* and after its domain.                                                   *)
(***************************************************************************)
EXTENDS ServerCommands, TLC

MCDomainOf == [m \in Methods |-> IF m = "Custom.x" THEN "Custom.*" ELSE "Page.*"]
MCUserRoutes ==
    {<<Entry("Page.enable", "loopback_cdp"), Entry("Page.*", "chrome_debugger")>>,
     <<Entry("Page.*", "auto"), Entry("Page.enable", "loopback_cdp"), Entry("Custom.*", "auto")>>}

\* Bounds: one registration beside what the worker starts with; and calls and events,
\* which share only the registries, are explored apart.
OneRegistration ==
    Cardinality(commandHandlers \ BuiltIn) + Len(middlewares["request"])
      + Len(middlewares["response"]) + Len(middlewares["event"]) <= 1
Apart ==
    \/ arrived = <<>> /\ middlewares["event"] = <<>>
    \/ /\ \A c \in Calls : call[c].at = "idle"
       /\ commandHandlers = BuiltIn /\ ~loopback_cdp_url /\ Len(routes) = 2
CallSymmetry == Permutations(Calls)
=============================================================================
