--------------------------- MODULE ServerCommands ---------------------------
(***************************************************************************)
(* Commands and events in the extension's service worker                   *)
(* (src/js/src/server/ModCDPServer.ts): handleCommand takes each command   *)
(* through the request middlewares, to a custom handler or the upstream    *)
(* that the routes name, and back through the response middlewares;        *)
(* sendChromeDebugger attaches debuggees on the way; loopback events are    *)
(* published after the commands that an attached page needs. Commands and  *)
(* events overlap at every await, with each other and with configure() and *)
(* the registrations. What the loopback does with a command is             *)
(* LoopbackCDP's.                                                           *)
(***************************************************************************)
EXTENDS Integers, Sequences, FiniteSets

CONSTANTS
    Calls,         \* calls of handleCommand
    Methods, Domains, DomainOf, \* names, and the domain of a method
    Every,           \* the pattern "*" of middlewares, "*.*" of routes
    ModDomains,    \* the domains that the default routes send to service_worker
    BuiltIn,       \* methods with a handler from the start: Mod.ping, Mod.configure, ...
    UserRoutes,    \* server_routes that a client may configure, as sequences of entries
    Debuggees,     \* tabs and targets for chrome.debugger
    Attaches, Plain, \* loopback events: a page or frame is attached; any other
    MaxMiddlewares \* bound: registrations per phase

\* A table of routes, as Object.entries lists an object: no key comes twice. What a
\* route may name; a name of none of these is refused when it is used.
Routes == {"auto", "loopback_cdp", "chrome_debugger", "service_worker", "unknown"}
Entries == [pattern : Methods \cup Domains \cup {Every}, route : Routes]
Keyed(table) == \A i, j \in DOMAIN table : table[i].pattern = table[j].pattern => i = j

ASSUME CommandsAssumption ==
    /\ DomainOf \in [Methods -> Domains] /\ ModDomains \subseteq Domains
    /\ BuiltIn \subseteq Methods
    /\ Every \notin Methods \cup Domains /\ Methods \cap Domains = {}
    /\ Attaches \cap Plain = {} /\ MaxMiddlewares \in Nat
    /\ IsFiniteSet(ModDomains)
    /\ \A user \in UserRoutes : user \in Seq(Entries) /\ Keyed(user)

VARIABLES
    routes,        \* this.routes, as the sequence that Object.entries returns
    loopback_cdp_url, \* it is set
    commandHandlers,  \* names that have one: methods, or domains for "Domain.*"
    middlewares,   \* phase -> names, in the order registered
    call,          \* call -> its progress
    ran,           \* call -> where it was executed, in order
    attachedDebuggees,
    debugger,      \* debuggee -> who debugs it: "none", "worker" or "other"
    detached,      \* debuggees that the browser has detached from the worker
    event,         \* event -> its progress
    arrived, published \* events in these orders

commands == <<call, ran>>
debuggees == <<attachedDebuggees, debugger, detached>>
events == <<event, arrived, published>>
registries == <<routes, loopback_cdp_url, commandHandlers, middlewares>>
vars == <<registries, commands, debuggees, events>>

Phases == {"request", "response", "event"}
NoDebuggee == Every
Idle == [method |-> Every, at |-> "idle", left |-> <<>>, chained |-> FALSE, params |-> "none",
         route |-> "none", debuggee |-> NoDebuggee]
Covers(pattern, method) == pattern \in {method, DomainOf[method]}

\* registryMatch: the exact name, or the longest prefix, which is the domain's.
HasHandler(method) == \E pattern \in commandHandlers : Covers(pattern, method)

-----------------------------------------------------------------------------
(* Routes.                                                                 *)

\* { ...defaultRoutes, ...server_routes }: a key that is set again keeps its place.
Entry(pattern, route) == [pattern |-> pattern, route |-> route]
Has(table, pattern) == \E i \in DOMAIN table : table[i].pattern = pattern
RouteIn(table, pattern) == (CHOOSE e \in {table[i] : i \in DOMAIN table} : e.pattern = pattern).route
DefaultRoutes(order) ==
    [i \in DOMAIN order |-> Entry(order[i], "service_worker")] \o <<Entry(Every, "auto")>>
Orders == {o \in [1 .. Cardinality(ModDomains) -> ModDomains] :
             \A i, j \in DOMAIN o : o[i] = o[j] => i = j}
NewEntries(base, user) ==
    LET new[n \in 0 .. Len(user)] ==
          IF n = 0 THEN <<>>
          ELSE IF Has(base, user[n].pattern) THEN new[n - 1]
          ELSE Append(new[n - 1], user[n])
    IN  new[Len(user)]
Merged(base, user) ==
    [i \in DOMAIN base |-> IF Has(user, base[i].pattern)
                           THEN Entry(base[i].pattern, RouteIn(user, base[i].pattern))
                           ELSE base[i]] \o NewEntries(base, user)

\* What "*.*" names, or the default of who looks it up.
Otherwise(table, default) == IF Has(table, Every) THEN RouteIn(table, Every) ELSE default

BadRouteOf(method, table) ==
    LET hits == {i \in DOMAIN table : Covers(table[i].pattern, method) \/ table[i].pattern = Every}
    IN  IF hits = {} THEN "chrome_debugger"
        ELSE table[CHOOSE i \in hits : \A j \in hits : i <= j].route

\* The loop in handleCommand: the first pattern that covers the method, "*.*" last.
RouteOf(method, table) ==
    LET hits == {i \in DOMAIN table : Covers(table[i].pattern, method)}
    IN  IF hits = {} THEN Otherwise(table, "chrome_debugger")
        ELSE table[CHOOSE i \in hits : \A j \in hits : i <= j].route

\* routeFor of translate.ts, the rule of the clients: the exact name, else the longest
\* prefix, else "*.*".
RouteFor(method, table) ==
    IF Has(table, method) THEN RouteIn(table, method)
    ELSE IF Has(table, DomainOf[method]) THEN RouteIn(table, DomainOf[method])
    ELSE Otherwise(table, "direct_cdp")

-----------------------------------------------------------------------------
Init ==
    /\ \E o \in Orders : routes = DefaultRoutes(o)
    /\ loopback_cdp_url = FALSE
    /\ commandHandlers = BuiltIn
    /\ middlewares = [p \in Phases |-> <<>>]
    /\ call = [c \in Calls |-> Idle] /\ ran = [c \in Calls |-> <<>>]
    /\ attachedDebuggees = {} /\ detached = {}
    /\ debugger \in [Debuggees -> {"none", "other"}]
    /\ event = [e \in Attaches \cup Plain |-> [at |-> "none", waited |-> FALSE]]
    /\ arrived = <<>> /\ published = <<>>

\* Mod.configure of some client: routes are replaced, the loopback is found or lost.
Configure ==
    /\ \E user \in UserRoutes, o \in Orders : routes' = Merged(DefaultRoutes(o), user)
    /\ loopback_cdp_url' \in BOOLEAN
    /\ UNCHANGED <<commandHandlers, middlewares, commands, debuggees, events>>

\* addCustomCommand; a second registration of a name replaces the first.
AddCustomCommand(name) ==
    /\ commandHandlers' = commandHandlers \cup {name}
    /\ UNCHANGED <<routes, loopback_cdp_url, middlewares, commands, debuggees, events>>

AddMiddleware(phase, name) ==
    /\ Len(middlewares[phase]) < MaxMiddlewares
    /\ middlewares' = [middlewares EXCEPT ![phase] = Append(@, name)]
    /\ UNCHANGED <<routes, loopback_cdp_url, commandHandlers, commands, debuggees, events>>

-----------------------------------------------------------------------------
(* handleCommand.                                                          *)

Matching(phase, method) ==
    LET matches(name) == name \in {Every, method} IN SelectSeq(middlewares[phase], matches)

Elsewhere == UNCHANGED <<registries, debuggees, events>>

\* What runMiddleware does first: the chain is what is registered by now.
InChain(c, phase, m) ==
    [call[c] EXCEPT !.method = m, !.at = phase, !.left = Matching(phase, m),
                    !.chained = Matching(phase, m) # <<>>]

HandleCommand(c, m) ==
    /\ call[c].at = "idle"
    /\ call' = [call EXCEPT ![c] = InChain(c, "request", m)]
    /\ UNCHANGED ran /\ Elsewhere

\* A middleware calls next(), so that the one after it runs. A second next() of the
\* same middleware throws.
NextMiddleware(c) ==
    /\ call[c].at \in {"request", "response"} /\ call[c].left # <<>>
    /\ call' = [call EXCEPT ![c].left = Tail(@)]
    /\ UNCHANGED ran /\ Elsewhere

\* How a chain ends: with a value, when a middleware returns one or the innermost
\* value has come back; or some middleware returns nothing, or throws.
Endings(c) == IF call[c].chained THEN {"value", "nothing", "throws"} ELSE {"value"}

Upstream(route) ==
    CASE route = "auto" -> IF loopback_cdp_url THEN "loopback" ELSE "debugger"
      [] route = "loopback_cdp" -> "loopback"
      [] route = "chrome_debugger" -> "debugger"
      [] OTHER -> "rejected" \* No ModCDP command registered

Refuses(ending) == ending \in {"nothing", "throws"}

\* The request chain has ended; handler and route are looked up only now.
\* Parameters that the schema of the method refuses are rejected as well.
Dispatch(c) ==
    /\ call[c].at = "request"
    /\ LET m == call[c].method
           route == RouteOf(m, routes)
       IN  \E ending \in Endings(c), parses \in BOOLEAN :
             call' = [call EXCEPT
               ![c].left = <<>>,
               ![c].params = ending,
               ![c].route = IF HasHandler(m) THEN "handler" ELSE route,
               ![c].at = IF Refuses(ending) \/ ~parses THEN "rejected"
                         ELSE IF HasHandler(m) THEN "handler" ELSE Upstream(route)]
    /\ UNCHANGED ran /\ Elsewhere

Runs(c, where) == ran' = [ran EXCEPT ![c] = Append(@, where)]
Responds(c) == call' = [call EXCEPT ![c] = InChain(c, "response", @.method)]
Rejects(c) == call' = [call EXCEPT ![c].at = "rejected"]

HandlerEnds(c) ==
    /\ call[c].at = "handler" /\ Runs(c, "handler")
    /\ Responds(c) \/ Rejects(c)
    /\ Elsewhere

BadFallsBack(c) == TRUE

FallsBack(c) == call[c].route = "auto"

\* sendLoopback ends. A command that failed there may have been executed all the same.
LoopbackEnds(c) ==
    /\ call[c].at = "loopback"
    /\ \/ Runs(c, "loopback") /\ Responds(c)
       \/ /\ Runs(c, "loopback") \/ UNCHANGED ran
          /\ IF FallsBack(c) THEN call' = [call EXCEPT ![c].at = "debugger"] ELSE Rejects(c)
    /\ Elsewhere

\* The response chain ends: the caller gets what it returned, nothing included, or
\* an error, also for a result that the schema refuses.
Respond(c) ==
    /\ call[c].at = "response"
    /\ \E ending \in Endings(c), parses \in BOOLEAN :
         call' = [call EXCEPT ![c].left = <<>>,
                    ![c].at = IF ending = "throws" \/ ~parses THEN "rejected" ELSE "resolved"]
    /\ UNCHANGED ran /\ Elsewhere

-----------------------------------------------------------------------------
(* sendChromeDebugger.                                                     *)

DebuggerOnly == UNCHANGED <<registries, events>>

\* The debuggee that the parameters name, or that of the active tab, of some tab, or
\* of a tab created for it; or there is none.
ResolveDebuggee(c) ==
    /\ call[c].at = "debugger"
    /\ \/ Rejects(c)
       \/ \E d \in Debuggees :
            call' = [call EXCEPT ![c].debuggee = d,
                       ![c].at = IF d \in attachedDebuggees THEN "send" ELSE "attach"]
    /\ UNCHANGED <<ran, debuggees>> /\ DebuggerOnly

\* chrome.debugger.attach; "Another debugger is already attached", whoever it is, is
\* no failure.
Attach(c) ==
    /\ call[c].at = "attach"
    /\ LET d == call[c].debuggee IN
       \/ /\ debugger' = [debugger EXCEPT ![d] = IF @ = "none" THEN "worker" ELSE @]
          /\ call' = [call EXCEPT ![c].at = "enable"]
       \/ debugger[d] = "none" /\ Rejects(c) /\ UNCHANGED debugger
    /\ UNCHANGED <<ran, attachedDebuggees, detached>> /\ DebuggerOnly

BadEnabled(d) == debugger[d] # "none"

Enabled(d) == debugger[d] = "worker"

\* Target.setAutoAttach on the debuggee, which is refused where another debugs it.
Enable(c) ==
    /\ call[c].at = "enable"
    /\ LET d == call[c].debuggee IN
       \/ /\ Enabled(d)
          /\ attachedDebuggees' = attachedDebuggees \cup {d}
          /\ call' = [call EXCEPT ![c].at = "send"]
       \/ Rejects(c) /\ UNCHANGED attachedDebuggees
    /\ UNCHANGED <<ran, debugger, detached>> /\ DebuggerOnly

Send(c) ==
    /\ call[c].at = "send"
    /\ IF debugger[call[c].debuggee] = "worker"
       THEN (Runs(c, "debugger") /\ Responds(c)) \/ (UNCHANGED ran /\ Rejects(c))
       ELSE UNCHANGED ran /\ Rejects(c)
    /\ UNCHANGED debuggees /\ DebuggerOnly

\* The user or the tab ends the worker's debugging; others come and go.
BrowserDetaches(d) ==
    /\ debugger[d] = "worker"
    /\ debugger' = [debugger EXCEPT ![d] = "none"]
    /\ detached' = detached \cup {d}
    /\ UNCHANGED <<attachedDebuggees, commands>> /\ DebuggerOnly

OtherDebugger(d) ==
    /\ debugger[d] # "worker"
    /\ debugger' = [debugger EXCEPT ![d] = IF @ = "none" THEN "other" ELSE "none"]
    /\ UNCHANGED <<attachedDebuggees, detached, commands>> /\ DebuggerOnly

-----------------------------------------------------------------------------
(* Events of the loopback.                                                 *)

Publishes(e) == published' = Append(published, e)
EventOnly == UNCHANGED <<registries, commands, debuggees>>

\* The event middlewares run before an event is published; with none, that does not
\* wait.
Publish(e) ==
    IF middlewares["event"] = <<>>
    THEN /\ event' = [event EXCEPT ![e].at = "published"] /\ Publishes(e)
    ELSE /\ event' = [event EXCEPT ![e] = [at |-> "chain", waited |-> TRUE]]
         /\ UNCHANGED published

BadNeedsCommands(e) == TRUE

NeedsCommands(e) == e \in Attaches

EventArrives(e) ==
    /\ event[e].at = "none" /\ arrived' = Append(arrived, e)
    /\ IF NeedsCommands(e)
       THEN /\ event' = [event EXCEPT ![e] = [at |-> "Page.enable", waited |-> e \in Attaches]]
            /\ UNCHANGED published
       ELSE Publish(e)
    /\ EventOnly

\* Page.enable, then Page.setLifecycleEventsEnabled, then the event; a command that
\* fails is no hindrance.
EventCommandEnds(e) ==
    /\ \/ /\ event[e].at = "Page.enable" /\ UNCHANGED published
          /\ event' = [event EXCEPT ![e].at = "Page.setLifecycleEventsEnabled"]
       \/ event[e].at = "Page.setLifecycleEventsEnabled" /\ Publish(e)
    /\ UNCHANGED arrived /\ EventOnly

\* publishEvent goes on after the chain, which may have dropped the event.
EventChainEnds(e) ==
    /\ event[e].at = "chain"
    /\ \/ Publishes(e) /\ event' = [event EXCEPT ![e].at = "published"]
       \/ UNCHANGED published /\ event' = [event EXCEPT ![e].at = "dropped"]
    /\ UNCHANGED arrived /\ EventOnly

-----------------------------------------------------------------------------
Registration ==
    \/ Configure
    \/ \E name \in Methods \cup Domains : AddCustomCommand(name)
    \/ \E p \in Phases, name \in Methods \cup {Every} : AddMiddleware(p, name)

Command(c) ==
    \/ \E m \in Methods : HandleCommand(c, m)
    \/ NextMiddleware(c) \/ Dispatch(c) \/ HandlerEnds(c) \/ LoopbackEnds(c) \/ Respond(c)
    \/ ResolveDebuggee(c) \/ Attach(c) \/ Enable(c) \/ Send(c)

Next ==
    \/ Registration
    \/ \E c \in Calls : Command(c)
    \/ \E d \in Debuggees : BrowserDetaches(d) \/ OtherDebugger(d)
    \/ \E e \in Attaches \cup Plain :
         EventArrives(e) \/ EventCommandEnds(e) \/ EventChainEnds(e)

Spec == Init /\ [][Next]_vars

-----------------------------------------------------------------------------
Places == {"idle", "request", "handler", "loopback", "debugger", "attach", "enable", "send",
           "response", "resolved", "rejected"}

\* Every variable is in its domain; what is sent through chrome.debugger goes to a
\* debuggee that has been attached.
TypeOK ==
    /\ \A c \in Calls :
         /\ call[c].at \in Places
         /\ call[c].at \in {"attach", "enable", "send"} => call[c].debuggee \in Debuggees
         /\ call[c].at = "send" => call[c].debuggee \in attachedDebuggees
    /\ attachedDebuggees \subseteq Debuggees /\ detached \subseteq Debuggees
    /\ debugger \in [Debuggees -> {"none", "worker", "other"}]
    /\ commandHandlers \subseteq Methods \cup Domains

\* A command executes in one place and once: a handler that is registered or replaced,
\* routes that change, or a loopback that comes and goes while it is under way do not
\* make it run twice. Only on the route "auto" may it, the loopback having failed.
RunsOnce ==
    \A c \in Calls :
      Len(ran[c]) > 1 => call[c].route = "auto" /\ ran[c] = <<"loopback", "debugger">>

\* A command runs nowhere before its request chain has let it pass, nor when a
\* middleware has refused it.
RefusedRunsNowhere ==
    \A c \in Calls : ran[c] # <<>> => call[c].params = "value"

\* attachedDebuggees, for which nothing is attached again, holds debuggees that the
\* worker debugs: the swallowed "Another debugger is already attached" never puts in
\* one that somebody else does. Only the browser can make it wrong afterwards.
AttachedUnlessDetached ==
    \A d \in attachedDebuggees : debugger[d] = "worker" \/ d \in detached

\* A "Domain.*" key stands before the key of this method of the domain.
Shadowed(m, table) ==
    \E i, j \in DOMAIN table :
      i < j /\ table[i].pattern = DomainOf[m] /\ table[j].pattern = m

\* Whatever routes are configured, the server's loop over them chooses for a method what
\* the clients' rule, the longest match, would choose of the same routes, but the route
\* of its domain where that shadows its own. That no table lacks "*.*" is part of it: the
\* two fall back on different routes.
RoutesAgree ==
    \A m \in Methods :
      RouteOf(m, routes) = IF Shadowed(m, routes) THEN RouteIn(routes, DomainOf[m])
                           ELSE RouteFor(m, routes)

Before(s, e, f) == \E i, j \in DOMAIN s : i < j /\ s[i] = e /\ s[j] = f

\* Events are published in the order in which they arrived, except that an event may
\* overtake an attached page, whose commands take their time, or one that waited for
\* middlewares.
OvertakesOnlyWaiting ==
    \A e, f \in Attaches \cup Plain :
      Before(arrived, e, f) /\ Before(published, f, e) => event[e].waited
=============================================================================
