----------------------------- MODULE LoopbackCDP -----------------------------
(***************************************************************************)
(* The loopback side of the service worker (js/src/server/ModCDPServer.ts):*)
(* CDP sockets it dials back to a browser, the promises that share a dial, *)
(* the table of pending commands, the sessions of all sockets, and the     *)
(* discovery of an endpoint that has to prove it is the worker's own       *)
(* browser.                                                                *)
(*                                                                         *)
(* A caller is one call of handleCommand or configure.  Its record is what *)
(* its stack holds across awaits.  Promise continuations run before the    *)
(* next event is handled: a caller whose next step needs no event is       *)
(* Running, and events are delivered only while none is.                   *)
(***************************************************************************)
EXTENDS Naturals, FiniteSets

CONSTANTS
    Callers,      \* calls of handleCommand and of configure
    Kinds,        \* what they may be, a subset of AllKinds
    Endpoints,    \* CDP websocket URLs
    Local,        \* the one that 127.0.0.1:9222 reports
    Own,          \* those that lead to the browser this worker lives in
    Sockets,      \* WebSocket objects, each used once
    Targets,
    Worker,       \* the target of the service worker itself
    Sessions,     \* session ids, given out once each
    NoEndpoint, NoSocket, NoTarget, NoSession,
    Unresolved,   \* the target of a command that needs one and names none
    Forms         \* what commands name: targets, Unresolved, or NoTarget

\* A command with route "auto" or "loopback_cdp", a configure() that is given
\* an endpoint and routes, and one that discovers the endpoint.
AllKinds == {"auto", "loopback_cdp", "configure", "discover"}

ASSUME ConstantsAssumption ==
    /\ Kinds \subseteq AllKinds
    /\ Forms \subseteq Targets \cup {NoTarget, Unresolved}
    /\ Local \in Endpoints /\ Own \subseteq Endpoints /\ NoEndpoint \notin Endpoints
    /\ NoSocket \notin Sockets
    /\ Worker \in Targets
    /\ NoTarget \notin Targets /\ Unresolved \notin Targets /\ NoTarget # Unresolved
    /\ NoSession \notin Sessions

VARIABLES
    loopback_cdp_url,
    ready, endpoint,     \* socket -> readyState, the endpoint it was dialled for
    loopbackSockets,     \* endpoint -> socket
    loopbackPromises,    \* endpoint -> socket of the cached dial promise, which
                         \*   is rejected if that socket is closed
    initialized,         \* initializedLoopbackSockets
    target_sessions, session_targets,   \* loopbackTargetSessions, and back
    contexts,            \* sessions in loopbackSessionContexts
    loopbackPending,     \* callers with an entry, whose timeout is armed
    call,                \* caller -> its record
    requests,            \* socket -> requests its browser has not answered
    enabled,             \* socket -> what the browser does for it unasked
    attached, serves     \* session -> its socket while attached, its target

socketVars == <<ready, endpoint, loopbackSockets, loopbackPromises, initialized>>
tableVars == <<target_sessions, session_targets, contexts>>
browserVars == <<requests, enabled, attached, serves>>
vars == <<loopback_cdp_url, socketVars, tableVars, loopbackPending, call, browserVars>>

\* What a caller is at: "socket" is a call of loopbackWS, "have" its return, and
\* "debugger" the hand-over to sendChromeDebugger.
Places == {"idle", "fetch", "socket", "dialling", "have", "answer", "context",
           "tabs", "debugger", "resolved", "rejected"}

\* The loopback command a caller is about to send or has sent; "init" is the
\* loopbackWS of initializeLoopbackCDP itself.
Ops == {"init", "autoAttach", "discover", "getTargets", "createTarget",
        "attach", "attachAuto", "method", "enable", "verify"}

Fresh(kind, at) ==
    [kind |-> kind, at |-> at, op |-> "init", target |-> NoTarget, ws |-> NoSocket,
     init |-> NoSocket, session |-> NoSession, context |-> "none", previous |-> NoEndpoint]

Init ==
    /\ loopback_cdp_url = NoEndpoint
    /\ ready = [w \in Sockets |-> "none"]
    /\ endpoint = [w \in Sockets |-> NoEndpoint]
    /\ loopbackSockets = [e \in Endpoints |-> NoSocket]
    /\ loopbackPromises = [e \in Endpoints |-> NoSocket]
    /\ initialized = {}
    /\ target_sessions = [t \in Targets |-> NoSession]
    /\ session_targets = [s \in Sessions |-> NoTarget]
    /\ contexts = {}
    /\ loopbackPending = {}
    /\ call = [k \in Callers |-> Fresh("auto", "idle")]
    /\ requests = [w \in Sockets |-> {}]
    /\ enabled = [w \in Sockets |-> {}]
    /\ attached = [s \in Sessions |-> NoSocket]
    /\ serves = [s \in Sessions |-> NoTarget]

Running == {k \in Callers : call[k].at \in {"socket", "have"}}

\* The event loop takes the next event.
Idle == Running = {}

-----------------------------------------------------------------------------
(* Continuations: the record of a caller after an await.  A definition named *)
(* Bad... is a faulty variant of the one below it, kept to show that the     *)
(* properties notice the fault; nothing uses it.                             *)

Doing(c, o) == [c EXCEPT !.op = o, !.at = "socket", !.ws = NoSocket]

\* The caller's stack is gone.
Ended(c, outcome) == Fresh(c.kind, outcome)

\* sendLoopback once the target is known.
WithTarget(c, t) ==
    IF target_sessions[t] # NoSession
    THEN Doing([c EXCEPT !.target = t, !.session = target_sessions[t]], "method")
    ELSE Doing([c EXCEPT !.target = t], "attach")

\* initializeLoopbackCDP has returned.
Initialized(c) ==
    CASE c.kind = "configure" -> Ended(c, "resolved")
      [] c.kind = "discover" -> Doing(Fresh("configure", "socket"), "init")
      [] OTHER -> IF c.target = NoTarget THEN Doing(c, "method")
                  ELSE IF c.target = Unresolved THEN [c EXCEPT !.at = "tabs"]
                  ELSE WithTarget(c, c.target)

\* The awaited call has thrown.  A discovery that fails is over, and configure
\* goes on to its own initializeLoopbackCDP.
Thrown(c) ==
    IF c.op = "attachAuto" THEN Doing(c, "method")
    ELSE CASE c.kind = "auto" -> Ended(c, "debugger")
           [] c.kind = "discover" -> Doing(Fresh("configure", "socket"), "init")
           [] OTHER -> Ended(c, "rejected")

BadForgotten(K) == {loopback_cdp_url}  \* the candidate stays

\* fail() in discoverLoopbackCDP, for the discoveries among K.
Forgotten(K) ==
    LET D == {k \in K : call[k].kind = "discover"}
    IN  IF D = {} THEN {loopback_cdp_url} ELSE {call[k].previous : k \in D}

Throw(K) ==
    /\ call' = [k \in Callers |-> IF k \in K THEN Thrown(call[k]) ELSE call[k]]
    /\ loopback_cdp_url' \in Forgotten(K)

-----------------------------------------------------------------------------
(* Callers.                                                                 *)

StartCommand(k, t) ==
    /\ Idle /\ call[k].at = "idle"
    /\ \E r \in Kinds \cap {"auto", "loopback_cdp"} :
         LET c == [call[k] EXCEPT !.kind = r, !.target = t]
         IN  call' = [call EXCEPT ![k] =
                        IF loopback_cdp_url = NoEndpoint THEN Thrown(c)
                                                         ELSE Doing(c, "init")]
    /\ UNCHANGED <<loopback_cdp_url, socketVars, tableVars, loopbackPending, browserVars>>

StartConfigure(k, e) ==
    /\ Idle /\ call[k].at = "idle" /\ "configure" \in Kinds
    /\ loopback_cdp_url' = e
    /\ call' = [call EXCEPT ![k] = Doing([@ EXCEPT !.kind = "configure"], "init")]
    /\ UNCHANGED <<socketVars, tableVars, loopbackPending, browserVars>>

\* configure() without routes, with or without an endpoint: previousLoopbackUrl
\* is read before /json/version is fetched.
StartDiscover(k) ==
    /\ Idle /\ call[k].at = "idle" /\ "discover" \in Kinds
    /\ loopback_cdp_url' \in
         {loopback_cdp_url} \cup IF "configure" \in Kinds THEN Endpoints ELSE {}
    /\ call' = [call EXCEPT ![k].kind = "discover", ![k].at = "fetch",
                            ![k].target = Worker, ![k].previous = loopback_cdp_url']
    /\ UNCHANGED <<socketVars, tableVars, loopbackPending, browserVars>>

\* The endpoint is in use from here on, verified or not.
Fetched(k) ==
    /\ Idle /\ call[k].at = "fetch"
    /\ loopback_cdp_url' = Local
    /\ call' = [call EXCEPT ![k] = Doing(@, "getTargets")]
    /\ UNCHANGED <<socketVars, tableVars, loopbackPending, browserVars>>

FetchFailed(k) ==
    /\ Idle /\ call[k].at = "fetch"
    /\ Throw({k})
    /\ UNCHANGED <<socketVars, tableVars, loopbackPending, browserVars>>

BadCached(e) == FALSE                  \* each caller dials for itself

\* A dial is under way, or has failed and its promise is still in the cache.
Cached(e) == loopbackPromises[e] # NoSocket

HasOpenSocket(e) == loopbackSockets[e] # NoSocket /\ ready[loopbackSockets[e]] = "open"

\* loopbackWS: the open socket, the shared promise, or a new dial.
GetSocket(k) ==
    LET e == loopback_cdp_url
    IN
    /\ call[k].at = "socket"
    /\ \/ /\ e = NoEndpoint
          /\ IF call[k].op = "init"
             THEN /\ call' = [call EXCEPT ![k] = Initialized(@)]
                  /\ UNCHANGED loopback_cdp_url
             ELSE Throw({k})
          /\ UNCHANGED socketVars
       \/ /\ e # NoEndpoint /\ HasOpenSocket(e)
          /\ call' = [call EXCEPT ![k].ws = loopbackSockets[e], ![k].at = "have"]
          /\ UNCHANGED <<loopback_cdp_url, socketVars>>
       \/ /\ e # NoEndpoint /\ ~HasOpenSocket(e) /\ Cached(e)
          /\ IF ready[loopbackPromises[e]] = "connecting"
             THEN /\ call' = [call EXCEPT ![k].ws = loopbackPromises[e], ![k].at = "dialling"]
                  /\ UNCHANGED loopback_cdp_url
             ELSE Throw({k})
          /\ UNCHANGED socketVars
       \/ /\ e # NoEndpoint /\ ~HasOpenSocket(e) /\ ~Cached(e)
          /\ \E w \in Sockets :
               /\ ready[w] = "none"
               /\ ready' = [ready EXCEPT ![w] = "connecting"]
               /\ endpoint' = [endpoint EXCEPT ![w] = e]
               /\ loopbackPromises' = [loopbackPromises EXCEPT ![e] = w]
               /\ call' = [call EXCEPT ![k].ws = w, ![k].at = "dialling"]
          /\ UNCHANGED <<loopback_cdp_url, loopbackSockets, initialized>>
    /\ UNCHANGED <<tableVars, loopbackPending, browserVars>>

\* nextLoopbackId is never used twice: a caller makes each call once, or once
\* as discovery and once as configure.
Request(k) == [caller |-> k, kind |-> call[k].kind, op |-> call[k].op,
               target |-> call[k].target, session |-> NoSession]

\* After loopbackWS: initializeLoopbackCDP looks at the socket, callLoopbackWS
\* sends on it and awaits the answer.
HaveSocket(k) ==
    LET w == call[k].ws
    IN
    /\ call[k].at = "have"
    /\ IF call[k].op = "init"
       THEN /\ call' = [call EXCEPT ![k] =
                          IF w \in initialized THEN Initialized(@)
                          ELSE Doing([@ EXCEPT !.init = w], "autoAttach")]
            /\ UNCHANGED <<loopbackPending, requests>>
       ELSE /\ call' = [call EXCEPT ![k].at = "answer"]
            /\ loopbackPending' = loopbackPending \cup {k}
            /\ requests' = [requests EXCEPT ![w] = @ \cup {Request(k)}]
    /\ UNCHANGED <<loopback_cdp_url, socketVars, tableVars, enabled, attached, serves>>

-----------------------------------------------------------------------------
(* Timers and what else callers wait for.                                   *)

Timeout(k) ==
    /\ Idle /\ k \in loopbackPending
    /\ loopbackPending' = loopbackPending \ {k}
    /\ Throw({k})
    /\ UNCHANGED <<socketVars, tableVars, browserVars>>

\* waitForLoopbackExecutionContext, which discovery starts before it enables
\* the runtime and awaits afterwards.
ContextTimeout(k) ==
    /\ Idle /\ call[k].context = "waiting"
    /\ IF call[k].at = "context"
       THEN Throw({k})
       ELSE /\ call' = [call EXCEPT ![k].context = "timedout"]
            /\ UNCHANGED loopback_cdp_url
    /\ UNCHANGED <<socketVars, tableVars, loopbackPending, browserVars>>

\* chrome.tabs and chrome.debugger.getTargets know the active page, or not.
TabsAnswer(k) ==
    /\ Idle /\ call[k].at = "tabs"
    /\ \/ \E t \in Targets : call' = [call EXCEPT ![k] = WithTarget(@, t)]
       \/ call' = [call EXCEPT ![k] = Doing(@, "getTargets")]
    /\ UNCHANGED <<loopback_cdp_url, socketVars, tableVars, loopbackPending, browserVars>>

-----------------------------------------------------------------------------
(* Sockets and the browser behind them.                                     *)

BadDialling(w) == {}                   \* nobody is told how the dial went

\* Those that await the dial promise of w.
Dialling(w) == {k \in Callers : call[k].at = "dialling" /\ call[k].ws = w}

SocketOpens(w) ==
    /\ Idle /\ ready[w] = "connecting"
    /\ ready' = [ready EXCEPT ![w] = "open"]
    /\ loopbackSockets' = [loopbackSockets EXCEPT ![endpoint[w]] = w]
    /\ loopbackPromises' = [loopbackPromises EXCEPT ![endpoint[w]] = NoSocket]
    /\ call' = [k \in Callers |-> IF k \in Dialling(w)
                                  THEN [call[k] EXCEPT !.at = "have"] ELSE call[k]]
    /\ UNCHANGED <<loopback_cdp_url, endpoint, initialized, tableVars, loopbackPending,
                   browserVars>>

\* The promise is rejected and stays in the cache.
DialFails(w) ==
    /\ Idle /\ ready[w] = "connecting"
    /\ ready' = [ready EXCEPT ![w] = "closed"]
    /\ Throw(Dialling(w))
    /\ UNCHANGED <<endpoint, loopbackSockets, loopbackPromises, initialized, tableVars,
                   loopbackPending, browserVars>>

\* Bound: an open socket is lost only while every endpoint can still be dialled.
Spare == Cardinality({w \in Sockets : ready[w] = "none"}) >= Cardinality(Endpoints)

\* The browser's close frame has arrived: no more messages, no close event yet.
SocketClosing(w) ==
    /\ Idle /\ ready[w] = "open" /\ Spare
    /\ ready' = [ready EXCEPT ![w] = "closing"]
    /\ UNCHANGED <<loopback_cdp_url, endpoint, loopbackSockets, loopbackPromises,
                   initialized, tableVars, loopbackPending, call, browserVars>>

BadRejected(w) ==                      \* only while the socket is registered
    IF loopbackSockets[endpoint[w]] = w THEN loopbackPending ELSE {}

\* rejectLoopbackPending: the commands of every socket, not of w alone.
Rejected(w) == loopbackPending

\* The close event, after an error event or without one: the tables of all
\* sockets are cleared and all pending commands rejected.
SocketLost(w) ==
    /\ Idle /\ ready[w] \in {"open", "closing"} /\ (ready[w] = "open" => Spare)
    /\ ready' = [ready EXCEPT ![w] = "closed"]
    /\ loopbackSockets' = [e \in Endpoints |-> IF loopbackSockets[e] = w THEN NoSocket
                                                                 ELSE loopbackSockets[e]]
    /\ target_sessions' = [t \in Targets |-> NoSession]
    /\ session_targets' = [s \in Sessions |-> NoTarget]
    /\ contexts' = {}
    /\ loopbackPending' = loopbackPending \ Rejected(w)
    /\ Throw(Rejected(w))
    /\ requests' = [requests EXCEPT ![w] = {}]
    /\ enabled' = [enabled EXCEPT ![w] = {}]
    /\ attached' = [s \in Sessions |-> IF attached[s] = w THEN NoSocket ELSE attached[s]]
    /\ UNCHANGED <<endpoint, loopbackPromises, initialized, serves>>

RecordAttached(s, t) ==
    /\ target_sessions' = [target_sessions EXCEPT ![t] = s]
    /\ session_targets' = [session_targets EXCEPT ![s] = t]

\* Target.attachedToTarget.  The Page.enable and Page.setLifecycleEventsEnabled
\* that its listener sends are callers like any other.
Attached(w, s, t) ==
    /\ attached' = [attached EXCEPT ![s] = w]
    /\ serves' = [serves EXCEPT ![s] = t]
    /\ RecordAttached(s, t)

AutoAttached(w, s, t) ==
    /\ Idle /\ ready[w] = "open" /\ "autoAttach" \in enabled[w]
    /\ serves[s] = NoTarget
    /\ Attached(w, s, t)
    /\ UNCHANGED <<loopback_cdp_url, socketVars, contexts, loopbackPending, call, requests,
                   enabled>>

\* The browser attaches as it was asked to; the answer follows.
AttachedAsRequested(w, r, s) ==
    /\ Idle /\ ready[w] = "open"
    /\ r \in requests[w] /\ r.op = "attach" /\ r.session = NoSession
    /\ serves[s] = NoTarget
    /\ requests' = [requests EXCEPT ![w] = (@ \ {r}) \cup {[r EXCEPT !.session = s]}]
    /\ Attached(w, s, r.target)
    /\ UNCHANGED <<loopback_cdp_url, socketVars, contexts, loopbackPending, call, enabled>>

BadUnmapped(s, t) == target_sessions   \* only session -> target is removed

\* The entry of the target goes, whichever session it names.
Unmapped(s, t) ==
    [u \in Targets |-> IF u = t THEN NoSession ELSE target_sessions[u]]

\* Target.detachedFromTarget, with a targetId or without one.
Detached(s) ==
    /\ Idle /\ attached[s] # NoSocket /\ ready[attached[s]] = "open"
    /\ \A r \in requests[attached[s]] : r.session # s
    /\ attached' = [attached EXCEPT ![s] = NoSocket]
    /\ \E t \in {serves[s], session_targets[s]} : target_sessions' = Unmapped(s, t)
    /\ session_targets' = [session_targets EXCEPT ![s] = NoTarget]
    /\ contexts' = contexts \ {s}
    /\ UNCHANGED <<loopback_cdp_url, socketVars, loopbackPending, call, requests, enabled,
                   serves>>

\* Runtime.executionContextCreated; waiters resolve.
ContextCreated(s) ==
    /\ Idle /\ attached[s] # NoSocket /\ ready[attached[s]] = "open"
    /\ contexts' = contexts \cup {s}
    /\ call' = [k \in Callers |->
                  LET c == call[k]
                  IN  IF c.session # s \/ c.context # "waiting" THEN c
                      ELSE IF c.at = "context"
                           THEN Doing([c EXCEPT !.context = "known"], "verify")
                           ELSE [c EXCEPT !.context = "known"]]
    /\ UNCHANGED <<loopback_cdp_url, socketVars, target_sessions, session_targets,
                   loopbackPending, browserVars>>

-----------------------------------------------------------------------------
(* Answers.                                                                 *)

\* The entry under the answer's id is still in the table.
Awaited(r) ==
    /\ r.caller \in loopbackPending
    /\ call[r.caller].op = r.op /\ call[r.caller].kind = r.kind

\* The result is one the caller goes on with: discovery wants its own token,
\* and a context that came in time.
Accepted(w, c) ==
    /\ c.op = "verify" => endpoint[w] \in Own
    /\ c.op = "enable" => c.context # "timedout"

\* What the caller does next.
Continued(c, s) ==
    CASE c.op = "autoAttach" -> {Doing(c, "discover")}
      [] c.op = "discover" -> {Initialized(c)}
      [] c.op = "getTargets" /\ c.kind = "discover" -> {Doing(c, "attach")}
      [] c.op = "getTargets" /\ c.kind # "discover" ->
           {Doing(c, "createTarget")} \cup {WithTarget(c, t) : t \in Targets}
      [] c.op = "createTarget" -> {WithTarget(c, t) : t \in Targets}
      [] c.op = "attach" /\ c.kind # "discover" ->
           {Doing([c EXCEPT !.session = s], "attachAuto")}
      [] c.op = "attach" /\ c.kind = "discover" ->
           {Doing([c EXCEPT !.session = s,
                            !.context = IF s \in contexts THEN "known" ELSE "waiting"],
                  "enable")}
      [] c.op = "attachAuto" -> {Doing(c, "method")}
      [] c.op = "method" -> {Ended(c, "resolved")}
      [] c.op = "enable" -> {IF c.context = "known" THEN Doing(c, "verify")
                                                    ELSE [c EXCEPT !.at = "context"]}
      [] c.op = "verify" -> {Doing(c, "init")}

BadMarked(c) ==                        \* before the second command is awaited
    IF c.op = "autoAttach" THEN {c.init} ELSE {}

\* initializedLoopbackSockets.add(ws), once both commands have returned: the
\* socket the initialization began with, whichever they were sent on.
Marked(c) == IF c.op = "discover" THEN {c.init} ELSE {}

Answer(w, r) ==
    LET c == call[r.caller]
    IN
    /\ Idle /\ ready[w] = "open" /\ r \in requests[w]
    /\ r.op = "attach" => r.session # NoSession
    /\ requests' = [requests EXCEPT ![w] = @ \ {r}]
    /\ enabled' = [enabled EXCEPT ![w] = @ \cup ({r.op} \cap {"autoAttach", "discover"})]
    /\ IF Awaited(r)
       THEN /\ Accepted(w, c)
            /\ \E d \in Continued(c, r.session) : call' = [call EXCEPT ![r.caller] = d]
            /\ loopbackPending' = loopbackPending \ {r.caller}
            /\ initialized' = initialized \cup Marked(c)
            /\ IF c.op = "attach" THEN RecordAttached(r.session, c.target)
                                  ELSE UNCHANGED <<target_sessions, session_targets>>
       ELSE UNCHANGED <<call, loopbackPending, initialized, target_sessions, session_targets>>
    /\ UNCHANGED <<loopback_cdp_url, ready, endpoint, loopbackSockets, loopbackPromises,
                   contexts, attached, serves>>

\* An error, or a result that makes the caller throw.
AnswerThrows(w, r) ==
    /\ Idle /\ ready[w] = "open" /\ r \in requests[w] /\ r.session = NoSession
    /\ requests' = [requests EXCEPT ![w] = @ \ {r}]
    /\ IF Awaited(r)
       THEN /\ loopbackPending' = loopbackPending \ {r.caller}
            /\ Throw({r.caller})
       ELSE UNCHANGED <<loopbackPending, call, loopback_cdp_url>>
    /\ UNCHANGED <<socketVars, tableVars, enabled, attached, serves>>

Next ==
    \/ \E k \in Callers, t \in Forms : StartCommand(k, t)
    \/ \E k \in Callers, e \in Endpoints : StartConfigure(k, e)
    \/ \E k \in Callers : StartDiscover(k)
    \/ \E k \in Callers : Fetched(k)
    \/ \E k \in Callers : FetchFailed(k)
    \/ \E k \in Callers : GetSocket(k)
    \/ \E k \in Callers : HaveSocket(k)
    \/ \E k \in Callers : Timeout(k)
    \/ \E k \in Callers : ContextTimeout(k)
    \/ \E k \in Callers : TabsAnswer(k)
    \/ \E w \in Sockets : SocketOpens(w)
    \/ \E w \in Sockets : DialFails(w)
    \/ \E w \in Sockets : SocketClosing(w)
    \/ \E w \in Sockets : SocketLost(w)
    \/ \E w \in Sockets, s \in Sessions, t \in Targets : AutoAttached(w, s, t)
    \/ \E w \in Sockets, s \in Sessions : \E r \in requests[w] : AttachedAsRequested(w, r, s)
    \/ \E s \in Sessions : Detached(s)
    \/ \E s \in Sessions : ContextCreated(s)
    \/ \E w \in Sockets : \E r \in requests[w] : Answer(w, r)
    \/ \E w \in Sockets : \E r \in requests[w] : AnswerThrows(w, r)

Spec == Init /\ [][Next]_vars

\* Continuations run, armed timers fire, a fetch, a dial and a query of
\* chrome.tabs come to an end.
Fairness ==
    /\ \A k \in Callers :
         /\ WF_vars(GetSocket(k)) /\ WF_vars(HaveSocket(k))
         /\ WF_vars(Timeout(k)) /\ WF_vars(ContextTimeout(k))
         /\ WF_vars(TabsAnswer(k)) /\ WF_vars(Fetched(k) \/ FetchFailed(k))
    /\ \A w \in Sockets : WF_vars(SocketOpens(w) \/ DialFails(w))

FairSpec == Spec /\ Fairness

-----------------------------------------------------------------------------
(* Properties.                                                              *)

Records ==
    [kind : AllKinds, at : Places, op : Ops, target : Targets \cup {NoTarget, Unresolved},
     ws : Sockets \cup {NoSocket}, init : Sockets \cup {NoSocket},
     session : Sessions \cup {NoSession},
     context : {"none", "waiting", "known", "timedout"},
     previous : Endpoints \cup {NoEndpoint}]

Requests ==
    [caller : Callers, kind : AllKinds, op : Ops,
     target : Targets \cup {NoTarget, Unresolved}, session : Sessions \cup {NoSession}]

\* Every variable stays in its domain, and every attach names a target.
TypeOK ==
    /\ loopback_cdp_url \in Endpoints \cup {NoEndpoint}
    /\ ready \in [Sockets -> {"none", "connecting", "open", "closing", "closed"}]
    /\ endpoint \in [Sockets -> Endpoints \cup {NoEndpoint}]
    /\ loopbackSockets \in [Endpoints -> Sockets \cup {NoSocket}]
    /\ loopbackPromises \in [Endpoints -> Sockets \cup {NoSocket}]
    /\ initialized \in SUBSET (Sockets \cup {NoSocket})
    /\ target_sessions \in [Targets -> Sessions \cup {NoSession}]
    /\ session_targets \in [Sessions -> Targets \cup {NoTarget}]
    /\ contexts \in SUBSET Sessions
    /\ loopbackPending \in SUBSET Callers
    /\ call \in [Callers -> Records]
    /\ requests \in [Sockets -> SUBSET Requests]
    /\ \A w \in Sockets : \A r \in requests[w] : r.op = "attach" => r.target \in Targets
    /\ enabled \in [Sockets -> SUBSET {"autoAttach", "discover"}]
    /\ attached \in [Sessions -> Sockets \cup {NoSocket}]
    /\ serves \in [Sessions -> Targets \cup {NoTarget}]

\* An endpoint is dialled once for all callers that need it: it never has two
\* sockets that connect or are open, however dials, losses and callers overlap.
OneSocketPerEndpoint ==
    LET usable == {w \in Sockets : ready[w] \in {"connecting", "open"}}
    IN  \A v, w \in usable : endpoint[v] = endpoint[w] => v = w

\* A caller in the pending table waits for an answer that can still come: its
\* request is with a browser whose socket has not been lost.
PendingCanBeAnswered ==
    \A k \in Callers :
        /\ k \in loopbackPending <=> call[k].at = "answer"
        /\ k \in loopbackPending =>
             /\ ready[call[k].ws] \in {"open", "closing"}
             /\ \E r \in requests[call[k].ws] : r.caller = k /\ Awaited(r)

\* Every entry of the session table names a session that its browser has
\* attached to that target on a socket that is not lost, although the tables of
\* all sockets are one and are cleared when any of them goes.
MappedSessionsAttached ==
    \A t \in Targets :
        LET s == target_sessions[t]
        IN  s # NoSession => serves[s] = t /\ attached[s] # NoSocket

\* While the endpoint stays the same, an open socket that counts as initialized
\* has both auto-attach and discovery on: overlapping initializations and losses
\* between their awaits never mark a socket that missed one.
InitializedIsEnabled ==
    \A w \in initialized :
        ready[w] = "open" => enabled[w] = {"autoAttach", "discover"}

\* Every command and every configure() ends, or is in the hands of
\* chrome.debugger, even if no browser ever answers.
CallersEnd ==
    \A k \in Callers :
        call[k].at # "idle" ~> call[k].at \in {"debugger", "resolved", "rejected"}

\* The callers that have begun to discover an endpoint, if nobody names one.
Discoverers == {k \in Callers : call[k].kind \in {"discover", "configure"}}

\* No discovery is under way, and none can have verified the local endpoint.
Unverified ==
    Local \notin Own /\ "configure" \notin Kinds /\ \A k \in Callers : call[k].kind # "discover"

\* A discovery that did not verify the local endpoint leaves the previous one,
\* wherever it failed, if no other discovery overlaps it.
SoleDiscoveryForgets ==
    Unverified /\ (\A j, k \in Discoverers : j = k) => loopback_cdp_url # Local

=============================================================================
