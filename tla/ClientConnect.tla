---------------------------- MODULE ClientConnect ----------------------------
(***************************************************************************)
(* connect() and close() of ModCDPClient (src/js/src/client): the           *)
(* transport, the browser and the injectors that one call builds up step by  *)
(* step, what is left of them when a step fails, and close() at any moment,  *)
(* while a connect() runs as well as after it. Between the two lies the      *)
(* search for the extension (src/js/src/injector): each injector probes the  *)
(* service workers it finds until one is ready or its deadline passes, and   *)
(* meanwhile workers start, stop and are attached. The reverse transports'   *)
(* peers are ClientTransports'; here they are present or not.                *)
(***************************************************************************)
EXTENDS Naturals, Sequences, FiniteSets

CONSTANTS
    Configs,     \* the configurations: [kind, launcher, mode, trust, server], the last of
                 \* which is FALSE where server is null
    Targets,     \* service workers, each for as long as it lives
    Own,         \* those of the ModCDP extension that the configuration matches
    MaxAttempts  \* bound: calls of connect()

ASSUME ConnectAssumption ==
    /\ Own \subseteq Targets /\ MaxAttempts \in Nat
    /\ Configs \subseteq [kind : {"ws", "pipe", "reversews"}, launcher : {"none", "local"},
                          mode : {"auto", "discover", "inject", "borrow", "none"},
                          trust : BOOLEAN, server : BOOLEAN]

Attempts == 1..MaxAttempts
NoTarget == "no target"

VARIABLES
    config,
    attempt,    \* calls of connect() so far
    at,         \* where the running connect() is, or "idle"
    step,       \* the transport that its outstanding command went to, 0 when the promise
                \* of that command is rejected already
    spare,      \* _runInjectors, whose injectors are new ones, has unpacked the extension
                \* for itself; nothing removes that copy
    search,     \* [left, stage, seen, probing, found, late] of _runInjectors
    ext,        \* ext_target_id, for ext_session_id and ext_execution_context_id too
    transport,  \* this.transport, this._launched, this._injectors: the attempt that
    launched,   \* made what they hold, or 0
    injectors,
    sock,       \* attempt -> its transport: "none", "open", "closing", "closed"
    listeners,  \* attempt -> onRecv and onClose listeners on its transport
    browser,    \* attempt -> "none", "running", "gone", or "orphaned": launch() threw and left it
    copies,     \* attempt -> its injectors that hold an unpacked extension
    closing,    \* [stage, of]: the await of close(), "no", "browser", "transport" or
                \* "injectors", and the attempt that made what it closes
    ping,       \* attempt -> _measurePingLatency: "none", "asked", "pong", "done"
    pingOver,   \* attempt -> the transport its ping went to
    waits,      \* attempts whose wait for Mod.pong is in event_wait_cleanups
    target,     \* target -> "absent", "live", "gone"
    ready,      \* targets in which a ModCDP server is installed
    attached,   \* attempt -> targets with a session on its connection
    known,      \* target -> the connection whose session auto_sessions has for it, or 0
    configured, \* <<attempt, target>>: Mod.configure has reached it in that call
    lost,       \* history: when the found worker or the transport went in this call, "no",
                \* "on the way", or "since" the last command was answered
    tidy        \* close() ran before each connect() but the first, and never beside one

fields == <<transport, launched, injectors>>
objects == <<sock, listeners, browser, copies>>
pings == <<ping, pingOver, waits>>
world == <<target, ready, attached, known>>
vars == <<config, attempt, at, step, spare, search, ext, fields, objects, closing, pings, world,
          configured, lost, tidy>>

NoSearch == [left |-> <<>>, stage |-> "none", seen |-> {}, probing |-> NoTarget,
             found |-> {}, late |-> FALSE]

Init ==
    /\ config \in Configs
    /\ attempt = 0 /\ at = "idle" /\ step = 0 /\ spare = FALSE /\ search = NoSearch /\ ext = NoTarget
    /\ transport = 0 /\ launched = 0 /\ injectors = 0
    /\ sock = [a \in Attempts |-> "none"] /\ listeners = [a \in Attempts |-> 0]
    /\ browser = [a \in Attempts |-> "none"] /\ copies = [a \in Attempts |-> {}]
    /\ closing = [stage |-> "no", of |-> 0]
    /\ ping = [a \in Attempts |-> "none"] /\ pingOver = [a \in Attempts |-> 0] /\ waits = {}
    /\ target \in [Targets -> {"absent", "live", "gone"}]
    /\ ready \in SUBSET {t \in Own : target[t] = "live"}
    /\ attached = [a \in Attempts |-> {}] /\ known = [t \in Targets |-> 0]
    /\ configured = {} /\ lost = "no" /\ tidy = TRUE

Raw == config.kind # "reversews"

-----------------------------------------------------------------------------
(* Pieces of the code.                                                      *)

\* _injectorsForConfig: with a browser of its own the launch comes before discovery.
InjectorsForConfig ==
    LET wants(mode) == config.mode \in {"auto", mode}
        discover == IF wants("discover") THEN <<"discover">> ELSE <<>>
        inject == IF ~wants("inject") THEN <<>>
                  ELSE (IF config.launcher = "local" THEN <<"local">> ELSE <<>>) \o <<"load">>
        borrow == IF wants("borrow") THEN <<"borrow">> ELSE <<>>
    IN  IF config.mode = "auto" /\ config.launcher = "local"
        THEN inject \o discover \o borrow
        ELSE discover \o inject \o borrow

\* The injectors whose prepare() unpacks the extension into a directory of its own.
Unpacking == {InjectorsForConfig[i] : i \in DOMAIN InjectorsForConfig} \cap {"local", "load"}

Injector == Head(search.left)

\* serviceWorkerTargetMatches, where the injector asks for it.
Considers(t) == t \in Own \/ (~config.trust /\ Injector # "load")

\* It looks at the first of them only.
LooksAtOne == Injector = "load" \/ (config.trust /\ Injector # "borrow")

Attaches == config.trust \/ Injector \in {"load", "borrow"}

SkipsErrors == Injector = "borrow" \/ (~config.trust /\ Injector # "load")

Repeats ==
    \/ Injector \in {"load", "borrow"}
    \/ Injector = "discover" /\ (config.trust \/ config.mode = "discover")

BadExpired == FALSE                  \* the deadline is not looked at

Expired == search.late

IsOpen(a) == a # 0 /\ sock[a] = "open"

\* _sendMessage without an open transport: the promise is rejected at once.
Over == IF IsOpen(transport) THEN transport ELSE 0

\* connect() awaits a command.
Asking == \/ at \in {"initialize", "enable", "bind", "configure"}
          \/ search.stage \in {"load", "targets", "attach", "probe"}

Throw == at' = "idle" /\ step' = 0 /\ search' = NoSearch

\* The next of the injectors begins; those it has passed are over.
NextInjector(left) ==
    IF left = <<>> THEN Throw
    ELSE /\ at' = "inject"
         /\ search' = [NoSearch EXCEPT !.left = left,
                !.stage = IF Head(left) \in {"local", "load"} THEN "prepare" ELSE "targets"]
         /\ step' = IF Head(left) \in {"local", "load"} THEN 0 ELSE Over

InjectorFails == NextInjector(Tail(search.left)) /\ UNCHANGED ext

\* The extension is found: Runtime.enable goes out, and the wait for its context begins.
Found(t) == ext' = t /\ at' = "enable" /\ step' = Over /\ search' = NoSearch

\* One more candidate, or with none left the one that was borrowed, another round
\* after a pause, or the next injector.
NextCandidate(seen, found) ==
    \/ \E t \in seen :
         /\ search' = [search EXCEPT !.probing = t, !.seen = seen \ {t}, !.found = found,
                                     !.stage = "session"]
         /\ step' = 0 /\ UNCHANGED <<at, ext>>
    \/ seen = {} /\ \E t \in found : Found(t)
    \/ /\ seen = {} /\ found = {} /\ Repeats
       /\ search' = [search EXCEPT !.stage = "pause", !.probing = NoTarget]
       /\ step' = 0 /\ UNCHANGED <<at, ext>>
    \/ seen = {} /\ found = {} /\ ~Repeats /\ InjectorFails

\* An awaited command of connect() is rejected.
StepFails ==
    \/ at = "inject" /\ search.stage \in {"attach", "probe"} /\ SkipsErrors
         /\ NextCandidate(search.seen, search.found)
    \/ at = "inject" /\ ~(search.stage \in {"attach", "probe"} /\ SkipsErrors) /\ InjectorFails
    \/ at # "inject" /\ Throw /\ UNCHANGED ext

BadPingsFailing(A) == UNCHANGED <<ping, waits>>

\* Mod.ping of these is rejected: its finally clause cancels the wait for the pong.
PingsFailing(A) ==
    LET failing == {a \in A : ping[a] = "asked"}
    IN  /\ ping' = [a \in Attempts |-> IF a \in failing THEN "done" ELSE ping[a]]
        /\ waits' = waits \ failing

\* The worker that connect() goes on with, or its transport, went.
Loses(went) ==
    lost' = IF ~went THEN lost
            ELSE IF at \in {"enable", "context", "bind", "configure"} THEN "on the way"
            ELSE IF at = "return" THEN "since" ELSE lost

-----------------------------------------------------------------------------
(* _connectUpstreamTransport.                                               *)

\* The transport is this.transport from now on, and the client listens to it; a
\* retried connect() finds it there, and listens once more.
Established(a, socks) ==
    /\ transport' = a
    /\ listeners' = [listeners EXCEPT ![a] = @ + 1]
    /\ sock' = socks
    /\ IF Raw THEN at' = "initialize" /\ step' = IF socks[a] = "open" THEN a ELSE 0
       ELSE at' = "peer" /\ step' = 0

Connect ==
    /\ at = "idle" /\ attempt < MaxAttempts
    /\ attempt' = attempt + 1 /\ lost' = "no"
    /\ tidy' = (tidy /\ closing.stage = "no" /\ fields = <<0, 0, 0>>)
    /\ \/ transport # 0 /\ Established(transport, sock) /\ UNCHANGED injectors
       \/ /\ transport = 0 /\ at' = "prepare" /\ injectors' = attempt + 1
          /\ UNCHANGED <<transport, listeners, sock, step>>
    /\ UNCHANGED <<config, spare, search, ext, launched, browser, copies, closing, pings, world,
                   configured>>

\* prepare() of one injector after the other, until one throws.
Prepare ==
    /\ at = "prepare"
    /\ \E unpacked \in SUBSET Unpacking :
         /\ copies' = [copies EXCEPT ![attempt] = unpacked]
         /\ \/ /\ unpacked = Unpacking
               /\ at' = IF ~Raw THEN "listen"
                        ELSE IF config.launcher = "none" THEN "dial" ELSE "launch"
               /\ UNCHANGED <<step, search>>
            \/ unpacked # Unpacking /\ Throw
    /\ UNCHANGED <<config, attempt, spare, ext, fields, sock, listeners, browser, closing, pings,
                   world, configured, lost, tidy>>

\* A reverse transport listens before the launch, or its port is taken.
Listen ==
    /\ at = "listen"
    /\ \/ /\ config.launcher = "local" /\ at' = "launch"
          /\ sock' = [sock EXCEPT ![attempt] = "open"]
          /\ UNCHANGED <<step, search, transport, listeners>>
       \/ /\ config.launcher = "none"
          /\ Established(attempt, [sock EXCEPT ![attempt] = "open"]) /\ UNCHANGED search
       \/ Throw /\ UNCHANGED <<transport, sock, listeners>>
    /\ UNCHANGED <<config, attempt, spare, ext, launched, injectors, browser, copies, closing,
                   pings, world, configured, lost, tidy>>

\* launch() ends the browser when it fails, but not when its pipe stays silent, nor
\* when the file that names its port cannot be read or names none.
Launch ==
    /\ at = "launch"
    /\ \/ /\ browser' = [browser EXCEPT ![attempt] = "running"]
          /\ launched' = attempt
          /\ IF Raw THEN at' = "dial" /\ UNCHANGED <<step, transport, sock, listeners>>
             ELSE Established(attempt, sock)
          /\ UNCHANGED search
       \/ /\ \E left \in {"gone", "orphaned"} :
               browser' = [browser EXCEPT ![attempt] = left]
          /\ Throw /\ UNCHANGED <<launched, transport, sock, listeners>>
    /\ UNCHANGED <<config, attempt, spare, ext, injectors, copies, closing, pings, world,
                   configured, lost, tidy>>

Dial ==
    /\ at = "dial"
    /\ \/ Established(attempt, [sock EXCEPT ![attempt] = "open"]) /\ UNCHANGED search
       \/ /\ sock' = [sock EXCEPT ![attempt] = "closed"]
          /\ Throw /\ UNCHANGED <<transport, listeners>>
    /\ UNCHANGED <<config, attempt, spare, ext, launched, injectors, browser, copies, closing,
                   pings, world, configured, lost, tidy>>

-----------------------------------------------------------------------------
(* The rest of connect().                                                   *)

rest == <<config, attempt, fields, objects, closing, lost, tidy>>

\* Mod.configure is sent, unless there is no server to configure.
Configures == IF config.server THEN at' = "configure" /\ step' = Over
              ELSE at' = "return" /\ step' = 0

\* waitForPeer of a reverse transport resolves, or is rejected.
PeerWaitEnds ==
    /\ at = "peer"
    /\ (Configures /\ UNCHANGED search) \/ Throw
    /\ UNCHANGED <<rest, spare, ext, pings, world, configured>>

\* The answer to Target.setAutoAttach and Target.setDiscoverTargets.
Initialized ==
    /\ at = "initialize" /\ IsOpen(step)
    /\ NextInjector(InjectorsForConfig)
    /\ UNCHANGED <<rest, spare, ext, pings, world, configured>>

BadContextAsked ==                   \* the answers to Runtime.addBinding are not awaited
    \/ /\ at = "enable" /\ IsOpen(step) /\ ext \in attached[step]
       /\ at' = "context" /\ step' = 0
    \/ /\ at = "context" /\ \E a \in Attempts : ext \in attached[a]
       /\ at' = "bind" /\ step' = Over
    \/ at = "bind" /\ Configures

\* The worker's session has to exist on the connection that was asked.
ContextAsked ==
    \/ /\ at = "enable" /\ IsOpen(step) /\ ext \in attached[step]
       /\ at' = "context" /\ step' = 0
    \/ /\ at = "context" /\ \E a \in Attempts : ext \in attached[a]
       /\ at' = "bind" /\ step' = Over
    \/ /\ at = "bind" /\ IsOpen(step) /\ ext \in attached[step]
       /\ Configures

Continue ==
    /\ ContextAsked
    /\ UNCHANGED <<rest, spare, search, ext, pings, world, configured>>

\* waitForExecutionContext is rejected by its timeout or by the session's detach.
ContextFails ==
    /\ at = "context" /\ Throw
    /\ UNCHANGED <<rest, spare, ext, pings, world, configured>>

\* Mod.configure is answered.
Configured ==
    /\ at = "configure" /\ IsOpen(step) /\ (Raw => ext \in attached[step])
    /\ configured' = IF Raw THEN configured \cup {<<attempt, ext>>} ELSE configured
    /\ at' = "return" /\ step' = 0
    /\ UNCHANGED <<rest, spare, search, ext, pings, world>>

\* connect() goes on behind its last await and returns: what the transport had read
\* with the answer, and what listeners do about it, came first. Nobody awaits Mod.ping.
Return ==
    /\ at = "return" /\ at' = "idle"
    /\ ping' = [ping EXCEPT ![attempt] = "asked"] /\ pingOver' = [pingOver EXCEPT ![attempt] = Over]
    /\ waits' = waits \cup {attempt}
    /\ UNCHANGED <<rest, step, spare, search, ext, world, configured>>

\* An error response, the send timeout, or a promise that was rejected at once.
StepRejected ==
    /\ Asking /\ StepFails
    /\ UNCHANGED <<rest, spare, pings, world, configured>>

-----------------------------------------------------------------------------
(* inject() of the injectors.                                               *)

searching == <<rest, spare, pings, target, configured>>

\* prepare() of an injector that is not the one _connectUpstreamTransport prepared.
PreparesAgain ==
    /\ search.stage = "prepare"
    /\ \/ /\ spare' = TRUE /\ step' = Over
          /\ search' = [search EXCEPT !.stage = IF Injector = "load" THEN "load" ELSE "targets"]
          /\ UNCHANGED <<at, ext>>
       \/ InjectorFails /\ UNCHANGED spare
    /\ UNCHANGED <<rest, pings, world, configured>>

\* Extensions.loadUnpacked, then Target.getTargets, are answered.
Loaded ==
    /\ search.stage = "load" /\ IsOpen(step)
    /\ search' = [search EXCEPT !.stage = "targets"] /\ step' = Over
    /\ UNCHANGED <<searching, at, ext, ready, attached, known>>

TargetsAnswered ==
    /\ search.stage = "targets" /\ IsOpen(step)
    /\ LET candidates == {t \in Targets : target[t] = "live" /\ Considers(t)}
       IN  IF LooksAtOne /\ candidates # {}
           THEN \E t \in candidates : NextCandidate({t}, {})
           ELSE NextCandidate(candidates, {})
    /\ UNCHANGED <<searching, ready, attached, known>>

\* ensureSessionIdForTarget: the session is known, is asked for, or is polled for.
Session ==
    /\ search.stage = "session"
    /\ \/ /\ known[search.probing] # 0
          /\ search' = [search EXCEPT !.stage = "probe"] /\ step' = Over
       \/ /\ known[search.probing] = 0 /\ Attaches
          /\ search' = [search EXCEPT !.stage = "attach"] /\ step' = Over
    /\ UNCHANGED <<searching, at, ext, ready, attached, known>>

ProbeTimeout ==
    /\ search.stage = "session" /\ known[search.probing] = 0 /\ ~Attaches
    /\ NextCandidate(search.seen, search.found)
    /\ UNCHANGED <<searching, ready, attached, known>>

AttachAnswered ==
    /\ search.stage = "attach" /\ IsOpen(step) /\ target[search.probing] = "live"
    /\ attached' = [attached EXCEPT ![step] = @ \cup {search.probing}]
    /\ known' = [known EXCEPT ![search.probing] = step]
    /\ search' = [search EXCEPT !.stage = "probe"] /\ step' = Over
    /\ UNCHANGED <<searching, at, ext, ready>>

IsReady(t) == t \in ready

\* Runtime.enable and the ready expression, or the bootstrap of a borrowed worker,
\* are answered; a session of another connection gets errors only.
ProbeAnswered ==
    /\ search.stage = "probe" /\ IsOpen(step)
    /\ known[search.probing] = step /\ search.probing \in attached[step]
    /\ \/ /\ Injector = "borrow"
          /\ \/ /\ ready' = ready \cup {search.probing}
                /\ NextCandidate(search.seen, search.found \cup {search.probing})
             \/ NextCandidate(search.seen, search.found) /\ UNCHANGED ready
       \/ /\ Injector # "borrow" /\ UNCHANGED ready
          /\ IF IsReady(search.probing) THEN Found(search.probing)
             ELSE NextCandidate(search.seen, search.found)
    /\ UNCHANGED <<searching, attached, known>>

DeadlinePasses ==
    /\ at = "inject" /\ Repeats /\ ~search.late
    /\ search' = [search EXCEPT !.late = TRUE]
    /\ UNCHANGED <<searching, at, step, ext, ready, attached, known>>

PauseEnds ==
    /\ search.stage = "pause"
    /\ \/ Expired /\ InjectorFails
       \/ /\ ~Expired /\ step' = Over /\ search' = [search EXCEPT !.stage = "targets"]
          /\ UNCHANGED <<at, ext>>
    /\ UNCHANGED <<searching, ready, attached, known>>

-----------------------------------------------------------------------------
(* The ping that measures the latency.                                      *)

awayButLost == <<config, attempt, at, step, spare, search, ext, configured, tidy>>
away == <<awayButLost, lost>>

PingAnswered(a) ==
    /\ ping[a] = "asked" /\ IsOpen(pingOver[a])
    /\ ping' = [ping EXCEPT ![a] = IF a \in waits THEN "pong" ELSE "done"]
    /\ UNCHANGED <<away, fields, objects, closing, pingOver, waits, world>>

PingRejected(a) ==
    /\ ping[a] = "asked" /\ PingsFailing({a})
    /\ UNCHANGED <<away, fields, objects, closing, pingOver, world>>

\* The promise of a wait resolves: with the event, its timeout, or null.
Settled(A) == [a \in Attempts |-> IF a \in A /\ ping[a] = "pong" THEN "done" ELSE ping[a]]

\* Mod.pong settles every wait there is, the timer of one that one only.
Pong(A) ==
    /\ A \subseteq waits /\ A # {}
    /\ A = waits \/ Cardinality(A) = 1
    /\ ping' = Settled(A) /\ waits' = waits \ A
    /\ UNCHANGED <<away, fields, objects, closing, pingOver, world>>

-----------------------------------------------------------------------------
(* close().                                                                 *)

BadGone(a) == browser

Gone(a) == [browser EXCEPT ![a] = "gone"]

\* What follows once the browser is closed. A raw transport is closed without an
\* await, the pipe without a close event; a reverse one awaits its server.
CloseTransport ==
    /\ sock' = [a \in Attempts |-> IF a = transport /\ sock[a] = "open"
                                   THEN IF config.kind = "pipe" THEN "closed" ELSE "closing"
                                   ELSE sock[a]]
    /\ Loses(IsOpen(transport))
    /\ IF Raw THEN transport' = 0 /\ closing' = [stage |-> "injectors", of |-> injectors]
       ELSE UNCHANGED transport /\ closing' = [stage |-> "transport", of |-> transport]

Close ==
    /\ closing.stage = "no" /\ (at # "idle" \/ fields # <<0, 0, 0>>)
    /\ tidy' = (tidy /\ at = "idle")
    /\ ping' = Settled(waits) /\ waits' = {}
    /\ \/ /\ launched # 0 /\ closing' = [stage |-> "browser", of |-> launched]
          /\ UNCHANGED <<sock, transport, lost>>
       \/ launched = 0 /\ CloseTransport
    /\ UNCHANGED <<config, attempt, at, step, spare, search, ext, launched, injectors, listeners,
                   browser, copies, pingOver, world, configured>>

BrowserClosed ==
    /\ closing.stage = "browser"
    /\ browser' = Gone(closing.of)
    /\ launched' = 0 /\ CloseTransport
    /\ UNCHANGED <<awayButLost, injectors, listeners, copies, pings, world>>

TransportClosed ==
    /\ closing.stage = "transport"
    /\ sock' = [a \in Attempts |-> IF a = closing.of THEN "closed" ELSE sock[a]]
    /\ transport' = 0 /\ closing' = [stage |-> "injectors", of |-> injectors]
    /\ UNCHANGED <<away, launched, injectors, listeners, browser, copies, pings, world>>

InjectorsClosed ==
    /\ closing.stage = "injectors"
    /\ copies' = [a \in Attempts |-> IF a = closing.of THEN {} ELSE copies[a]]
    /\ injectors' = 0 /\ closing' = [stage |-> "no", of |-> 0]
    /\ UNCHANGED <<away, transport, launched, sock, listeners, browser, pings, world>>

-----------------------------------------------------------------------------
(* The browser's side.                                                      *)

\* A socket closes, or a reverse transport loses its peer, in a turn of its own. Whoever
\* listens rejects all that is pending, on whichever transport it was sent.
SocketClosed(a) ==
    /\ at # "return" /\ Loses(a = transport)
    /\ sock[a] = "open" \/ (sock[a] = "closing" /\ Raw)
    /\ sock' = [sock EXCEPT ![a] = IF Raw THEN "closed" ELSE @]
    /\ attached' = [attached EXCEPT ![a] = {}]
    /\ IF listeners[a] > 0
       THEN /\ PingsFailing({b \in Attempts : pingOver[b] # 0})
            /\ step' = 0
       ELSE UNCHANGED <<ping, waits, step>>
    /\ UNCHANGED <<config, attempt, at, spare, search, ext, fields, listeners, browser, copies,
                   closing, pingOver, target, ready, known, configured, tidy>>

WorkerChanges(t) ==
    /\ \/ target[t] = "absent" /\ target' = [target EXCEPT ![t] = "live"] /\ UNCHANGED ready
       \/ /\ target[t] = "live" /\ t \in Own \ ready
          /\ ready' = ready \cup {t} /\ UNCHANGED target
    /\ UNCHANGED <<away, fields, objects, closing, pings, attached, known>>

Hears(a) == IsOpen(a) /\ listeners[a] > 0

\* Target.attachedToTarget by auto-attach, and the end of a worker.
AutoAttached(a, t) ==
    /\ Raw /\ Hears(a) /\ target[t] = "live" /\ t \notin attached[a]
    /\ attached' = [attached EXCEPT ![a] = @ \cup {t}]
    /\ known' = [known EXCEPT ![t] = a]
    /\ UNCHANGED <<away, fields, objects, closing, pings, target, ready>>

WorkerStops(t) ==
    /\ target[t] = "live"
    /\ target' = [target EXCEPT ![t] = "gone"]
    /\ attached' = [a \in Attempts |-> attached[a] \ {t}]
    /\ known' = [known EXCEPT ![t] = IF @ # 0 /\ Hears(@) THEN 0 ELSE @]
    /\ Loses(t = ext)
    /\ UNCHANGED <<awayButLost, fields, objects, closing, pings, ready>>

Next ==
    \/ Connect \/ Prepare \/ Listen \/ Launch \/ Dial
    \/ PeerWaitEnds \/ Initialized \/ Continue \/ ContextFails \/ Configured \/ Return
    \/ StepRejected
    \/ PreparesAgain \/ Loaded \/ TargetsAnswered \/ Session \/ ProbeTimeout \/ AttachAnswered \/ ProbeAnswered
    \/ DeadlinePasses \/ PauseEnds
    \/ \E a \in Attempts : PingAnswered(a) \/ PingRejected(a) \/ SocketClosed(a)
    \/ \E A \in SUBSET waits : Pong(A)
    \/ Close \/ BrowserClosed \/ TransportClosed \/ InjectorsClosed
    \/ \E t \in Targets : WorkerChanges(t) \/ WorkerStops(t)
    \/ \E a \in Attempts, t \in Targets : AutoAttached(a, t)

Spec == Init /\ [][Next]_vars

\* Unpacking, listening, launching and dialling end, well or badly; what was awaited goes
\* on; every timer that is armed fires: of a command, of a wait, of a probe, of a pause and of a search.
Fairness ==
    /\ WF_vars(Prepare) /\ WF_vars(PreparesAgain) /\ WF_vars(Listen) /\ WF_vars(Launch) /\ WF_vars(Dial)
    /\ WF_vars(PeerWaitEnds) /\ WF_vars(ContextFails) /\ WF_vars(StepRejected)
    /\ WF_vars(Return)
    /\ WF_vars(Session) /\ WF_vars(ProbeTimeout) /\ WF_vars(DeadlinePasses) /\ WF_vars(PauseEnds)
    /\ \A a \in Attempts : WF_vars(PingRejected(a)) /\ WF_vars(Pong({a}))

FairSpec == Spec /\ Fairness

-----------------------------------------------------------------------------
(* Properties.                                                              *)

\* No command is left pending on a websocket that is gone: whenever it went, whoever
\* closed it, its close event rejects what was sent over it.
PendingCanSettle ==
    config.kind = "ws" =>
        /\ Asking /\ step # 0 => sock[step] \in {"open", "closing"}
        /\ \A a \in Attempts :
             ping[a] = "asked" /\ pingOver[a] # 0 => sock[pingOver[a]] \in {"open", "closing"}

\* As long as close() is called after each connect(), also after one that failed, and
\* never beside one, whatever is running or unpacked is the client's to close, at
\* whichever step a connect() failed; after close() that is nothing. The exceptions are
\* a reverse server that listens for a launch that fails, a browser that a launch leaves
\* when it throws ("orphaned": a silent pipe, an unreadable port), and what the search
\* unpacks for itself (spare).
TidyUseLeaksNothing ==
    tidy /\ at = "idle" /\ closing.stage = "no" =>
        \A a \in Attempts :
            /\ browser[a] = "running" => launched = a
            /\ copies[a] # {} => injectors = a
            /\ Raw /\ sock[a] = "open" => transport = a

Serves == IsOpen(transport) /\ ext \in attached[transport]

\* A worker that stops, a connection that ends and a close() that reaches the transport
\* make connect() fail, at whichever of its steps on the worker's session they come: it
\* returns only where none of them came before the answer to its last command. Then the
\* worker is ready, is configured by this very call exactly if there is a server to
\* configure, and its session is open, unless it was lost since that answer, in the turn
\* in which connect() returns.
ConnectedIsReady ==
    [][Raw /\ at = "return" /\ at' # "return" =>
         /\ ext \in ready /\ (config.server <=> <<attempt, ext>> \in configured)
         /\ lost # "on the way" /\ (lost = "no" => Serves)]_vars

\* Every connect() ends, with or without an extension, a browser or an answer, and
\* although workers come and go meanwhile.
ConnectReturns == at # "idle" ~> at = "idle"

\* Every measurement of the latency ends, although no one awaits it: there comes a time
\* when none is under way.
PingsEnd ==
    (\E a \in Attempts : ping[a] \in {"asked", "pong"})
        ~> (\A a \in Attempts : ping[a] \in {"none", "done"})

\* Whatever connect() starts ends, awaited or not.
ConnectEnds == ConnectReturns /\ PingsEnd
=============================================================================
