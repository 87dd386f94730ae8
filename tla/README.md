# ModCDP: a verification project

TLA+ models, TLC runs and TLAPS proofs for ModCDP
(`chrome-cdp-extension-bridge`), the bridge between a Chrome DevTools Protocol
client and a service worker that runs inside the browser as an extension. The
TypeScript sources under `src/js` are the reference; Python and Go ports of the
client exist beside them.

- [1. The system](#1-the-system)
- [2. What is hard](#2-what-is-hard)
- [3. Modules](#3-modules)
- [4. Runs](#4-runs)
- [5. Fairness](#5-fairness)
- [6. Proofs](#6-proofs)
- [7. Where code and documents disagree, and what surprises](#7-where-code-and-documents-disagree-and-what-surprises)
- [8. Not modelled](#8-not-modelled)
- [9. Plan](#9-plan)

## 1. The system

| component | code | state | operations |
|---|---|---|---|
| client | `js/src/client/ModCDPClient.ts` | `next_id`, `pending`, `transport`, the cached `ext_execution_context_id`, `connect` bookkeeping | `connect`, `send`, `_sendMessage`, `_onRecv`, `_rejectAll`, `close` |
| session router | `js/src/router/AutoSessionRouter.ts` | `target_sessions`, `session_targets`, `execution_contexts`, waiters, detached-session guards | `attachToTarget`, `recordProtocolEvent`, `waitForExecutionContext` |
| upstream transports | `js/src/transport/*` | one socket, pipe or NATS connection; for reverse transports a registered peer and its waiters | `connect`, `send`, `onRecv`, `onClose`, `waitForPeer`, `close` |
| proxy | `js/src/proxy/proxy.ts` | per downstream connection: id table, hidden sessions and targets, fan-out sessions; in reverse mode one registered peer and a wait set | `startProxy`, `handleConnection`, `handleReverseConnection`, `acceptReversePeer`, `close` |
| server | `js/src/server/ModCDPServer.ts` | loopback sockets, `loopbackPending`, sessions, debuggees, routes, middlewares, bridges | `handleCommand`, `configure`, `startReverseBridge`, `startNatsBridge`, `addMiddleware`, keep-alive |
| injectors | `js/src/injector/*` | what was loaded, discovery deadlines | find, load or borrow the extension |
| launchers | `js/src/launcher/*` | the browser process | `launch`, `close` |
| translation | `js/src/translate/translate.ts` | none | `routeFor`, wrapping commands into `Runtime.evaluate`, unwrapping answers and events |
| service worker entry | `extension/src/service_worker.ts` | the server's life in a browser that may stop it | bridge start-up, offscreen keep-alive |
| ports | `python/modcdp`, `go/modcdp` | the client's state under locks, mutexes and channels | as the client |

How they interact. A caller's `send` enters a *client*, which wraps the command
(*translation*), gives it an id, and hands it to its *transport*. The transport
reaches the browser directly (`ws`, `pipe`), or the *server* in the service
worker (`reversews`, `nativemessaging`, `nats`), where the peer dials in and
sends a hello first. The server routes the command to its own handlers, to a
*loopback* CDP socket it opens back to the browser, or to `chrome.debugger`.
Events travel the other way; the client's *session router* listens to them to
know which session serves which target and which execution context it has. The
*proxy* is a process of its own that makes a plain CDP client believe it talks
to the browser: it owns the wire on both sides and renumbers commands.

In TypeScript each handler runs to completion and everything between two
`await`s is atomic, so an action of a model is a handler, or a handler up to its
next `await`. The environment is what the code cannot control: the order of
events of different sockets, timers, when a peer dials in, is replaced, closes
or fails, when an answer arrives, and when Chrome terminates the service worker.
Sockets differ where it matters: one of the `ws` library that is CLOSING still
delivers messages until its `close` event, a browser's `WebSocket` does not.

What makes each component correct:

- *session router*: the tables follow the browser's own view although events
  arrive late; a waiter is settled once, by its own session, or by its timeout;
  no detached session comes back.
- *command table*: a command is dispatched at most once and settled at most
  once, by its own answer; a command with a timeout settles, over any transport.
- *connect and close*: `connect()` ends; when it returns without error the worker
  is ready and configured; `close()` reaches whatever a failed `connect()` left.
- *transports*: one registered peer; nobody waits while it could serve; what is
  read is what was sent, wherever the stream is cut.
- *proxy*: a command is neither lost nor answered twice, answers reach the client
  that asked, the worker stays hidden; when the upstream goes the client learns
  it; `close()` ends and leaves nothing.
- *server*: an endpoint is dialled once for all who need it; a pending command
  can always be answered or ends; the session table follows every browser it
  serves; a command runs once, where the routes say; an event does not overtake
  without need; a bridge that is down is dialled again.
- *translation and routes*: the client and the server choose the same route.

## 2. What is hard

`PROJECT.json` lists every hazard with its line and the properties that watch
it. The themes:

- **State read before an `await` and used after it.** `attachToTarget` reads the
  session table, asks the browser, and writes. `_sendMessage` awaits a peer and
  goes on though its command may have timed out. The server caches dial promises.
- **Two identities for one name.** Two clients of one reverse socket number
  their commands alike; the proxy and the connection's own client share an
  upstream socket; two sessions serve one target; a replaced peer's close event
  arrives after its successor's hello.
- **Late events.** Context events after the detach of their session, hellos
  after the hello timeout, close events after the next wait has begun.
- **Limits.** The detached-session guards are bounded and evict the oldest.
- **Timeouts.** Hello, peer-wait, send, ping and context timeouts each race the
  event they guard; some outlive it.
- **Partial failure.** `connect()` builds up a server, a browser, unpacked
  extensions, sessions and a ping, and may fail after any of them.
- **Silence.** A replaced peer, a NATS subscriber that left and a worker that
  Chrome terminated say nothing when they go.
- **Bytes and characters.** Frames are measured in bytes, buffers in characters.
- **Shutdown.** `close()` awaits servers that still accept peers.

## 3. Modules

Every `X` but the abstract `CommandCalls` has an `MCX` that instantiates it for TLC,
and theorems, in `XProofs`. Two share a module of proofs with one they belong to, and
with which they have no name in common: `ProxyLifecycle` is at the end of
`WsBridgeProofs`, both being about the proxy's direct connections, and `Framing` at the
end of `ClientTransportsProofs`.

| module | code | size of the matter |
|---|---|---|
| `AutoSessionRouter` | `router/AutoSessionRouter.ts` | session and context tables of a client |
| `CommandCalls` | none: what `ModCDPClient.send` promises | abstract specification |
| `ClientTransports` | `client/ModCDPClient.ts`, `transport/*` | pending commands over each of the five transports |
| `ClientConnect` | `client/ModCDPClient.ts`, `injector/*`, `launcher/*` | `connect()`, `close()` and the ping |
| `Framing` | `transport/*`, `server/ModCDPServer.ts` | streams cut into messages |
| `ProxyLifecycle` | `proxy/proxy.ts` | how connections of the proxy start and end |
| `WsBridge` | `proxy/proxy.ts` | the messages of one direct connection |
| `ReverseProxy` | `proxy/proxy.ts` | the unmanaged `reversews` mode, connections and messages |
| `Bridges` | `server/ModCDPServer.ts`, the service worker's entry and offscreen document | how the worker is reached, and comes back |
| `ServerCommands` | `server/ModCDPServer.ts`, `translate/translate.ts` | middlewares, routes, handlers, `chrome.debugger`, publication of events |
| `LoopbackCDP` | `server/ModCDPServer.ts` | the loopback CDP sockets |

### AutoSessionRouter

`js/src/router/AutoSessionRouter.ts`, whole. The variables have the names of the
class's fields; `timers` is the set of armed `setTimeout`s and `pc`, `wanted`,
`session`, `result` are the stack of each caller. One action per handler, and one for
what goes on behind each `await`:

| action | code |
|---|---|
| `AttachToTarget`, `AttachReturn` | `attachToTarget` up to its `await` and behind it |
| `AttachResponse`, `AttachError` | the promise of `send` is settled, with a session, without one, or with an error |
| `WaitForExecutionContext`, `WaitWithoutSession`, `WaitTimeout` | `waitForExecutionContext`, also without a session, and its timer |
| `AttachAnnounced`, `AutoAttach`, `Detach`, `DeliverContext` | `recordProtocolEvent` for each kind of event |
| `EmitContext` | the renderer; it only puts an event in flight |

`live` is the browser's view as told to the client so far, and `emitted` the
context events in flight, which may be delivered after the detach of their
session: that is what the guards of `markDetachedSession` are for. A session id
may be attached again.

`Chunked` says that the transport handles all messages of a chunk in one turn, as the
pipe does (`PipeUpstreamTransport.ts:67`): then a message behind a response, such as the
detach of the session it carries, is handled before the `await` it settles goes on.
Where it is false, as over a browser's websocket, `NextMessage` lets what was answered go on
first. The run takes the first, which has all behaviours of the second. `overtaken` is
a history variable: the callers whose session was detached in between.

Abstractions: an event carries only its session, target or context; the
filter on the default context is what makes `Contexts` those the code would
record; timeouts have no durations.

`TablesFollowBrowser` joins `MappedSessionsLive` (an entry names an attached
session of its target) and `GuardedSessionsClean` (a guarded session is detached and
without context; once its guard is evicted a late event may bring a context back) with
`EntryLostToSibling`: an attached session loses the entry only to a session of the same
target, which is as much as the code keeps (section 7). `AttachReturnsServing` says that
a dead session is returned only if `overtaken` has the caller. `WaitersKept` joins `WaitersArmed` (a wait is pending
exactly while it is in its session's table with its timer armed) with
`NoMissedContext` (nobody waits for a context that is known).

### CommandCalls and ClientTransports

`CommandCalls` is the abstract promise of `ModCDPClient.send`: a status, the
set of dispatched calls, and the outcome each one resolved with. It names no
ids, tables, timers or peers.

`ClientTransports` composes the client's command table (`_sendMessage`, the
response half of `_onRecv`, `_rejectAll`, `close`) with the transport it is given,
because the hard part is between them: the promise, its timer and the
asynchronous `transport.send`, which may wait for a peer, end independently.
`mode` is chosen in `Init` and says which of the five transports it is:

| mode | a peer | is there when | its loss |
|---|---|---|---|
| `ws`, `pipe` | the browser the client has connected to | not asked | is emitted, also when `close()` came first (`ws`) |
| `reversews` | a socket that has said hello (`PeerConnect`, `AcceptHello`, `RefuseHello`, `HelloTimeout`) | the registered socket is OPEN | is emitted if it is the registered one |
| `nativemessaging` | a socket of the native host (`NativeConnect`), at once and instead of the one before, which is destroyed | one is registered | likewise |
| `nats` | a subscriber of the broker (`Subscribe`, `Hello`, `Unsubscribe`) | a hello was ever heard (`peer_seen`) | goes unnoticed; only the broker's own link is heard to end (`LinkEnds`), which resets neither `connected` nor `peer_seen` |

`SendMessage` has a disjunct for each way a send goes: it is written, it waits, it
throws. Written is not received: `Receivers` says who is there to read, `Delivers`
what still comes back. `CloseReverse` to `CloseLink` are the five `close()`s.
`INSTANCE CommandCalls` with the variables of the same names is the refinement
mapping: `ImplementsCommandCalls == CC!Spec`, `TimedCallsSettle == CC!FairSpec`.
The abstract specification says out loud what a caller may not rely on: a command
whose promise was rejected can still be dispatched later, by a send that was
waiting.

Abstractions: a connection of a peer is used once, so a reconnecting extension is
a further peer; over `nats` one service worker is subscribed at a time and one
client uses a subject prefix, because two of them number commands alike and take
each other's answers, as two clients of a reverse proxy do. A transport object is
not connected again after `close()`.

### ClientConnect

`connect()` and `close()` of `ModCDPClient.ts`, step by step: the injectors are
prepared (`Prepare`), a server transport listens before the launch (`Listen`),
the browser is launched (`Launch`), the transport dials (`Dial`) or waits for its
peer (`PeerWaitEnds`), the search asks for the worker (`PreparesAgain` to
`PauseEnds`, with the configured injectors in their order, a deadline, targets
that come and go, and a probe of each candidate), then the steps on the session
that was found (`Continue`), `Mod.configure` where there is a server (`Configures`,
`Configured`), the return (`Return`), and the ping that is started and not awaited
(`PingAnswered`, `Pong`). Between the last answer and the return lies what the transport
had read with that answer and what listeners do about it: a worker's end, a `close()`;
the end of a socket comes in a turn of its own. Each may fail (`StepFails`, `StepRejected`,
`ContextFails`). `attempt` numbers the calls of `connect()` and everything one of
them makes carries its number: transport, browser, unpacked extensions,
listeners. `close()` runs beside `connect()` at any step.

Abstractions: which target an injector matches is `Own` or a choice; `tidy` is an
observation, that the program calls `close()` after each `connect()`; `lost` is
another, when the worker that was found or the transport went: before the last answer or
since.

### Framing

How `PipeUpstreamTransport`, the native-messaging reader, `NatsUpstreamTransport`
and the server's NATS bridge cut a stream into messages. `Frame` is what the other
side writes, `Cut` the test each loop makes on its buffer and `Consume` the loop.
Data is what framing tells apart: characters of one byte (`narrow`) and of two
(`wide`), delimiters, sizes; the length before a native message has two bytes
in place of four. `FrameArrives` and `BlobRead` are the two halves of reading a
websocket frame, whose `Blob` is awaited. `Consume` is a recursive function over the
turns of the loop: a turn takes a message (`Turn`), there are no more turns than
characters, and a turn that finds no message changes nothing.

### ProxyLifecycle

`startProxy` in the modes `ws`, `client_managed` and `managed_reverse`.

| action | code |
|---|---|
| `Start` | `startProxy` up to listening, or its failure |
| `Accept`, `Wire`, `Refuse` | `handleConnection` and `handleClientManagedConnection` up to and after the awaited `cdp.connect()` |
| `Leave`, `Gone` | a client disconnects, and the `close` listener, if there is one by then |
| `UpstreamLost` | the listeners on the upstream websocket |
| `CdpClosed` | the awaited `cdp.close()`, which also runs for a client that has left |
| `MonitorFires` | the interval of `monitorUpstream` |
| `Close`, `CdpsDrained`, `ManagedClosed`, `ServersClosed` | `close()` between its awaits |

`activeCdps` is the code's set. `established` and `late` are observations: the
clients whose connection was established when `close()` began, and those that
connected afterwards, which the servers still accept.

### WsBridge

One connection of `handleConnection`: a client, the upstream websocket and a
browser. Commands wait in `earlyBuffer` while the proxy connects (`ReceiveEarly`)
and are replayed by `Bridge`; `HandleClientMessages` renumbers them from
`next_upstream_id` into `pending` and wraps `Mod.*` commands; `HandleResponse`,
`HandleBinding`, `HandleAttached`, `HandleDetached` and `HandleEvent` are the
branches of `handleUpstreamMessage`. `BrowserAnswers`, `BrowserAttaches`,
`BrowserDetaches`, `BrowserObeys` and `BrowserEmits` are the browser: it answers
in any order, with results, errors and exceptions, and attaches sessions to a page
and to the worker (orphans) on its own; a detach names the target or leaves it out. `hidden_session_ids`,
`client_session_ids` and `target_session_ids` are the code's sets.

Abstractions: a message carries its method, session and what it is about;
`requests`, `session` and `channel` are the browser's side. `out` is what the last
step sent to the client. `MaxChannel` bounds messages in flight and `MaxUnseen`
the sessions attached before the proxy listens.

### ReverseProxy

The unmanaged `reversews` mode of `js/src/proxy/proxy.ts`: `startProxy`'s two
servers, `acceptReversePeer`, `waitForReversePeer`, `rejectReverseWaiters`,
`handleReverseConnection`, `handleReverseClientMessage`,
`handleReverseUpstreamMessage` and `close`. A peer is one socket of an
extension and is used once, so a reconnecting extension is a further peer;
likewise for clients. `ready` is the socket's `readyState` (with `errored` for
the time between `error` and `close`), `conn` that of a client's socket.
`requests[p]` and `attached[p]` belong to the environment: what the extension
is executing and which sessions it has attached. An answer is a pair of a
client and a command, which is all that `SoleClientOwnAnswers` distinguishes.

### Bridges

How the service worker is reached: `startReverseBridge`, `startNativeBridge` and
`startNatsBridge` with their `stop`s (`Start`, `Stop`), the `connect…Bridge` calls
(`Connect`), socket events (`SocketOpens`, `SocketCloses`, `SocketClosed`), the
reconnect timer (`TimerFires`), and commands that arrive over a bridge and are
answered when `handleCommand` is done (`CommandArrives`, `CommandAnswered`).
`kind` is chosen in `Init`. With them the worker's life: `Load` is the evaluation
of `extension/src/service_worker.ts`, `Terminate` is Chrome, which takes sockets,
timers and variables and leaves the offscreen document, and `DocumentConnects` is
the document, whose port wakes the worker. `Ensure`, `Checked` and `CreationEnds`
are `ensureOffscreenKeepAlive` between its awaits.

### ServerCommands

`handleCommand` of the server: request middlewares (`NextMiddleware`,
whose chain may end in a value, nothing or an exception), the route or handler
(`Dispatch`), the upstreams (`HandlerEnds`, `LoopbackEnds`, and `ResolveDebuggee`,
`Attach`, `Enable`, `Send` of `sendChromeDebugger`), and the response middlewares
(`Respond`). Beside it `Configure`, `AddCustomCommand` and `AddMiddleware` change
the registries, and `BrowserDetaches` and `OtherDebugger` the debuggees. Events of
the loopback pass `EventArrives`, `EventCommandEnds` and `EventChainEnds`: that of
an attached page awaits two commands before it is published.
`RouteOf` is the server's loop over `this.routes`, `RouteFor` the `routeFor` of
`translate.ts`, each with its own default. `routes` is a sequence because the loop sees
insertion order.

### LoopbackCDP

The loopback side of `js/src/server/ModCDPServer.ts`: `loopbackWS`,
`callLoopbackWS`, `initializeLoopbackCDP`, `sendLoopback`,
`discoverLoopbackCDP`, `waitForLoopbackExecutionContext`,
`rejectLoopbackPending`, and as much of `handleCommand` and `configure` as
decides when they run.

A *caller* is one call of `handleCommand` or `configure`, and `call[k]` is its
stack: which command it is about to send or has sent (`op`), where it stands
(`at`), and what the code holds in local variables across awaits (`target`,
`session`, `ws`, the `init` socket of `initializeLoopbackCDP`, the `previous`
endpoint of a discovery). A configuration without routes first discovers and then,
whatever came of it, runs its own `initializeLoopbackCDP`; its record changes
from `discover` to `configure`.

Promise continuations run before the event loop takes its next event. So a
caller at `socket` or `have` is `Running`, and every event needs `Idle`: two
callers resumed by one event interleave with each other, but no timer and no
message comes between.

| action | code |
|---|---|
| `StartCommand`, `StartConfigure`, `StartDiscover` | `handleCommand` and `configure` up to their first await |
| `Fetched`, `FetchFailed` | `/json/version` of the local port |
| `GetSocket` | `loopbackWS`: the open socket, the shared promise, or a new dial |
| `HaveSocket` | after it: `initializeLoopbackCDP` looks at the socket, `callLoopbackWS` sends |
| `SocketOpens`, `DialFails` | the dial promise settles, for all who await it |
| `SocketClosing`, `SocketLost` | the close frame, and the `error` and `close` listeners |
| `AutoAttached`, `AttachedAsRequested`, `Detached`, `ContextCreated` | the `message` listener on each kind of event |
| `Answer`, `AnswerThrows` | the `message` listener on an answer, and the caller that goes on |
| `Timeout`, `ContextTimeout`, `TabsAnswer` | timers, and `chrome.tabs` with `chrome.debugger.getTargets` |

`requests`, `enabled`, `attached` and `serves` are the browser's: what it has
been asked and has not answered, what it has switched on, and which session it
has attached where. `loopbackPromises[e]` is the socket of the cached promise; a
rejected promise stays in the cache, as in the code.

Abstractions: a request carries its caller, kind and operation in place of the
number that `nextLoopbackId` gives it, and these identify it because a caller
sends each operation once. The `error` and `close` listeners run in
succession and do the same clean-up, so they are one action. Whether an answer is usable
is nondeterministic where the code looks only at its content (`AnswerThrows`),
and decided by `Own` for the token of discovery. Commands sent by listeners are
callers like any other. Middlewares, handlers, `sendChromeDebugger` and the
publication of events are `ServerCommands`'; here a caller ends there.

### MC modules and mutants

The `MC` modules define symmetry sets and instances. Three restrict: `MCClientConnect`
the workers that run at the start, `MCFraming` the streams with a long message to one and
behaviours in which frames that cut a message overlap (nothing is claimed of those), and
`MCServerCommands` to one
registration, with calls and events explored apart, because they share only
registries that neither writes. Operators called `Bad...` in the modules are
faulty variants of the operator that follows them; no specification uses them.
`PROJECT.json` pairs every property with the variant that breaks it.

## 4. Runs

| run | instance | shows |
|---|---|---|
| `router` | 2 targets, 2 sessions, 1 context, 2 callers, 1 guard | the session table follows the browser while guards are evicted; a dead session is returned only after a detach of the same turn; waiters and results under every interleaving; every wait ends |
| `client_transports` | 5 modes, 3 calls, 2 of them timed, 2 peers | `CommandCalls` is implemented; nothing is rejected by another's fate; the timed calls settle |
| `client_connect` | 6 configurations, 2 targets, 2 calls of `connect()` | a failure at any step, `close()` at any step: commands settle, nothing is left but by a launch that throws, a loss on the way makes `connect()` fail, everything ends |
| `framing` | 4 readers, 4 texts, 3 messages, 2 overlapping reads | what arrives whole wherever the stream is cut, and what wide characters cost |
| `proxy_lifecycle` | 3 modes, 2 clients | `close()` reaches what was established and ends; nobody stays on a dead browser |
| `ws_bridge` | 2 commands, 1 page session, 1 orphan, 2 messages in flight | answers are steered, order is kept, the worker is hidden but for ends that name no target, custom events reach the attached sessions |
| `reverse_proxy` | 2 peers, 2 clients, 2 commands each | one open peer, waits only without it; nothing lost; a client alone gets its own answers |
| `reverse_proxy_live` | 2 peers, 1 client, 1 command | waits and broken bridges end, `close()` ends |
| `bridges` | 3 kinds, 2 endpoints, 2 sockets, 1 command, 1 termination | one connection at most; answers go back where the command came from; it is connected again |
| `server_commands` | 2 calls, 2 methods, 1 debuggee, 1 attach and 2 other events | a command runs once; debuggees are the worker's; routes agree; only what waits is overtaken |
| `loopback` | 2 callers, 1 endpoint, 2 sockets | dials are shared, no pending entry outlives its socket, an initialized socket has both subscriptions, every caller ends although nobody answers |
| `loopback_discovery` | 2 callers, 2 sessions of 1 target, a foreign browser on the local port | a discovery that fails alone restores the previous endpoint; the session table follows the browser though two commands attach twice |

Why these bounds. Every hazard here needs two of something: two sessions of one
target, two peers of which one replaces the other, two clients with the same
id, two sockets of a bridge of which one closes late. One guard for two sessions is
what makes guards evict. A third call is needed to see one call's fate leak into
others while one is dispatched and one waits. Two commands per client are what
replay order and id reuse need; three messages are what damage needs to have a
neighbour on each side, and eight wide characters what it needs to reach into the line
break before the next message but one, where it is at its worst (`Spared`). Two calls of `connect()` are what a late close event needs
to reach the wrong one. One termination of the worker is enough because nothing of
it survives but the document, whose states are all reached before. Symmetry is
used where model values are only compared, and never in a run that checks
liveness. The proofs of section 6 cover all other sizes.

`CHECK_DEADLOCK FALSE` is set where the system comes to rest: once `close()` has
ended and every promise is settled, all of a stream was read, or all callers have
ended, there is nothing left to do. The router and the bridges never stop, and
their runs check deadlock.

Bounds that are guards: `MaxChannel`, `MaxUnseen`, `MaxCommands` (`WsBridge`),
`MaxSockets`, `MaxCommands`, `MaxTerminations` (`Bridges`), `MaxAttempts`
(`ClientConnect`), `MaxMiddlewares` (`ServerCommands`), `Count`, `MaxReads`
(`Framing`). Elsewhere ids are handed out once per call or command, and those are
finite sets. Sockets of the loopback are used once, so they bound the
number of dials; `Spare` lets an open socket be lost only while
every endpoint can still be dialled, so that no caller is stuck for want of
a `WebSocket` object. The proofs have no bound but these guards, and do not use
them.

`InitializedIsEnabled` is a property of one endpoint. When `configure()` changes
the endpoint between the two commands of an `initializeLoopbackCDP`, the second
goes to the new endpoint's socket and the first one's is marked; the code
behaves so, and no document says what it should do.

## 5. Fairness

Only what the event loop, the `ws` library and the runtime owe:

- an armed `setTimeout` or interval fires unless it is cleared: weak fairness of
  `WaitTimeout`, `HelloTimeout`, `SendTimeout`, `PeerWaitTimeout`, `TimerFires`,
  `MonitorFires`, `ProbeTimeout`, `DeadlinePasses`, `PauseEnds`, and the command
  and context timeouts of `LoopbackCDP`;
- `ws` ends a closing handshake by itself within 30 seconds, so a socket that
  is closing or has failed emits `close`: weak fairness of `PeerClosed`, of
  `ClientClosed` while closing, of `Gone`, `UpstreamLost` and of the socket events
  of `Bridges`;
- a server's `close` callback runs once its sockets are gone: weak fairness of
  `ClientsServerClosed`, `ReverseServerClosed`, `ServerClosed`, `Closes`;
- promise continuations run, and what the runtime does for a program comes to an
  end one way or the other: `AttachReturn`, `Return`, `GetSocket`, `HaveSocket`, a `fetch`, a dial, a query of
  `chrome.tabs`, `Prepare`, `Listen`, `Launch`, `Dial`, `Wire` or `Refuse`,
  `CdpClosed`, and the document's attempts to connect (`DocumentConnects`);
- in `ClientConnect`, what a command's own timeout or the end of its socket brings
  about (`StepRejected`, `PingRejected`, `ContextFails`, `PeerWaitEnds`), and
  `Session` and `Pong`, which have a timeout of their own in their disjuncts.

Nothing is assumed of the browser, of extensions, brokers or callers: no answer,
hello or reconnection is ever promised. So liveness is about what the code does
when the other side stays silent. `ServerCommands`, `WsBridge` and `Framing` check
no liveness. `CloseEnds` carries an exception that the code really has: who
connects during `close()` is accepted, and the server outlives it. `ConnectsAgain`
has a premise: peers that stay up, a document, and a configuration that stays.

## 6. Proofs

Ten modules are proved about, for every value of the constants, from the
assumption on constants that each module names (the "no value" constants are not
values; at least one guard; ids are numbers, ...).

**Router.** `TypeCorrect` includes that guards are distinct and within
`max_detached_session_guards`. `WaitersArmed`, `NoMissedContext` and
`GuardedSessionsClean` are inductive beside the types. `MappedSessionsLive` is
not: `session_targets` decides which entry a detach removes, so the invariant
`MappingInv` adds that `session_targets` is the browser's `live` at every
moment. `AttachReturnsServing` needs `ReturnInv`: between its response and its return
a caller's session serves its target or is `overtaken`. It, `TablesFollowBrowser` and
`WaitsSettledBySession` are action properties over these invariants. `ContextsOfLiveSessions` is false in general
(an evicted guard lets a late event through, as the code's bound accepts) and
is proved under `GuardsSuffice`: no more sessions than guards. The strengthening
says that a session with an event in flight is live or guarded, and the lemma
`NoEviction` that a duplicate-free list of sessions is no longer than their number.

**Client.** `CallInv` relates table, status and ids: entries are exactly the
pending promises, a call that was not made is nowhere (`Issued`), ids are distinct
and below `next_id` (`DistinctIds`), what peers execute is disjoint and was
dispatched (`OnePeerEach`), and at most one peer reads what is written
(`OneReceiver`: over `nats` one open subscriber and no socket, else no link).
Distinct ids are what makes an answer resolve its own call. From it follow
`CallsDispatchedOnce`, `PendingStayArmed`, `RejectionsHaveReasons` and
`Refinement`: initial states map to initial states and every step of the client,
over any transport, is a step of `CommandCalls` or a stutter. `PeerInv` (the
registered peer's close event has not come, and nobody waits while one is there)
gives `WaitsOnlyWithoutPeer` and `CloseResets`.

**Loopback.** None of the three safety theorems is inductive alone, and they
lean on one invariant of five parts. `TypeInv` holds the types and `Good` of
every caller: which commands its kind sends, and that it has no session until
its attach is behind it. `SocketInv` adds to `OneSocketPerEndpoint` that an
open socket is the registered one of its endpoint and a dial under way the
cached one, which is why a caller that finds neither may dial.
`PendingInv` adds to `PendingCanBeAnswered` that a caller which has just got its
socket has an open one. `RequestInv` ties a request to its caller: an attach is
either awaited with the same target or past, and a session given to it is
attached to that target on the socket of the request. Without it an answer
could map a session to a target that it does not serve. `MapInv` adds to
`MappedSessionsAttached` that `session_targets` agrees, because a detach without
a `targetId` looks the target up there. The moves of callers are treated once:
`Follows` and `Stays` say what a caller's next record keeps, the lemmas of the
first section prove it for every continuation, and the frame lemmas
(`RequestFrame`, `PendingFrame`) turn it into the invariant of a step.
`FailedDiscoveryForgets` needs `DiscoveryInv`: where no `configure()` names an
endpoint (elsewhere the property asks nothing), only the local one is ever in use,
and a discovery that no other has overlapped remembers another one than that, which it
will restore at whichever of its awaits it fails. `OneEndpointEnabled` needs
`EnablingInv`: the two commands of an initialization are answered on the socket that it
will mark, or that socket is closed by then; requests are in their caller's order
(`OrderInv`), so that an answer is the one awaited. Its hypothesis is that the
loopback endpoint is one and the same, or none, throughout: with two, the code marks a
socket that missed a command (the hazard at `ModCDPServer.ts:937`), and the property
is false.

**Reverse proxy.** `PeerInv` (of the peers that said hello only the registered one
is open, and the wait set is empty while it is) is inductive with the types and
gives `OneOpen` and `WaitsAreNeeded`. `BridgeInv` adds which clients listen to
which peer, for `BridgesEnd`; `TableInv` keeps the ids of a client's
table below its counter and its commands apart, and `RequestInv` ties what a peer
executes to the table of the client that sent it, for `FanoutIsAttached`,
`AnswersOnce` and `SoleClientsServed`. `AccountInv`, for `NothingLost`, adds that a
bridged client's peer has connected.

**Proxy life cycle.** `Tracking` (`activeCdps` has exactly the ModCDPClients that are not
closed yet, while the proxy listens) and `Draining` (what was established when
`close()` began is closing or closed, by the await that `close()` is at) give
`AllTracked` and `NothingLeft`.

**`connect()` and `close()`.** Three invariants beside the types. `PlaceInv` ties where
`connect()` stands to where its search for the worker stands, and says that the search
has found only workers that are ready. `WireInv` says that
whatever is sent goes over a transport whose messages are still listened to, which is the
current one as long as it is open, and that over a websocket a command or a ping that is
pending has a socket that has not closed: `NothingHangs`. `TidyInv` says, of a use that
is tidy, that what runs is what the fields hold (the browser is `launched`'s, the
unpacked extensions are `injectors`', the open transport is `transport`) and what
`close()` still has to release at each of its steps; without it `TidyUseIsClean` is not
inductive, because `close()` reads the fields across its awaits. `ServeInv`, inductive
beside these, is what `ReadyWhenConnected` rests on: once the worker's session was asked
and answered it is there as long as nothing was lost, and a loss on the way is for good
(a worker that is gone does not come back, a transport is not opened again), so that the
answer to the next command cannot come.

**WebSocket bridge.** `WireInv` splits the client's commands into what is in the
inbox, in `earlyBuffer` and upstream, which is `NoneOvertaken`. `SteerInv` says
that the ids in `pending` are between `FirstId` and `next_upstream_id`, so that
none is the ModCDPClient's, that they steer to distinct commands, and that a request
or answer in flight whose id is there is about that command; with `OutInv`, on
what a step may send, it gives `EachItsAnswer`. `SessionInv` follows each session's attach and detach events
through the channel (`QueueInv`: one of each at most, in order, and true), and says
that a worker's session is hidden before its first event is handled (`HideInv`), and by
its target for as long as an event of it names that,
for `WorkerStaysHidden` and `FanoutIsAttached`.

**Bridges.** `WorkerInv` adds to the one connection, the socket or timer of a started
bridge and the quiet of a stopped one that a terminated worker leaves no timer and
no socket; it gives `OneAtMost`, `Persistent` and `StopsForGood`. `SocketInv` says
that a socket that is not closed has an endpoint, and `AnswerInv`, for
`AnswersComeBack`, that a command being handled came from the peer its socket was
opened for, or over `nats` from that of the configured prefix.

**Server commands.** `CallsInv` follows where a command was executed from the place
its call is at, for `OneExecution` and `RefusedStays`; `DebuggeeInv` does so for the
debuggee of a call that is attaching, for `AttachedIsOurs`. `SameRoute` is about two
rules: the server's takes the first pattern that covers a method, the clients' the
longest. They agree but where `Domain.*` stands before a method of the domain
(`Shadowed`), because a table has each key once (`Keyed`), of the defaults and of what
`configure()` merges into them, and always `*.*` (`MergeKeeps`, `RoutesStay`): the
fallbacks, in which the two differ, are never used. That the merge keeps this is shown
by induction along the configured routes (`NewEntriesTaken`). `OnlyWaitingOvertaken` needs `EventsInv`: an event that is at a
middleware or an awaited command has waited, and what was published is at its end.

**Framing.** `NarrowInv` has two parts beside the types. `ApartInv`: as long as no frame
arrives while another is being read, the buffer is what has been read of a message that
has not arrived whole, and what was delivered is the messages before it. `WholeInv`: as
long as every chunk ends with a message, frames may overlap; the buffer is empty, the
frames that are being read hold sets of messages that are disjoint, and as many messages
were delivered as are in none of them, each of these among them. That a step keeps both
rests on `ConsumeTakes`: from a buffer that begins where a message does, the loop takes
just the messages that have arrived whole, in order. It is an induction over the turns of
the loop, and rests on what `Cut` finds in a buffer that begins with a whole message
(`CutWhole`) or with part of one (`CutPart`), for each of the four ways to frame one, on
what `FlattenSeq` makes of a list of frames, and on `Decode` changing nothing where no
character is wide. `NarrowMessagesArrive` follows for any texts, any number of messages
and any places at which the stream is cut.

`WideDamage` is about the streams that `NarrowInv` leaves out, whose characters of several
bytes may be cut by chunks, and which NATS may read out of step. `WideInv` (`FitsInv`,
beside the types) says what a reader holds then:

- Whatever the chunks, there is a *reading* of the bytes so far (`Reading`): the
  characters that decoding them left and, for each byte, how many characters end with it
  or before it. The buffer is what follows position `P` of that reading. A
  chunk makes a longer reading of which the old one is the beginning (`DecodeReads`,
  `ReadingMore`), so that the invariant may speak of positions in one reading, not of
  buffers.
- For the pipe, `P` is the end of a message, and the messages before it were delivered,
  each alike but for cut characters (`PipeAt`). A null byte is never in a wide character, so
  what `Cut` finds is what it finds in the bytes.
- For NATS (`NatsAt`), `P` is at the end of message `j` or behind it, what was delivered is
  like some of the first `j` messages, in order and each once, and among it are all of
  those that are spared. A later message that is spared either is next, with `P` just
  before it, or begins so far behind `P` that the reader comes into step before it
  (`Ahead`): between `P` and it are at least two characters, the `CR LF` of the message
  before. No spared message waits (`Stuck`): of each later one, part has not arrived.

That a step keeps this is an induction over the turns of the loop (`PipeConsumes`,
`NatsConsumes`). A turn of NATS starts at the beginning of a message and takes as many
characters as its size has bytes (`StartTurns`), or starts amid something and skips to the
next line break (`InsideTurns`); when there is not enough for that, nothing spared waits
(`StartStuck`, `InsideStuck`). What a message takes too many is bounded by the wide
characters it has, which is how far `Spared` reaches.

Proved and not in a run, because each run is kept to what only a run can show or
what matters most: `TypeCorrect` of every module, `ContextsDieWithSessions`,
`CallsDispatchedOnce`, `PendingStayArmed`, `WaitsOnlyWithoutPeer` and `CloseResets`
of the client, `BridgesEnd`, `FanoutIsAttached` and `AnswersOnce` of the reverse
proxy, `AllTracked`, `Persistent`, `StopsForGood`, `RefusedStays`.

Only model-checked: every liveness property (`EveryWaitEnds`, `TimedCallsSettle`,
`ConnectEnds`, `ConnectionsEnd`, both `CloseEnds`, `ClientsNotStranded`,
`ConnectsAgain`, `CallersEnd`), because the prover does not treat fairness and
ENABLED. Every other property of every run has a theorem.

Inductions over numbers cite the lemma `SetInduction` (a set that has 0 and with
each number the next has all), proved from the library's theorem that `<` is well-founded:
the library's own induction theorems take an operator as a parameter, which the
provers cannot instantiate. A recursive definition that is proved about is a recursive
function, not a `RECURSIVE` operator.

## 7. Where code and documents disagree, and what surprises

No run states these; the models contain the behaviour, and the properties are
stated so that they hold of the code. Line numbers are of `src/js/src`.

- `router/AutoSessionRouter.ts:101`: `forgetSession` deletes
  `target_sessions[target]` though the entry may name a newer session of that
  target. After an auto-attach and an `attachToTarget` of the same target, the
  detach of the older one leaves an attached target without an entry.
- `router/AutoSessionRouter.ts:36` returns a session whose detach came in one chunk with
  the response (`PipeUpstreamTransport.ts:67`).
- `proxy/proxy.ts:1039`: a `Target.detachedFromTarget` takes the mark of a hidden session
  away before line 1126 asks for it. The target hides the event all the same; where the
  browser leaves out the optional `targetId`, the client hears of the end of a session
  it was never told of.
- `proxy/proxy.ts:1008`: a `Mod.*` command that the browser refuses is answered with an
  empty result, because its error is not read.
- `proxy/proxy.ts:550`: each downstream connection of the reverse proxy counts
  its upstream ids from 1 000 000 and listens on the same peer socket. With two
  clients a response is taken by both, and one is answered with the outcome of
  the other's command; `README.md:234` promises a mapping of ids.
- `proxy/proxy.ts:524` and `:545`: a client that waits for a peer is refused
  before its wait timeout (`README.md:159`) when the previous peer's close event
  arrives, or when a peer whose hello had timed out says hello while its socket
  closes.
- `server/ModCDPServer.ts:1325`: a discovery that fails restores the endpoint it
  found; when two `configure()` calls overlap, that is the other's unverified
  candidate, and it stays in use, against `README.md:283`. Alone, a discovery
  always restores (`SoleDiscoveryForgets`).
- `server/ModCDPServer.ts:1338`: the candidate is written to `loopback_cdp_url`
  before it is verified, so a command handled meanwhile is sent to what may be a
  different browser.
- `transport/NatsUpstreamTransport.ts:226` and `PipeUpstreamTransport.ts:68`: sizes
  count bytes and the buffer characters, chunks are decoded one by one, although
  `README.md:258` makes no restriction to ASCII. NATS loses messages, the pipe
  characters. `WideDamage` says how much and no more: a message over NATS takes with it
  as many of the characters behind it as it has wide ones, which may be several messages.
- `server/ModCDPServer.ts:1239`: routes are tried in insertion order while
  `translate.ts` takes the longest prefix (`README.md:281`); they differ on a method
  that is added after its domain. `RoutesAgree` says that they differ there and on
  nothing else. Their defaults differ too (`chrome_debugger`, and `direct_cdp` in
  `translate.ts:74`), without effect, because no table lacks `*.*`. The options page has a
  rule of its own (`extension/src/service_worker.ts:32`), which answers `Mod.` and
  `Custom.` methods before it looks at routes and is not modelled.
- `client/ModCDPClient.ts:536`: `connect()` returns although the worker's session was
  detached in one chunk with the answer to its last command; with `server: null` it
  returns without having configured anything. `ConnectedIsReady` states both.
- `client/ModCDPClient.ts:516` and `:987`: the injectors that `connect()` prepared are not
  passed to the search, which prepares its own; the spare copy of the extension stays.
- A `connect()` that is called again without `close()` registers its listeners
  twice and forgets the browser of the one before; the close event of a socket
  (`:485`) rejects whatever is pending then; `auto_sessions` survives `close()`;
  the promise of `:525` can be rejected with nobody listening.
- `launcher/LocalBrowserLauncher.ts:381` and `:421`: a browser whose pipe stays silent, or
  whose `DevToolsActivePort` cannot be read or names no port, outlives the launch that
  throws, and nothing holds it any more.
- A send that throws leaves its timeout armed, without effect. The pipe's
  `close()` emits no close event, so that its pending commands wait for their own
  timeouts. `unusable_target_ids` of the injector is never filled.
- `transport/NatsUpstreamTransport.ts:99` and `:128`: `peer_seen` and `connected`
  stay true when the worker leaves or the broker's connection ends. Commands are
  then published to nobody, and only send timeouts end them.

## 8. Not modelled

- The Python and Go clients: ports of the TypeScript client, with threads and
  locks, or goroutines and channels. Their states and handlers are those of
  `AutoSessionRouter`, `ClientTransports` and `ClientConnect`, but their atomic steps
  are smaller; the models do not speak of them.
- Process and HTTP work (launchers, `cli.ts`, Browserbase, the proxy's discovery
  endpoints), option parsing, logging, the options page and the log panel, the
  demo, the installation of native-messaging manifests and the NATS `CONNECT`
  exchange: no state that interleaves.
- The text of the wrapped JavaScript expressions, `Mod.evaluate`, `Mod.getTopology`,
  and event dispatch to user handlers: look-ups.
- Schemas, generated types, and their generation: data shapes. They are more than
  half of the implementation's lines, which is why the mapped share, about 16 %
  of all lines, is about a third of those written by hand.

## 9. Plan

What the plan had is done: the router, the reverse proxy, the command table, the
loopback, the ws proxy, the bridges, framing, routes and middlewares, and
`connect()`. What a next step would add:

1. `Bridges` composed with `ReverseProxy` and with `ClientTransports`, so that a
   peer that is replaced is a worker that was terminated.
2. That the pending table of `LoopbackCDP` implements `CommandCalls`.
3. The `managed_reverse` messages of the proxy, which pass one `ModCDPClient`.
4. The threaded Python client and the Go client: the router and the command table
   under locks, with the steps of each.
