------------------------------ MODULE Bridges ------------------------------
(***************************************************************************)
(* How the extension's service worker stays reachable: the bridges of      *)
(* src/js/src/server/ModCDPServer.ts to a reverse proxy, a native          *)
(* messaging host and a NATS server, each with its configuration, socket   *)
(* and reconnect timer; the commands that arrive over a bridge and are     *)
(* answered later; what src/extension/src/service_worker.ts starts and     *)
(* stops; and the offscreen document that wakes the worker after Chrome    *)
(* has terminated it. A behaviour has one bridge, of any of the kinds.     *)
(***************************************************************************)
EXTENDS Naturals, FiniteSets

CONSTANTS
    Endpoints, Default, \* urls and host names; a NATS endpoint stands for its subject prefix
    None,
    MaxSockets,         \* bound: sockets that are not yet closed
    MaxCommands,        \* bound: commands being handled at once
    MaxTerminations     \* bound: times that Chrome terminates the worker

ASSUME BridgesAssumption ==
    /\ Default \in Endpoints /\ None \notin Endpoints
    /\ {MaxSockets, MaxCommands, MaxTerminations} \subseteq Nat /\ MaxSockets > 0

VARIABLES
    kind,       \* "reverse", "native" or "nats"
    up,         \* endpoints with a peer; that of Default is the one NATS server
    endpoint,   \* reverseBridgeUrl, nativeBridgeHostName or nats_bridge_subject_prefix
    socket,     \* socket -> its readyState ("none" if never opened) and what it is for
    current,    \* reverseBridgeSocket, nativeBridgePort or nats_bridge_socket
    timer,      \* the reconnect timer is set
    handling,   \* commands in handleCommand: the socket, and the peer that sent it
    answer,     \* the answer sent by the last step
    alive, terminations,     \* the service worker
    doc, port,  \* the offscreen document, and its port to the worker
    ensuring,   \* ensureOffscreenKeepAlive, whose callers share what it does
    reconfigured \* the endpoint was changed under a socket or a command

bridge == <<endpoint, socket, current, timer, reconfigured>>
keepAlive == <<doc, port, ensuring>>
vars == <<kind, up, bridge, handling, answer, alive, terminations, keepAlive>>

Sockets == 1 .. MaxSockets
NoSocket == 0
Closed == [state |-> "closed", at |-> None, subject |-> None]
NoAnswer == [from |-> None, to |-> None]

Live(s) == socket[s].state \in {"connecting", "open"}
InUse == current # NoSocket /\ Live(current)

\* What the new socket of a connect call is, and where the bridge then stands.
Opened(e) ==
    [state |-> IF kind = "native" THEN "open" ELSE "connecting", at |-> e, subject |-> e]

BadBusy == FALSE

Busy == InUse

\* connectReverseBridge, connectNativeBridge and connectNatsBridge. connectNative()
\* returns a port at once, and disconnects it later if there is no host.
Connect(e) ==
    IF Busy THEN UNCHANGED <<socket, current>>
    ELSE \E s \in Sockets :
           /\ socket[s] = Closed /\ \A r \in 1 .. s - 1 : socket[r] # Closed
           /\ socket' = [socket EXCEPT ![s] = Opened(e)]
           /\ current' = s

\* What the worker's entry point starts, when it is loaded and again on onInstalled
\* and onStartup. A NATS bridge only starts when a client configures one.
StartsConfigured == kind \in {"reverse", "native"}

Init ==
    /\ kind \in {"reverse", "native", "nats"}
    /\ up \in SUBSET Endpoints
    /\ alive = FALSE /\ terminations = 0
    /\ endpoint = None /\ timer = FALSE /\ current = NoSocket
    /\ socket = [s \in Sockets |-> Closed]
    /\ handling = {} /\ answer = NoAnswer
    /\ doc = FALSE /\ port = FALSE /\ ensuring = "idle" /\ reconfigured = FALSE

Quiet == answer' = NoAnswer
Worker == UNCHANGED <<kind, alive, terminations, keepAlive>>

-----------------------------------------------------------------------------
(* The bridge.                                                             *)

\* startReverseBridge, startNativeBridge, startNatsBridge. The configuration changes
\* at once; a socket in use is kept, and stays where it is.
Start(e) ==
    /\ alive
    /\ endpoint' = e /\ Connect(e) /\ Quiet
    /\ reconfigured' = (reconfigured \/ (e # endpoint /\ (InUse \/ handling # {})))
    /\ UNCHANGED <<up, timer, handling>> /\ Worker

\* stopReverseBridge: the worker calls it when a client configures another transport.
Stop ==
    /\ alive /\ kind = "reverse"
    /\ endpoint' = None /\ timer' = FALSE /\ current' = NoSocket
    /\ socket' = IF InUse THEN [socket EXCEPT ![current].state = "closing"] ELSE socket
    /\ Quiet /\ UNCHANGED <<up, handling, reconfigured>> /\ Worker

PeerUp(s) == (IF kind = "nats" THEN Default ELSE socket[s].at) \in up

\* The open event: the hello is sent; a NATS bridge subscribes to what is configured
\* by then.
SocketOpens(s) ==
    /\ socket[s].state = "connecting" /\ PeerUp(s)
    /\ socket' = [socket EXCEPT ![s].state = "open",
                                ![s].subject = IF kind = "nats" THEN endpoint ELSE @]
    /\ Quiet /\ UNCHANGED <<up, endpoint, current, timer, handling, reconfigured>> /\ Worker

\* The peer of a websocket begins to close it.
SocketCloses(s) ==
    /\ kind # "native" /\ socket[s].state = "open" /\ ~PeerUp(s)
    /\ socket' = [socket EXCEPT ![s].state = "closing"]
    /\ Quiet /\ UNCHANGED <<up, endpoint, current, timer, handling, reconfigured>> /\ Worker

Scheduled == timer \/ endpoint # None

Disowned(s) == IF current = s THEN NoSocket ELSE current

\* The close event, after an error event where there is one, or onDisconnect.
SocketClosed(s) ==
    /\ \/ socket[s].state = "closing"
       \/ Live(s) /\ ~PeerUp(s)
    /\ socket' = [socket EXCEPT ![s] = Closed]
    /\ current' = Disowned(s)
    /\ timer' = Scheduled
    \* a command that is still handled no longer has where to go: its send is lost
    /\ handling' = {c \in handling : kind = "nats" \/ c.socket # s}
    /\ Quiet /\ UNCHANGED <<up, endpoint, reconfigured>> /\ Worker

TimerFires ==
    /\ alive /\ timer /\ timer' = FALSE
    /\ Connect(endpoint) /\ Quiet
    /\ UNCHANGED <<up, endpoint, handling, reconfigured>> /\ Worker

PeersChange ==
    /\ up' \in {up \cup {e} : e \in Endpoints} \cup {up \ {e} : e \in Endpoints}
    /\ Quiet /\ UNCHANGED <<bridge, handling>> /\ Worker

-----------------------------------------------------------------------------
(* Commands over the bridge.                                               *)

\* handleReverseBridgeMessage, handleNativeBridgeMessage, handleNatsBridgePayload.
CommandArrives(s) ==
    /\ socket[s].state = "open" /\ PeerUp(s)
    /\ Cardinality(handling) < MaxCommands
    /\ handling' = handling \cup {[socket |-> s, from |-> socket[s].subject]}
    /\ Quiet /\ UNCHANGED <<up, bridge>> /\ Worker

BadRoute(c) == current

\* A command of a websocket or port is answered on the one that it came over.
Route(c) == c.socket

Through(c) == IF kind = "nats" THEN current ELSE Route(c)

\* A NATS answer is published under the subject configured by now, over the socket in
\* use by now; a socket that is not open drops it.
CommandAnswered(c) ==
    /\ c \in handling /\ handling' = handling \ {c}
    /\ answer' =
         IF Through(c) # NoSocket /\ socket[Through(c)].state = "open"
         THEN [from |-> c.from,
               to |-> IF kind = "nats" THEN endpoint ELSE socket[Through(c)].subject]
         ELSE NoAnswer
    /\ UNCHANGED <<up, bridge>> /\ Worker

-----------------------------------------------------------------------------
(* The worker and the offscreen document that wakes it.                    *)

\* The worker's script runs from the top. Chrome runs it for any event it has
\* registered for, and for the port that the document opens.
Load(connects) ==
    /\ alive' = TRUE /\ port' = connects
    /\ IF StartsConfigured THEN endpoint' = Default /\ Connect(Default)
       ELSE UNCHANGED <<endpoint, socket, current>>
    /\ ensuring' = "checking" /\ Quiet
    /\ UNCHANGED <<kind, up, timer, handling, terminations, doc, reconfigured>>

BrowserEvent == ~alive /\ Load(FALSE)

BadReconnects == doc /\ ~port /\ alive

Reconnects == doc /\ ~port

\* connectKeepAlivePort, at first and 250 ms after each disconnect. On a worker that
\* runs it only adds a port.
DocumentConnects ==
    /\ Reconnects
    /\ \/ ~alive /\ Load(TRUE)
       \/ /\ alive /\ port' = TRUE /\ Quiet
          /\ UNCHANGED <<kind, up, bridge, handling, alive, terminations, doc, ensuring>>

\* All that the worker had in memory is gone, and its sockets with it. A document
\* that was being created may or may not come to be.
Terminate ==
    /\ alive /\ terminations < MaxTerminations
    /\ alive' = FALSE /\ terminations' = terminations + 1
    /\ endpoint' = None /\ timer' = FALSE /\ current' = NoSocket
    /\ socket' = [s \in Sockets |-> Closed]
    /\ handling' = {} /\ reconfigured' = FALSE /\ Quiet
    /\ port' = FALSE /\ ensuring' = "idle" /\ doc' \in {doc, doc \/ ensuring = "creating"}
    /\ UNCHANGED <<kind, up>>

Offscreen == Quiet /\ UNCHANGED <<kind, up, bridge, handling, alive, terminations>>

\* startOffscreenKeepAlive: on start, when a bridge opens, when a tab is created.
Ensure ==
    /\ alive /\ ensuring = "idle" /\ ensuring' = "checking"
    /\ Offscreen /\ UNCHANGED <<doc, port>>

\* getContexts() has answered.
Checked ==
    /\ ensuring = "checking" /\ ensuring' = IF doc THEN "idle" ELSE "creating"
    /\ Offscreen /\ UNCHANGED <<doc, port>>

\* createDocument() settles. Chrome may refuse.
CreationEnds ==
    /\ ensuring = "creating" /\ ensuring' = "idle"
    /\ doc' \in {doc, TRUE}
    /\ Offscreen /\ UNCHANGED port

DocumentGone ==
    /\ doc /\ doc' = FALSE /\ port' = FALSE
    /\ Offscreen /\ UNCHANGED ensuring

-----------------------------------------------------------------------------
SocketEvent(s) == SocketOpens(s) \/ SocketCloses(s) \/ SocketClosed(s)

Next ==
    \/ \E e \in Endpoints : Start(e)
    \/ Stop \/ TimerFires \/ PeersChange
    \/ \E s \in Sockets : SocketEvent(s) \/ CommandArrives(s)
    \/ \E c \in handling : CommandAnswered(c)
    \/ BrowserEvent \/ DocumentConnects \/ Terminate
    \/ Ensure \/ Checked \/ CreationEnds \/ DocumentGone

Spec == Init /\ [][Next]_vars

\* Timers fire, and a websocket opens or fails, and closes once it is closing. Clients,
\* peers and Chrome owe nothing; the document's own timer does.
Fairness ==
    /\ WF_vars(TimerFires) /\ WF_vars(DocumentConnects)
    /\ \A s \in Sockets : WF_vars(SocketEvent(s))

FairSpec == Spec /\ Fairness

-----------------------------------------------------------------------------
Readiness == {"connecting", "open", "closing", "closed"}

\* Every variable is in its domain; nothing survives a terminated worker.
TypeOK ==
    /\ kind \in {"reverse", "native", "nats"} /\ up \subseteq Endpoints
    /\ endpoint \in Endpoints \cup {None}
    /\ socket \in [Sockets -> [state : Readiness, at : Endpoints \cup {None},
                              subject : Endpoints \cup {None}]]
    /\ current \in Sockets \cup {NoSocket} /\ timer \in BOOLEAN
    /\ current # NoSocket => socket[current] # Closed
    /\ handling \subseteq [socket : Sockets, from : Endpoints]
    /\ answer \in [from : Endpoints \cup {None}, to : Endpoints \cup {None}]
    /\ alive \in BOOLEAN /\ terminations \in 0 .. MaxTerminations
    /\ doc \in BOOLEAN /\ port \in BOOLEAN /\ (port => doc /\ alive)
    /\ ensuring \in {"idle", "checking", "creating"} /\ reconfigured \in BOOLEAN
    /\ ~alive => endpoint = None /\ current = NoSocket /\ handling = {}

\* However calls of start and stop, timers and late close events interleave, the worker
\* has one connection at most: a socket that connects or is open is the current one.
OneConnection == \A s \in Sockets : Live(s) => s = current

\* A bridge that was started and not stopped is never given up: it has a socket, or
\* the timer that will open one.
NeverGivenUp == endpoint # None => current # NoSocket \/ timer

\* A bridge that was stopped stays so: no timer, no socket of it is left.
StoppedIsQuiet == endpoint = None => ~timer /\ \A s \in Sockets : ~Live(s)

\* The answer to a command reaches no peer but the one that sent the command, whatever
\* became of the bridge meanwhile. (Only a NATS bridge whose subject prefix is changed
\* under it misses: it stays subscribed to the old one and answers on the new one.)
AnswersReturn ==
    answer.to # None /\ ~(kind = "nats" /\ reconfigured) => answer.to = answer.from

\* When the peers stay up and the configuration stays, the bridge gets connected for
\* good: after lost sockets, and after Chrome terminated the worker and the document
\* woke it.
ConnectsAgain ==
    <>[](up = Endpoints /\ doc /\ (alive => endpoint # None))
      => <>[](current # NoSocket /\ socket[current].state = "open")
=============================================================================
