---------------------------- MODULE ReverseProxy ----------------------------
(***************************************************************************)
(* The standalone proxy with --upstream-mode=reversews when no launcher    *)
(* manages the browser (js/src/proxy/proxy.ts).  Extensions dial in as     *)
(* reverse peers and say hello; the newest becomes the one peer.  Clients  *)
(* speak CDP to the proxy, wait for a peer if there is none, and then have *)
(* their commands renumbered and sent over the peer's socket, which every  *)
(* client of that peer shares.                                             *)
(*                                                                         *)
(* ready and conn are the readyState of the WebSockets.  The ws library    *)
(* still delivers messages on a socket that is CLOSING, drops what is sent *)
(* on it, and reports its end in a later close event.                      *)
(***************************************************************************)
EXTENDS Naturals, Sequences, SequencesExt

CONSTANTS
    Peers,      \* connections made by extensions, each used once
    Clients,    \* downstream connections, each used once
    Commands,   \* a command's id and sessionId, as its client numbers them
    Sessions,   \* sessions announced by the extension's events
    NoPeer,
    FirstReverseId   \* 1_000_000 in the code

ASSUME ConstantsAssumption == NoPeer \notin Peers /\ FirstReverseId \in Nat

VARIABLES
    ready,         \* peer -> state of its socket
    hello_pending, \* peers whose first message has not arrived
    hello_timers,  \* peers whose hello timeout is armed
    socket,        \* ReversePeerState.socket: the registered peer
    waiters,       \* ReversePeerState.waiters: clients waiting, timeout armed
    conn,          \* client -> state of its socket
    pc,            \* client -> how far handleReverseConnection is
    reverse,       \* client -> the peer it is bridged to
    queued,        \* client -> commands buffered before the bridge
    next_reverse_id, \* client -> id of its next upstream command
    pending,       \* client -> {[id, command]} sent upstream, unanswered
    listening,     \* clients whose onReverseMessage listener is installed
    client_session_ids, \* client -> sessions that root events are copied to
    attached,      \* peer -> sessions the extension has announced
    requests,      \* peer -> {[id, client, command]} the extension executes
    sent,          \* client -> commands it has sent
    answers,       \* client -> answers received: [command, of]
    phase          \* progress of the proxy's close()

peerVars == <<ready, hello_pending, hello_timers, socket>>
bridgeVars == <<reverse, queued, next_reverse_id, pending, client_session_ids>>
extensionVars == <<attached, requests>>
clientVars == <<sent, answers>>
vars == <<peerVars, waiters, conn, pc, bridgeVars, listening, extensionVars,
          clientVars, phase>>

Init ==
    /\ ready = [p \in Peers |-> "none"]
    /\ hello_pending = {}
    /\ hello_timers = {}
    /\ socket = NoPeer
    /\ waiters = {}
    /\ conn = [c \in Clients |-> "none"]
    /\ pc = [c \in Clients |-> "none"]
    /\ reverse = [c \in Clients |-> NoPeer]
    /\ queued = [c \in Clients |-> <<>>]
    /\ next_reverse_id = [c \in Clients |-> FirstReverseId]
    /\ pending = [c \in Clients |-> {}]
    /\ listening = {}
    /\ client_session_ids = [c \in Clients |-> {}]
    /\ attached = [p \in Peers |-> {}]
    /\ requests = [p \in Peers |-> {}]
    /\ sent = [c \in Clients |-> {}]
    /\ answers = [c \in Clients |-> <<>>]
    /\ phase = "running"

-----------------------------------------------------------------------------
(* Pieces of the handlers.  A definition named Bad... is a faulty variant   *)
(* of the one below it, kept to show that the properties notice the fault;  *)
(* nothing uses it.                                                         *)

IsOpenSocket(p) == p # NoPeer /\ ready[p] = "open"

\* WebSocket.close(): only an open socket has anything left to do.
Closing(states, group) ==
    [x \in DOMAIN states |-> IF x \in group /\ states[x] = "open" THEN "closing"
                             ELSE states[x]]

BadReplaced(p) == {}                   \* the previous peer stays connected

Replaced(p) == {q \in Peers : q = socket /\ q # p}

BadNumbered(c, commands) ==            \* one id for a whole buffer
    {[id |-> next_reverse_id[c], command |-> commands[i]] : i \in DOMAIN commands}

\* The pending entries of commands forwarded in this order.
Numbered(c, commands) ==
    {[id |-> next_reverse_id[c] + i - 1, command |-> commands[i]] : i \in DOMAIN commands}

\* The clients in C forward what they have buffered, or one command just sent,
\* to p; a socket that is not open drops the commands and keeps the entries.
Forward(C, p, commands) ==
    /\ next_reverse_id' =
           [c \in Clients |-> IF c \in C THEN next_reverse_id[c] + Len(commands[c])
                              ELSE next_reverse_id[c]]
    /\ pending' = [c \in Clients |-> IF c \in C THEN pending[c] \cup Numbered(c, commands[c])
                                     ELSE pending[c]]
    /\ requests' =
           [requests EXCEPT ![p] = IF ready[p] # "open" THEN @ ELSE
               @ \cup UNION {{[id |-> e.id, client |-> c, command |-> e.command] :
                              e \in Numbered(c, commands[c])} : c \in C}]

BadRejectWaiters(W, states) ==         \* the entries stay in the wait set
    /\ waiters' = waiters
    /\ pc' = [c \in Clients |-> IF c \in W THEN "refused" ELSE pc[c]]
    /\ conn' = Closing(states, W)

\* rejectReverseWaiters: their connections are closed with 1011.
RejectWaiters(W, states) ==
    /\ waiters' = waiters \ W
    /\ pc' = [c \in Clients |-> IF c \in W THEN "refused" ELSE pc[c]]
    /\ conn' = Closing(states, W)

Unanswered(c, id) == {e \in pending[c] : e.id # id}

-----------------------------------------------------------------------------
(* Reverse peers.                                                           *)

PeerConnect(p) ==
    /\ phase \in {"running", "clients"}
    /\ ready[p] = "none"
    /\ ready' = [ready EXCEPT ![p] = "open"]
    /\ hello_pending' = hello_pending \cup {p}
    /\ hello_timers' = hello_timers \cup {p}
    /\ UNCHANGED <<socket, waiters, conn, pc, bridgeVars, listening, extensionVars,
                   clientVars, phase>>

\* fail(): the listener for the first message stays installed.
HelloTimeout(p) ==
    /\ p \in hello_timers
    /\ hello_timers' = hello_timers \ {p}
    /\ ready' = Closing(ready, {p})
    /\ UNCHANGED <<hello_pending, socket, waiters, conn, pc, bridgeVars, listening,
                   extensionVars, clientVars, phase>>

\* A valid hello: the peer replaces the registered one and every waiter goes
\* on.  The socket may be CLOSING by now, and then the waiters are refused.
AcceptHello(p) ==
    /\ p \in hello_pending
    /\ ready[p] \in {"open", "closing"}
    /\ hello_pending' = hello_pending \ {p}
    /\ hello_timers' = hello_timers \ {p}
    /\ ready' = Closing(ready, Replaced(p))
    /\ socket' = p
    /\ \/ /\ IsOpenSocket(p)
          /\ waiters' = {}
          /\ pc' = [c \in Clients |-> IF c \in waiters THEN "bridged" ELSE pc[c]]
          /\ reverse' = [c \in Clients |-> IF c \in waiters THEN p ELSE reverse[c]]
          /\ listening' = listening \cup waiters
          /\ Forward(waiters, p, queued)
          /\ queued' = [c \in Clients |-> IF c \in waiters THEN <<>> ELSE queued[c]]
          /\ UNCHANGED conn
       \/ /\ ~IsOpenSocket(p)
          /\ RejectWaiters(waiters, conn)
          /\ UNCHANGED <<reverse, listening, next_reverse_id, pending, requests, queued>>
    /\ UNCHANGED <<client_session_ids, attached, clientVars, phase>>

RefuseHello(p) ==
    /\ p \in hello_pending
    /\ ready[p] \in {"open", "closing"}
    /\ hello_pending' = hello_pending \ {p}
    /\ hello_timers' = hello_timers \ {p}
    /\ ready' = Closing(ready, {p})
    /\ UNCHANGED <<socket, waiters, conn, pc, bridgeVars, listening, extensionVars,
                   clientVars, phase>>

\* A close frame from the extension; the close event is still to come.
PeerClosing(p) ==
    /\ ready[p] = "open"
    /\ ready' = Closing(ready, {p})
    /\ UNCHANGED <<hello_pending, hello_timers, socket, waiters, conn, pc, bridgeVars,
                   listening, extensionVars, clientVars, phase>>

BadBridgedTo(p) == {}                  \* the close is not passed on

BridgedTo(p) == {c \in Clients : reverse[c] = p}

\* The listeners of a close or error event of p: the registration, if p holds
\* it, and every client bridged to p.
PeerEnds(p) ==
    /\ listening' = listening \ BridgedTo(p)
    /\ \/ /\ socket = p
          /\ socket' = NoPeer
          /\ RejectWaiters(waiters, Closing(conn, BridgedTo(p)))
       \/ /\ socket # p
          /\ conn' = Closing(conn, BridgedTo(p))
          /\ UNCHANGED <<socket, waiters, pc>>
    /\ attached' = [attached EXCEPT ![p] = {}]
    /\ requests' = [requests EXCEPT ![p] = {}]
    /\ UNCHANGED <<hello_pending, hello_timers, bridgeVars, clientVars, phase>>

PeerClosed(p) ==
    /\ ready[p] \in {"closing", "errored"}
    /\ ready' = [ready EXCEPT ![p] = "closed"]
    /\ PeerEnds(p)

PeerError(p) ==
    /\ ready[p] \in {"open", "closing"}
    /\ ready' = [ready EXCEPT ![p] = "errored"]
    /\ PeerEnds(p)

-----------------------------------------------------------------------------
(* Messages of the registered or of a replaced peer.  Every listener of the *)
(* shared socket sees each one.                                             *)

ListenersOf(p) == {c \in listening : reverse[c] = p}

\* The client of a listener whose pending table has the id is answered, if
\* its connection is still open.
PeerAnswer(p, r) ==
    /\ r \in requests[p]
    /\ ready[p] \in {"open", "closing"}
    /\ requests' = [requests EXCEPT ![p] = @ \ {r}]
    /\ pending' = [c \in Clients |-> IF c \in ListenersOf(p) THEN Unanswered(c, r.id)
                                     ELSE pending[c]]
    /\ answers' = [c \in Clients |->
           IF c \in ListenersOf(p) /\ conn[c] = "open"
              /\ \E e \in pending[c] : e.id = r.id
           THEN Append(answers[c],
                       [command |-> (CHOOSE e \in pending[c] : e.id = r.id).command,
                        of |-> <<r.client, r.command>>])
           ELSE answers[c]]
    /\ UNCHANGED <<peerVars, waiters, conn, pc, reverse, queued, next_reverse_id,
                   listening, client_session_ids, attached, sent, phase>>

DetachedIds(ids, s) == ids \ {s}

\* Target.attachedToTarget and Target.detachedFromTarget.  Any other event
\* changes nothing; an event of the root session is sent to the client and
\* once more for each of its client_session_ids, those of this event included.
PeerAttached(p, s) ==
    /\ ready[p] \in {"open", "closing"} /\ p \notin hello_pending
    /\ s \notin attached[p]
    /\ attached' = [attached EXCEPT ![p] = @ \cup {s}]
    /\ client_session_ids' =
           [c \in Clients |-> IF c \in ListenersOf(p) THEN client_session_ids[c] \cup {s}
                              ELSE client_session_ids[c]]
    /\ UNCHANGED <<peerVars, waiters, conn, pc, reverse, queued, next_reverse_id, pending,
                   listening, requests, clientVars, phase>>

PeerDetached(p, s) ==
    /\ ready[p] \in {"open", "closing"} /\ p \notin hello_pending
    /\ s \in attached[p]
    /\ attached' = [attached EXCEPT ![p] = @ \ {s}]
    /\ client_session_ids' =
           [c \in Clients |-> IF c \in ListenersOf(p)
                              THEN DetachedIds(client_session_ids[c], s)
                              ELSE client_session_ids[c]]
    /\ UNCHANGED <<peerVars, waiters, conn, pc, reverse, queued, next_reverse_id, pending,
                   listening, requests, clientVars, phase>>

-----------------------------------------------------------------------------
(* Downstream clients.                                                      *)

BadClientSendWhileWaiting(c, m) == UNCHANGED queued   \* no early buffer

ClientSendWhileWaiting(c, m) == queued' = [queued EXCEPT ![c] = Append(@, m)]

\* waitForReversePeer, and the rest of handleReverseConnection at once when
\* the peer's socket is open; nothing is buffered yet.
ClientConnect(c) ==
    /\ phase = "running"
    /\ conn[c] = "none"
    /\ conn' = [conn EXCEPT ![c] = "open"]
    /\ \/ /\ IsOpenSocket(socket)
          /\ pc' = [pc EXCEPT ![c] = "bridged"]
          /\ reverse' = [reverse EXCEPT ![c] = socket]
          /\ listening' = listening \cup {c}
          /\ UNCHANGED waiters
       \/ /\ ~IsOpenSocket(socket)
          /\ pc' = [pc EXCEPT ![c] = "waiting"]
          /\ waiters' = waiters \cup {c}
          /\ UNCHANGED <<reverse, listening>>
    /\ UNCHANGED <<peerVars, queued, next_reverse_id, pending, client_session_ids,
                   extensionVars, clientVars, phase>>

WaitTimeout(c) ==
    /\ c \in waiters
    /\ RejectWaiters({c}, conn)
    /\ UNCHANGED <<peerVars, bridgeVars, listening, extensionVars, clientVars, phase>>

ClientSend(c, m) ==
    /\ conn[c] \in {"open", "closing"}
    /\ m \notin sent[c]
    /\ sent' = [sent EXCEPT ![c] = @ \cup {m}]
    /\ \/ /\ pc[c] = "waiting"
          /\ ClientSendWhileWaiting(c, m)
          /\ UNCHANGED <<next_reverse_id, pending, requests>>
       \/ /\ pc[c] = "bridged"
          /\ Forward({c}, reverse[c], [d \in {c} |-> <<m>>])
          /\ UNCHANGED queued
    /\ UNCHANGED <<peerVars, waiters, conn, pc, reverse, listening, client_session_ids,
                   attached, answers, phase>>

\* The client leaves, or finishes a close the proxy began.  Its close listener
\* exists only once it is bridged: a client that leaves while it waits keeps
\* its place, and is bridged when a peer arrives.
ClientClosed(c) ==
    /\ conn[c] \in {"open", "closing"}
    /\ conn' = [conn EXCEPT ![c] = "closed"]
    /\ listening' = listening \ {c}
    /\ UNCHANGED <<peerVars, waiters, pc, bridgeVars, extensionVars, clientVars, phase>>

-----------------------------------------------------------------------------
(* close(): the downstream server first, then the reverse server, each      *)
(* ended when its last socket has closed.                                   *)

Close ==
    /\ phase = "running"
    /\ phase' = "clients"
    /\ conn' = Closing(conn, Clients)
    /\ ready' = Closing(ready, {socket})
    /\ UNCHANGED <<hello_pending, hello_timers, socket, waiters, pc, bridgeVars, listening,
                   extensionVars, clientVars>>

ClientsServerClosed ==
    /\ phase = "clients"
    /\ \A c \in Clients : conn[c] \in {"none", "closed"}
    /\ phase' = "reverse"
    /\ UNCHANGED <<peerVars, waiters, conn, pc, bridgeVars, listening, extensionVars,
                   clientVars>>

ReverseServerClosed ==
    /\ phase = "reverse"
    /\ \A p \in Peers : ready[p] \in {"none", "closed"}
    /\ phase' = "closed"
    /\ UNCHANGED <<peerVars, waiters, conn, pc, bridgeVars, listening, extensionVars,
                   clientVars>>

Next ==
    \/ \E p \in Peers : PeerConnect(p)
    \/ \E p \in Peers : HelloTimeout(p)
    \/ \E p \in Peers : AcceptHello(p)
    \/ \E p \in Peers : RefuseHello(p)
    \/ \E p \in Peers : PeerClosing(p)
    \/ \E p \in Peers : PeerClosed(p)
    \/ \E p \in Peers : PeerError(p)
    \/ \E p \in Peers : \E r \in requests[p] : PeerAnswer(p, r)
    \/ \E p \in Peers, s \in Sessions : PeerAttached(p, s)
    \/ \E p \in Peers, s \in Sessions : PeerDetached(p, s)
    \/ \E c \in Clients : ClientConnect(c)
    \/ \E c \in Clients : WaitTimeout(c)
    \/ \E c \in Clients, m \in Commands : ClientSend(c, m)
    \/ \E c \in Clients : ClientClosed(c)
    \/ Close
    \/ ClientsServerClosed
    \/ ReverseServerClosed

Spec == Init /\ [][Next]_vars

\* Armed timers fire; the ws library ends a closing handshake within 30 s, so
\* a socket that is closing closes; close() goes on when its servers report.
Fairness ==
    /\ \A p \in Peers : WF_vars(HelloTimeout(p)) /\ WF_vars(PeerClosed(p))
    /\ \A c \in Clients : /\ WF_vars(WaitTimeout(c))
                          /\ WF_vars(conn[c] = "closing" /\ ClientClosed(c))
    /\ WF_vars(ClientsServerClosed) /\ WF_vars(ReverseServerClosed)

FairSpec == Spec /\ Fairness

-----------------------------------------------------------------------------
(* Properties.                                                              *)

\* Every variable stays in its domain, and the ids handed out by a connection
\* are the ones its counter has passed.
TypeOK ==
    /\ ready \in [Peers -> {"none", "open", "closing", "errored", "closed"}]
    /\ hello_pending \in SUBSET Peers /\ hello_timers \in SUBSET Peers
    /\ socket \in Peers \cup {NoPeer}
    /\ waiters \in SUBSET Clients /\ listening \in SUBSET Clients
    /\ conn \in [Clients -> {"none", "open", "closing", "closed"}]
    /\ pc \in [Clients -> {"none", "waiting", "bridged", "refused"}]
    /\ reverse \in [Clients -> Peers \cup {NoPeer}]
    /\ queued \in [Clients -> Seq(Commands)]
    /\ next_reverse_id \in [Clients -> Nat]
    /\ pending \in [Clients -> SUBSET [id : Nat, command : Commands]]
    /\ \A c \in Clients : \A e \in pending[c] :
         FirstReverseId <= e.id /\ e.id < next_reverse_id[c]
    /\ client_session_ids \in [Clients -> SUBSET Sessions]
    /\ attached \in [Peers -> SUBSET Sessions]
    /\ requests \in [Peers -> SUBSET [id : Nat, client : Clients, command : Commands]]
    /\ sent \in [Clients -> SUBSET Commands]
    /\ answers \in [Clients -> Seq([command : Commands, of : Clients \X Commands])]
    /\ phase \in {"running", "clients", "reverse", "closed"}

\* README.md: "one reverse extension connection per proxy process".  Of the
\* peers that have said hello only the registered one is open, however many
\* extensions connect, reconnect or say hello late.
OneOpenPeer ==
    \A p \in Peers : ready[p] = "open" /\ p \notin hello_pending => p = socket

\* A client is in the wait set exactly while it waits, and none waits while
\* the registered peer could serve it.
WaitOnlyWithoutPeer ==
    /\ \A c \in Clients : c \in waiters <=> pc[c] = "waiting"
    /\ IsOpenSocket(socket) => waiters = {}

\* A client is not left open on a peer that is gone, and no longer listens.
BridgeEndsWithPeer ==
    \A c \in Clients :
        pc[c] = "bridged" /\ ready[reverse[c]] \in {"errored", "closed"}
          => conn[c] # "open" /\ c \notin listening

\* While a client and its peer are connected, every command it sent, before or
\* after the bridge, was answered or is being executed under the id that the
\* client's pending table has for it.
CommandsAccountedFor ==
    \A c \in listening :
        conn[c] = "open" /\ ready[reverse[c]] = "open" =>
          \A m \in sent[c] :
            \/ \E i \in DOMAIN answers[c] : answers[c][i].command = m
            \/ \E e \in pending[c] :
                 /\ e.command = m
                 /\ [id |-> e.id, client |-> c, command |-> m] \in requests[reverse[c]]

\* No command is answered twice, not even when an answer meant for another
\* connection of the same peer carries the same id.
AnsweredOnce ==
    \A c \in Clients :
        /\ \A i, j \in DOMAIN answers[c] :
             answers[c][i].command = answers[c][j].command => i = j
        /\ \A i \in DOMAIN answers[c], e \in pending[c] : e.command # answers[c][i].command

\* A client that shares its peer with no other connection is answered with
\* the outcome of its own command.
SoleClientOwnAnswers ==
    \A c \in Clients :
        (\A d \in Clients \ {c} : reverse[d] # reverse[c]) =>
          \A i \in DOMAIN answers[c] : answers[c][i].of = <<c, answers[c][i].command>>

\* Root events are copied only to sessions the extension has attached, so no
\* client is sent events of a session after its detach.
FanoutToAttached ==
    \A c \in listening : client_session_ids[c] \subseteq attached[reverse[c]]

\* Every waiting client is bridged or refused, whatever the extensions do.
WaitsEnd == \A c \in Clients : (c \in waiters) ~> (c \notin waiters)

\* A client whose peer breaks is disconnected, so that it can reconnect.
BrokenBridgesClose ==
    \A c \in Clients :
        (pc[c] = "bridged" /\ ready[reverse[c]] \in {"closing", "errored", "closed"})
          ~> conn[c] = "closed"

\* No client is left waiting, or bridged to nobody.
ClientsNotStranded == WaitsEnd /\ BrokenBridgesClose

\* close() ends, or an extension has connected meanwhile and is served: the
\* registered peer is closed once, and the reverse server outlives that.
CloseEnds ==
    (phase = "clients") ~> (phase = "closed" \/ IsOpenSocket(socket))

=============================================================================
