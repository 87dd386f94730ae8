-------------------------- MODULE ClientTransports --------------------------
(***************************************************************************)
(* The table of pending commands of a ModCDPClient                         *)
(* (js/src/client/ModCDPClient.ts) over each upstream transport            *)
(* (js/src/transport).  Over ws and pipe the peer is the browser the       *)
(* client has connected to.  Over reversews and nativemessaging it is an   *)
(* extension that dials in, and over nats one that subscribes at the same  *)
(* broker; a send waits for it first.                                      *)
(*                                                                         *)
(* The promise of a command, its timeout, and the asynchronous send are    *)
(* three things with lives of their own.  Calls run after connect() has    *)
(* installed its listeners.                                                *)
(***************************************************************************)
EXTENDS Naturals

CONSTANTS
    Calls,      \* calls of _sendMessage
    Timed,      \* those with client_cdp_send_timeout_ms > 0
    NoCall,
    Peers,      \* connections of extensions, or of the browser, each used once
    NoPeer,
    Modes       \* upstream_mode values

ASSUME ConstantsAssumption ==
    /\ Timed \subseteq Calls /\ NoCall \notin Calls
    /\ NoPeer \notin Peers
    /\ Modes \subseteq {"ws", "pipe", "reversews", "nativemessaging", "nats"}

VARIABLES
    mode,          \* the transport's mode, which does not change
    next_id,       \* id of the next command
    id,            \* call -> the id its message carries
    pending,       \* calls that have an entry in the table, under their id
    timers,        \* calls whose send timeout is armed
    peer_waiters,  \* calls whose send waits for a peer, wait timeout armed
    status,        \* call -> "none", "pending", "resolved" or "rejected"
    value,         \* call -> the call whose outcome it resolved with
    dispatched,    \* calls the browser or a service worker has received
    ready,         \* peer -> state of its socket
    hello_pending, \* peers whose first message has not arrived
    hello_timers,  \* peers whose hello timeout is armed
    socket,        \* the registered peer
    requests,      \* peer -> calls it executes or whose answers travel
    link,          \* nats: state of the broker's socket
    peer_seen,     \* nats: a hello came
    phase          \* "open", "closing", then "closed": transport is null

idVars == <<next_id, id>>
peerVars == <<ready, hello_pending, hello_timers, socket>>
linkVars == <<mode, link, peer_seen>>
vars == <<idVars, pending, timers, peer_waiters, status, value, dispatched,
          peerVars, requests, linkVars, phase>>

Raw == {"ws", "pipe"}  \* endpoint_kind "raw_cdp"

Init ==
    /\ mode \in Modes
    /\ next_id = 1
    /\ id = [k \in Calls |-> 0]
    /\ pending = {}
    /\ timers = {}
    /\ peer_waiters = {}
    /\ status = [k \in Calls |-> "none"]
    /\ value = [k \in Calls |-> NoCall]
    /\ dispatched = {}
    /\ hello_pending = {}
    /\ hello_timers = {}
    /\ socket \in IF mode \in Raw THEN Peers ELSE {NoPeer}
    /\ ready = [p \in Peers |-> IF p = socket THEN "open" ELSE "none"]
    /\ requests = [p \in Peers |-> {}]
    /\ link = IF mode = "nats" THEN "up" ELSE "none"
    /\ peer_seen = FALSE
    /\ phase = "open"

-----------------------------------------------------------------------------
(* Pieces of the handlers.  A definition named Bad... is a faulty variant   *)
(* of the one below it, kept to show that the properties notice the fault;  *)
(* nothing uses it.                                                         *)

\* What waitForPeer of each transport takes for a peer: an OPEN socket, one that
\* is not destroyed, though it may have ended, and a hello that came some time.
OpenSocket == socket # NoPeer /\ ready[socket] = "open"
HostConnected == socket # NoPeer
HelloSeen == peer_seen

\* A raw transport is not waited for.
PeerIsThere ==
    \/ mode \in Raw
    \/ mode = "reversews" /\ OpenSocket
    \/ mode = "nativemessaging" /\ HostConnected
    \/ mode = "nats" /\ HelloSeen

\* transport.send throws: a WebSocket that is not OPEN, a pipe whose end was seen.
SendThrows ==
    \/ mode = "ws" /\ ~OpenSocket
    \/ mode = "pipe" /\ socket = NoPeer

\* Who gets what is written now.  Nobody, where the other side is gone and the
\* transport has not noticed, or, over nats, will not notice.
Receivers ==
    {p \in Peers : ready[p] = "open" /\ (p = socket \/ link = "up")}

Transmit(K, group) ==
    /\ requests' = [p \in Peers |-> requests[p] \cup (IF p \in group THEN K ELSE {})]
    /\ dispatched' = dispatched \cup (IF group = {} THEN {} ELSE K)

\* What p sends still reaches _onRecv.  A ws library socket that is CLOSING
\* and a pipe deliver what was sent before; a standard WebSocket that is
\* CLOSING drops it, and nothing follows the end of a native host's stream.
Delivers(p) ==
    IF mode = "nats"
    THEN link = "up"
    ELSE \/ ready[p] = "open"
         \/ ready[p] = "closing" /\ mode \in {"reversews", "pipe"}

Closing(group) ==
    [p \in Peers |-> IF p \in group /\ ready[p] = "open" THEN "closing" ELSE ready[p]]

\* socket.destroy: neither data nor events are seen of it any more.
Destroyed(group) ==
    [p \in Peers |-> IF p \in group THEN "closed" ELSE ready[p]]

BadFollowingId == next_id              \* the counter is not advanced

FollowingId == next_id + 1

BadReject(K, cleared) ==               \* the timer goes, the promise is forgotten
    /\ pending' = pending \ K
    /\ timers' = timers \ cleared
    /\ UNCHANGED status

\* pending.delete and reject for the calls in K that are still in the table.
\* _rejectAll and _onRecv also clear their send timeouts.
Reject(K, cleared) ==
    /\ pending' = pending \ K
    /\ timers' = timers \ cleared
    /\ status' = [k \in Calls |-> IF k \in K \cap pending THEN "rejected" ELSE status[k]]

\* timeout_ms > 0 arms the send timeout.
Armed(k) == timers \cup ({k} \cap Timed)

BadMatches(r) == pending               \* any pending command takes the answer

Matches(r) == {k \in pending : id[k] = id[r]}

-----------------------------------------------------------------------------
(* Commands.                                                                *)

\* _sendMessage with a transport: the table, the timeout, then the send, which
\* is written at once, waits for a peer, or throws; then the entry goes and
\* the timeout stays.
SendMessage(k) ==
    /\ status[k] = "none" /\ phase # "closed"
    /\ id' = [id EXCEPT ![k] = next_id]
    /\ next_id' = FollowingId
    /\ timers' = Armed(k)
    /\ \/ /\ PeerIsThere /\ ~SendThrows
          /\ pending' = pending \cup {k}
          /\ status' = [status EXCEPT ![k] = "pending"]
          /\ Transmit({k}, Receivers)
          /\ UNCHANGED peer_waiters
       \/ /\ ~PeerIsThere
          /\ pending' = pending \cup {k}
          /\ status' = [status EXCEPT ![k] = "pending"]
          /\ peer_waiters' = peer_waiters \cup {k}
          /\ UNCHANGED <<requests, dispatched>>
       \/ /\ SendThrows
          /\ status' = [status EXCEPT ![k] = "rejected"]
          /\ UNCHANGED <<pending, peer_waiters, requests, dispatched>>
    /\ UNCHANGED <<value, peerVars, linkVars, phase>>

SendUnconnected(k) ==
    /\ status[k] = "none" /\ phase = "closed"
    /\ status' = [status EXCEPT ![k] = "rejected"]
    /\ UNCHANGED <<idVars, pending, timers, peer_waiters, value, dispatched,
                   peerVars, requests, linkVars, phase>>

\* The entry goes, if it is still there; the send may go on waiting.
SendTimeout(k) ==
    /\ k \in timers
    /\ Reject({k}, {k})
    /\ UNCHANGED <<idVars, peer_waiters, value, dispatched, peerVars, requests,
                   linkVars, phase>>

PeerWaitTimeout(k) ==
    /\ k \in peer_waiters
    /\ peer_waiters' = peer_waiters \ {k}
    /\ Reject({k}, {})
    /\ UNCHANGED <<idVars, value, dispatched, peerVars, requests, linkVars, phase>>

\* A response to r, a result or an error; _onRecv ignores an unknown id.
Receive(p, r) ==
    /\ r \in requests[p] /\ Delivers(p)
    /\ requests' = [requests EXCEPT ![p] = @ \ {r}]
    /\ \/ /\ Matches(r) = {}
          /\ UNCHANGED <<pending, timers, status, value>>
       \/ \E k \in Matches(r) :
             /\ Reject({k}, {k})
             /\ UNCHANGED value
       \/ \E k \in Matches(r) :
             /\ pending' = pending \ {k}
             /\ timers' = timers \ {k}
             /\ status' = [status EXCEPT ![k] = "resolved"]
             /\ value' = [value EXCEPT ![k] = r]
    /\ UNCHANGED <<idVars, peer_waiters, dispatched, peerVars, linkVars, phase>>

-----------------------------------------------------------------------------
(* The sockets of ws, pipe, reversews and nativemessaging.                  *)

PeerConnect(p) ==
    /\ mode = "reversews" /\ phase = "open"
    /\ ready[p] = "none"
    /\ ready' = [ready EXCEPT ![p] = "open"]
    /\ hello_pending' = hello_pending \cup {p}
    /\ hello_timers' = hello_timers \cup {p}
    /\ UNCHANGED <<socket, idVars, pending, timers, peer_waiters, status, value,
                   dispatched, requests, linkVars, phase>>

\* The listener for the first message stays installed.
HelloTimeout(p) ==
    /\ p \in hello_timers
    /\ hello_timers' = hello_timers \ {p}
    /\ ready' = Closing({p})
    /\ UNCHANGED <<hello_pending, socket, idVars, pending, timers, peer_waiters, status,
                   value, dispatched, requests, linkVars, phase>>

RefuseHello(p) ==
    /\ mode = "reversews"
    /\ p \in hello_pending /\ ready[p] \in {"open", "closing"}
    /\ hello_pending' = hello_pending \ {p}
    /\ hello_timers' = hello_timers \ {p}
    /\ ready' = Closing({p})
    /\ UNCHANGED <<socket, idVars, pending, timers, peer_waiters, status, value,
                   dispatched, requests, linkVars, phase>>

WaitersLeft == {}

\* A valid hello: the peer replaces the registered one and the waiting sends
\* go on, also those of calls that have been rejected meanwhile.  They throw if
\* the peer's socket is CLOSING by now.
AcceptHello(p) ==
    /\ mode = "reversews"
    /\ p \in hello_pending /\ ready[p] \in {"open", "closing"}
    /\ hello_pending' = hello_pending \ {p}
    /\ hello_timers' = hello_timers \ {p}
    /\ ready' = Closing({socket} \ {p})
    /\ socket' = p
    /\ peer_waiters' = WaitersLeft
    /\ \/ /\ ready[p] = "open"
          /\ Transmit(peer_waiters, {p})
          /\ UNCHANGED <<pending, timers, status>>
       \/ /\ ready[p] # "open"
          /\ Reject(peer_waiters, {})
          /\ UNCHANGED <<requests, dispatched>>
    /\ UNCHANGED <<idVars, value, linkVars, phase>>

\* A native host is the peer as soon as it is connected; its hello is ignored.
\* It replaces the one before, and the waiting sends go on.
NativeConnect(p) ==
    /\ mode = "nativemessaging" /\ phase = "open"
    /\ ready[p] = "none"
    /\ ready' = [Destroyed({socket}) EXCEPT ![p] = "open"]
    /\ socket' = p
    /\ peer_waiters' = WaitersLeft
    /\ Transmit(peer_waiters, {p})
    /\ UNCHANGED <<hello_pending, hello_timers, idVars, pending, timers, status, value,
                   linkVars, phase>>

\* The other side closes: a close frame, the end of a stream, a dead browser.
PeerClosing(p) ==
    /\ mode # "nats"
    /\ ready[p] = "open"
    /\ ready' = Closing({p})
    /\ UNCHANGED <<hello_pending, hello_timers, socket, idVars, pending, timers,
                   peer_waiters, status, value, dispatched, requests, linkVars, phase>>

\* The listeners of close and error, and for a pipe of end.  Only the registered
\* peer's loss is emitted, but raw transports do not compare; then every
\* pending call is rejected, whichever peer was to answer it.
PeerEnds(p) ==
    /\ mode # "nats"
    /\ \/ /\ socket = p \/ mode \in Raw
          /\ socket' = NoPeer
          /\ Reject(pending, pending)
       \/ /\ socket # p /\ mode \notin Raw
          /\ UNCHANGED <<socket, pending, timers, status>>
    /\ requests' = [requests EXCEPT ![p] = {}]
    /\ UNCHANGED <<hello_pending, hello_timers, idVars, peer_waiters, value, dispatched,
                   linkVars, phase>>

PeerClosed(p) ==
    /\ ready[p] \in {"closing", "errored"}
    /\ ready' = [ready EXCEPT ![p] = "closed"]
    /\ PeerEnds(p)

PeerError(p) ==
    /\ ready[p] \in {"open", "closing"}
    /\ ready' = [ready EXCEPT ![p] = "errored"]
    /\ PeerEnds(p)

-----------------------------------------------------------------------------
(* The broker of nats.  An extension that subscribes publishes a hello, or  *)
(* answers the client's; one is subscribed at a time.  The client does not  *)
(* learn that it has left, and what is published then reaches nobody.       *)

Subscribe(p) ==
    /\ mode = "nats"
    /\ ready[p] = "none" /\ \A q \in Peers : ready[q] # "open"
    /\ ready' = [ready EXCEPT ![p] = "open"]
    /\ hello_pending' = hello_pending \cup {p}
    /\ UNCHANGED <<hello_timers, socket, idVars, pending, timers, peer_waiters, status,
                   value, dispatched, requests, linkVars, phase>>

\* Answers it has published still travel.
Unsubscribe(p) ==
    /\ mode = "nats"
    /\ ready[p] = "open"
    /\ ready' = [ready EXCEPT ![p] = "closed"]
    /\ UNCHANGED <<hello_pending, hello_timers, socket, idVars, pending, timers,
                   peer_waiters, status, value, dispatched, requests, linkVars, phase>>

Hello(p) ==
    /\ mode = "nats" /\ link = "up"
    /\ p \in hello_pending
    /\ hello_pending' = hello_pending \ {p}
    /\ peer_seen' = TRUE
    /\ peer_waiters' = WaitersLeft
    /\ Transmit(peer_waiters, Receivers)
    /\ UNCHANGED <<mode, link, ready, hello_timers, socket, idVars, pending, timers, status,
                   value, phase>>

LinkClosing ==
    /\ link = "up"
    /\ link' = "closing"
    /\ UNCHANGED <<mode, peer_seen, idVars, pending, timers, peer_waiters, status, value,
                   dispatched, peerVars, requests, phase>>

\* emitClose from the listeners of close and error, or for an -ERR line, after
\* which the link may stay up.  connected and peer_seen are kept.
LinkEnds ==
    /\ \/ link = "up" /\ link' \in {"up", "closing"}
       \/ link = "closing" /\ link' = "closed"
    /\ Reject(pending, pending)
    /\ UNCHANGED <<mode, peer_seen, idVars, peer_waiters, value, dispatched, peerVars,
                   requests, phase>>

-----------------------------------------------------------------------------
(* close().                                                                 *)

\* A server first closes its peer, whose close event is then ignored, and
\* awaits its own end, which comes with its last socket.
CloseReverse ==
    /\ mode = "reversews"
    /\ phase' = "closing"
    /\ ready' = Closing({socket})
    /\ UNCHANGED <<pending, timers, peer_waiters, status, link, peer_seen>>

CloseNative ==
    /\ mode = "nativemessaging"
    /\ phase' = "closing"
    /\ ready' = Destroyed({socket})
    /\ UNCHANGED <<pending, timers, peer_waiters, status, link, peer_seen>>

\* The close event still comes, and is emitted.
CloseWebSocket ==
    /\ mode = "ws"
    /\ phase' = "closed"
    /\ ready' = Closing({socket})
    /\ UNCHANGED <<pending, timers, peer_waiters, status, link, peer_seen>>

\* Nothing is read any more, but the error of an earlier write may still come.
ClosePipe ==
    /\ mode = "pipe"
    /\ phase' = "closed"
    /\ \E state \in {"closed", "errored"} :
         ready' = [p \in Peers |-> IF p = socket THEN state ELSE ready[p]]
    /\ UNCHANGED <<pending, timers, peer_waiters, status, link, peer_seen>>

\* The waiting sends are rejected; the link's close event still comes.
CloseLink ==
    /\ mode = "nats"
    /\ phase' = "closed"
    /\ link' = IF link = "up" THEN "closing" ELSE link
    /\ peer_seen' = FALSE
    /\ peer_waiters' = {}
    /\ Reject(peer_waiters, {})
    /\ UNCHANGED ready

Close ==
    /\ phase = "open"
    /\ socket' = NoPeer
    /\ CloseReverse \/ CloseNative \/ CloseWebSocket \/ ClosePipe \/ CloseLink
    /\ UNCHANGED <<mode, hello_pending, hello_timers, idVars, value, dispatched, requests>>

SocketsEnded == \A p \in Peers : ready[p] \in {"none", "closed"}

\* The sends that still wait for a peer are rejected, and transport is null.
ServerClosed ==
    /\ phase = "closing"
    /\ SocketsEnded
    /\ phase' = "closed"
    /\ peer_waiters' = {}
    /\ Reject(peer_waiters, {})
    /\ UNCHANGED <<idVars, value, dispatched, peerVars, requests, linkVars>>

Next ==
    \/ \E k \in Calls : SendMessage(k)
    \/ \E k \in Calls : SendUnconnected(k)
    \/ \E k \in Calls : SendTimeout(k)
    \/ \E k \in Calls : PeerWaitTimeout(k)
    \/ \E p \in Peers, r \in Calls : Receive(p, r)
    \/ \E p \in Peers : PeerConnect(p)
    \/ \E p \in Peers : HelloTimeout(p)
    \/ \E p \in Peers : RefuseHello(p)
    \/ \E p \in Peers : AcceptHello(p)
    \/ \E p \in Peers : NativeConnect(p)
    \/ \E p \in Peers : PeerClosing(p)
    \/ \E p \in Peers : PeerClosed(p)
    \/ \E p \in Peers : PeerError(p)
    \/ \E p \in Peers : Subscribe(p)
    \/ \E p \in Peers : Unsubscribe(p)
    \/ \E p \in Peers : Hello(p)
    \/ LinkClosing
    \/ LinkEnds
    \/ Close
    \/ ServerClosed

Spec == Init /\ [][Next]_vars

\* Armed timers fire, the ws library ends a closing handshake within 30 s, and
\* close() goes on when the server reports.
Fairness ==
    /\ \A k \in Calls : WF_vars(SendTimeout(k)) /\ WF_vars(PeerWaitTimeout(k))
    /\ \A p \in Peers : WF_vars(HelloTimeout(p)) /\ WF_vars(PeerClosed(p))
    /\ WF_vars(ServerClosed)

FairSpec == Spec /\ Fairness

-----------------------------------------------------------------------------
(* Properties.                                                              *)

\* Every variable stays in its domain.
TypeOK ==
    /\ next_id \in Nat \ {0}
    /\ id \in [Calls -> Nat]
    /\ pending \in SUBSET Calls /\ timers \in SUBSET Calls
    /\ peer_waiters \in SUBSET Calls /\ dispatched \in SUBSET Calls
    /\ status \in [Calls -> {"none", "pending", "resolved", "rejected"}]
    /\ value \in [Calls -> Calls \cup {NoCall}]
    /\ ready \in [Peers -> {"none", "open", "closing", "errored", "closed"}]
    /\ hello_pending \in SUBSET Peers /\ hello_timers \in SUBSET Peers
    /\ socket \in Peers \cup {NoPeer}
    /\ requests \in [Peers -> SUBSET Calls]
    /\ mode \in Modes /\ link \in {"none", "up", "closing", "closed"}
    /\ peer_seen \in BOOLEAN
    /\ phase \in {"open", "closing", "closed"}

\* The promise of a command is pending exactly while its entry is in the table,
\* and then its timeout, if it has one, is still armed.
PendingArmed ==
    \A k \in Calls :
        /\ k \in pending <=> status[k] = "pending"
        /\ k \in pending /\ k \in Timed => k \in timers

\* No send waits while a peer is there, whichever of the hello, the close event
\* and the call comes first.
WaitOnlyWithoutPeer == PeerIsThere => peer_waiters = {}

\* A command executes at one peer at most, also when peers replace each other,
\* and a send that waits has not reached one.
DispatchedOnce ==
    /\ peer_waiters \cap dispatched = {}
    /\ \A p, q \in Peers : p # q => requests[p] \cap requests[q] = {}

\* js/test/test.ReverseWebSocketUpstreamTransport.ts, "close resets peer wait
\* state": once close() has ended no peer is registered and no send waits.
ClosedIsReset == phase = "closed" => socket = NoPeer /\ peer_waiters = {}

\* The transport lost its connection, or learns it late.  A reversews or native
\* peer that was replaced or closed does not count.
Lost ==
    \/ socket # NoPeer /\ socket' = NoPeer /\ phase' = phase
    \/ /\ mode \in Raw
       /\ \E p \in Peers : ready'[p] # ready[p] /\ ready'[p] \in {"errored", "closed"}
    \/ mode = "nats" /\ LinkEnds

\* Only the loss of the connection, its own answer, its own timeout or the end
\* of its wait reject a pending command: no other call's fate does, nor does
\* close() one whose answer is still to come.
RejectedForAReason ==
    [][\A k \in Calls :
         status[k] = "pending" /\ status'[k] = "rejected" =>
           \/ \E p \in Peers : k \in requests[p] /\ k \notin requests'[p]
           \/ SendTimeout(k)
           \/ k \in peer_waiters /\ k \notin peer_waiters'
           \/ Lost]_vars

\* The commands of the client are calls as CommandCalls describes them.
CC == INSTANCE CommandCalls WITH Calls <- Calls, Timed <- Timed, NoCall <- NoCall,
                                status <- status, dispatched <- dispatched, value <- value

\* A command is dispatched at most once and settles at most once, and resolves
\* with its own outcome, through replaced peers, timeouts, and close().
ImplementsCommandCalls == CC!Spec

\* Moreover a command with a send timeout settles, whatever peers do.
TimedCallsSettle == CC!FairSpec

=============================================================================
