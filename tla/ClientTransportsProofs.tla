----------------------- MODULE ClientTransportsProofs -----------------------
(***************************************************************************)
(* Proofs about ClientTransports, for any set of calls, any subset of them *)
(* with a send timeout, and any set of peers, over every transport.        *)
(*                                                                         *)
(* The safety of the refinement rests on CallInv: which calls are in which *)
(* set, and that issued ids are distinct.  What the transport promises     *)
(* rests on PeerInv.  Both assume only the type invariant.                 *)
(*                                                                         *)
(* The last part is about Framing, which cuts the streams that these       *)
(* transports read, for any texts and any number of messages: NarrowInv,   *)
(* while no chunk cuts a character, and WideInv, when chunks may.          *)
(***************************************************************************)
EXTENDS ClientTransports, Framing, FiniteSetTheorems, SequenceTheorems,
        WellFoundedInduction, TLAPS

\* Which calls can be where: nothing happens to a call before it is made, and
\* a call that reached a peer waits no more.
Issued ==
    /\ \A k \in Calls : k \in pending <=> status[k] = "pending"
    /\ \A k \in Calls : status[k] = "none" =>
         id[k] = 0 /\ k \notin dispatched /\ k \notin peer_waiters
    /\ \A k \in Calls : k \in pending \cup peer_waiters \cup dispatched => id[k] # 0
    /\ \A p \in Peers : requests[p] \subseteq dispatched
    /\ peer_waiters \cap dispatched = {}

\* Ids come from a counter, so that calls which were issued have distinct ones.
DistinctIds ==
    /\ \A k \in Calls : id[k] < next_id
    /\ \A j, k \in Calls : id[j] = id[k] /\ id[j] # 0 => j = k

OnePeerEach == \A p, q \in Peers : p # q => requests[p] \cap requests[q] = {}

\* What a send writes goes to one peer: the registered one, or over nats the
\* one that is subscribed.
OneReceiver ==
    /\ link # "none" => mode = "nats"
    /\ mode = "nats" =>
         socket = NoPeer /\ \A p, q \in Peers : ready[p] = "open" /\ ready[q] = "open" => p = q

CallInv == Issued /\ DistinctIds /\ OnePeerEach /\ OneReceiver

\* The registered peer is one whose close event has not come.  A closed client
\* has none, and nothing can register one any more.
PeerInv ==
    /\ socket # NoPeer => ready[socket] \in {"open", "closing"}
    /\ PeerIsThere => peer_waiters = {}
    /\ peer_seen => mode = "nats"
    /\ link = "up" => phase = "open"
    /\ mode \in Raw => peer_waiters = {}
    /\ mode = "nats" => phase # "closing"
    /\ mode = "reversews" /\ phase = "closed" => SocketsEnded
    /\ phase = "closed" => socket = NoPeer /\ ~peer_seen /\ peer_waiters = {}

-----------------------------------------------------------------------------

\* A client that has just connected has its types.
LEMMA InitTypeOK == Init => TypeOK
<1> SUFFICES ASSUME Init PROVE TypeOK
    OBVIOUS
<1>1. socket \in Peers \cup {NoPeer}
  BY DEF Init
<1>2. ready \in [Peers -> {"none", "open", "closing", "errored", "closed"}]
  BY DEF Init
<1>3. link \in {"none", "up", "closing", "closed"}
  BY DEF Init
<1>4. peer_seen \in BOOLEAN
  BY DEF Init
<1>5. /\ next_id \in Nat \ {0} /\ id \in [Calls -> Nat]
      /\ pending \in SUBSET Calls /\ timers \in SUBSET Calls
      /\ peer_waiters \in SUBSET Calls /\ dispatched \in SUBSET Calls
      /\ status \in [Calls -> {"none", "pending", "resolved", "rejected"}]
      /\ value \in [Calls -> Calls \cup {NoCall}]
      /\ hello_pending \in SUBSET Peers /\ hello_timers \in SUBSET Peers
      /\ requests \in [Peers -> SUBSET Calls]
      /\ mode \in Modes /\ phase \in {"open", "closing", "closed"}
  BY DEF Init
<1> QED BY <1>1, <1>2, <1>3, <1>4, <1>5 DEF TypeOK

\* Every action of the client and its transport keeps the types.
LEMMA NextTypeOK == TypeOK /\ [Next]_vars => TypeOK'
<1> SUFFICES ASSUME TypeOK, [Next]_vars PROVE TypeOK'
    OBVIOUS
<1> USE ConstantsAssumption DEF TypeOK
<1>0. \A K \in SUBSET Calls, G \in SUBSET Peers : Transmit(K, G) =>
        requests' \in [Peers -> SUBSET Calls] /\ dispatched' \in SUBSET Calls
  BY DEF Transmit
<1>1. ASSUME NEW k \in Calls, SendMessage(k) PROVE TypeOK'
  <2>1. requests' \in [Peers -> SUBSET Calls] /\ dispatched' \in SUBSET Calls
    <3>1. Receivers \in SUBSET Peers /\ {k} \in SUBSET Calls
      BY DEF Receivers
    <3> QED BY <1>1, <3>1, <1>0 DEF SendMessage
  <2>2. pending' \in SUBSET Calls /\ peer_waiters' \in SUBSET Calls
        /\ status' \in [Calls -> {"none", "pending", "resolved", "rejected"}]
    BY <1>1 DEF SendMessage
  <2> QED BY <1>1, <2>1, <2>2 DEF SendMessage, FollowingId, Armed, peerVars, linkVars
<1>2. ASSUME NEW k \in Calls, SendUnconnected(k) PROVE TypeOK'
  BY <1>2 DEF SendUnconnected, idVars, peerVars, linkVars
<1>3. ASSUME NEW k \in Calls, SendTimeout(k) PROVE TypeOK'
  BY <1>3 DEF SendTimeout, Reject, idVars, peerVars, linkVars
<1>4. ASSUME NEW k \in Calls, PeerWaitTimeout(k) PROVE TypeOK'
  BY <1>4 DEF PeerWaitTimeout, Reject, idVars, peerVars, linkVars
<1>5. ASSUME NEW p \in Peers, NEW r \in Calls, Receive(p, r) PROVE TypeOK'
  BY <1>5 DEF Receive, Reject, Matches, idVars, peerVars, linkVars
<1>6. ASSUME NEW p \in Peers, PeerConnect(p) PROVE TypeOK'
  BY <1>6 DEF PeerConnect, idVars, linkVars
<1>7. ASSUME NEW p \in Peers, HelloTimeout(p) PROVE TypeOK'
  BY <1>7 DEF HelloTimeout, Closing, idVars, linkVars
<1>8. ASSUME NEW p \in Peers, RefuseHello(p) PROVE TypeOK'
  BY <1>8 DEF RefuseHello, Closing, idVars, linkVars
<1>9. ASSUME NEW p \in Peers, AcceptHello(p) PROVE TypeOK'
  <2>1. requests' \in [Peers -> SUBSET Calls] /\ dispatched' \in SUBSET Calls
    BY <1>9, <1>0 DEF AcceptHello
  <2>2. pending' \in SUBSET Calls /\ timers' \in SUBSET Calls
        /\ status' \in [Calls -> {"none", "pending", "resolved", "rejected"}]
    BY <1>9 DEF AcceptHello, Reject
  <2> QED BY <1>9, <2>1, <2>2 DEF AcceptHello, Closing, WaitersLeft, idVars, linkVars
<1>10. ASSUME NEW p \in Peers, PeerClosing(p) PROVE TypeOK'
  BY <1>10 DEF PeerClosing, Closing, idVars, linkVars
<1>11. ASSUME NEW p \in Peers, PeerClosed(p) PROVE TypeOK'
  BY <1>11 DEF PeerClosed, PeerEnds, Reject, idVars, linkVars
<1>12. ASSUME NEW p \in Peers, PeerError(p) PROVE TypeOK'
  BY <1>12 DEF PeerError, PeerEnds, Reject, idVars, linkVars
<1>13. CASE Close
  <2>1. pending' \in SUBSET Calls /\ timers' \in SUBSET Calls
        /\ peer_waiters' \in SUBSET Calls
        /\ status' \in [Calls -> {"none", "pending", "resolved", "rejected"}]
    BY <1>13 DEF Close, CloseReverse, CloseNative,
      CloseWebSocket, ClosePipe, CloseLink, Reject
  <2>2. ready' \in [Peers -> {"none", "open", "closing", "errored", "closed"}]
    BY <1>13 DEF Close, CloseReverse, CloseNative,
      CloseWebSocket, ClosePipe, CloseLink, Closing, Destroyed
  <2> QED BY <1>13, <2>1, <2>2 DEF Close, CloseReverse, CloseNative,
    CloseWebSocket, ClosePipe, CloseLink, idVars
<1>14. CASE ServerClosed
  BY <1>14 DEF ServerClosed, Reject, idVars, peerVars, linkVars
<1>15. ASSUME NEW p \in Peers, NativeConnect(p) PROVE TypeOK'
  <2>1. requests' \in [Peers -> SUBSET Calls] /\ dispatched' \in SUBSET Calls
    BY <1>15, <1>0 DEF NativeConnect
  <2> QED BY <1>15, <2>1 DEF NativeConnect, Destroyed, WaitersLeft, idVars, linkVars
<1>16. ASSUME NEW p \in Peers, Subscribe(p) \/ Unsubscribe(p) PROVE TypeOK'
  BY <1>16 DEF Subscribe, Unsubscribe, idVars, linkVars
<1>17. ASSUME NEW p \in Peers, Hello(p) PROVE TypeOK'
  <2>1. requests' \in [Peers -> SUBSET Calls] /\ dispatched' \in SUBSET Calls
    <3>1. Receivers \in SUBSET Peers
      BY DEF Receivers
    <3> QED BY <1>17, <3>1, <1>0 DEF Hello
  <2> QED BY <1>17, <2>1 DEF Hello, WaitersLeft, idVars
<1>18. CASE LinkClosing
  BY <1>18 DEF LinkClosing, idVars, peerVars
<1>19. CASE LinkEnds
  BY <1>19 DEF LinkEnds, Reject, idVars, peerVars
<1>20. CASE UNCHANGED vars
  BY <1>20 DEF vars, idVars, peerVars, linkVars
<1> QED
  BY <1>1, <1>2, <1>3, <1>4, <1>5, <1>6, <1>7, <1>8, <1>9, <1>10, <1>11, <1>12, <1>13,
     <1>14, <1>15, <1>16, <1>17, <1>18, <1>19, <1>20 DEF Next

\* Every reachable state has the types of the declarations.
THEOREM TypeCorrect == Spec => []TypeOK
<1>1. Init => TypeOK
  BY InitTypeOK
<1>2. TypeOK /\ [Next]_vars => TypeOK'
  BY NextTypeOK
<1> QED BY <1>1, <1>2, PTL DEF Spec

-----------------------------------------------------------------------------
(* Calls.                                                                   *)

\* The strengthened invariant of the calls holds before the first of them.
LEMMA InitCallInv == Init => CallInv
BY ConstantsAssumption DEF Init, CallInv, Issued, DistinctIds, OnePeerEach, OneReceiver, Raw

\* Only calls that were issued, under an id the counter has passed, are in any table.
LEMMA NextIssued == TypeOK /\ Issued /\ DistinctIds /\ [Next]_vars => Issued'
<1> SUFFICES ASSUME TypeOK, Issued, DistinctIds, [Next]_vars PROVE Issued'
    OBVIOUS
<1> USE ConstantsAssumption DEF TypeOK, Issued
<1>0. ASSUME NEW G \in SUBSET Peers, Transmit(peer_waiters, G)
      PROVE /\ \A p \in Peers : requests'[p] \subseteq dispatched'
            /\ dispatched' \subseteq dispatched \cup peer_waiters
  BY <1>0 DEF Transmit
<1>1. ASSUME NEW k \in Calls, SendMessage(k) PROVE Issued'
  <2>0. id[k] = 0 /\ k \notin dispatched /\ k \notin peer_waiters /\ k \notin pending
    BY <1>1 DEF SendMessage
  <2>a. next_id # 0 /\ id' = [id EXCEPT ![k] = next_id]
    BY <1>1 DEF SendMessage
  <2>1. CASE Transmit({k}, Receivers)
    <3>1. /\ \A p \in Peers : requests'[p] \subseteq dispatched'
          /\ dispatched' \subseteq dispatched \cup {k}
      BY <2>1 DEF Transmit, Receivers
    <3>2. CASE PeerIsThere /\ ~SendThrows
      <4>1. peer_waiters' = peer_waiters /\ pending' = pending \cup {k}
            /\ status' = [status EXCEPT ![k] = "pending"]
        BY <1>1, <3>2 DEF SendMessage
      <4> QED BY <2>0, <2>a, <3>1, <4>1
    <3>3. CASE ~(PeerIsThere /\ ~SendThrows)
      <4>1. UNCHANGED <<requests, dispatched>>
        BY <1>1, <3>3 DEF SendMessage
      <4>2. CASE ~SendThrows
        BY <1>1, <2>0, <2>a, <3>3, <4>1, <4>2 DEF SendMessage
      <4>3. CASE SendThrows
        BY <1>1, <2>0, <2>a, <3>3, <4>1, <4>3 DEF SendMessage
      <4> QED BY <4>2, <4>3
    <3> QED BY <3>2, <3>3
  <2>2. CASE ~Transmit({k}, Receivers)
    <3>1. UNCHANGED <<requests, dispatched>>
      BY <1>1, <2>2 DEF SendMessage
    <3>2. \/ /\ pending' = pending \cup {k}
             /\ status' = [status EXCEPT ![k] = "pending"]
             /\ peer_waiters' = peer_waiters \cup {k}
          \/ /\ status' = [status EXCEPT ![k] = "rejected"]
             /\ UNCHANGED <<pending, peer_waiters>>
      BY <1>1, <2>2 DEF SendMessage
    <3> QED BY <2>0, <2>a, <3>1, <3>2
  <2> QED BY <2>1, <2>2
<1>2. ASSUME NEW k \in Calls, SendUnconnected(k) PROVE Issued'
  BY <1>2 DEF SendUnconnected, idVars
<1>3. ASSUME NEW k \in Calls, SendTimeout(k) PROVE Issued'
  BY <1>3 DEF SendTimeout, Reject, idVars
<1>4. ASSUME NEW k \in Calls, PeerWaitTimeout(k) PROVE Issued'
  BY <1>4 DEF PeerWaitTimeout, Reject, idVars
<1>5. ASSUME NEW p \in Peers, NEW r \in Calls, Receive(p, r) PROVE Issued'
  BY <1>5 DEF Receive, Reject, Matches, idVars
<1>6. ASSUME NEW p \in Peers,
             PeerConnect(p) \/ HelloTimeout(p) \/ RefuseHello(p) \/ PeerClosing(p)
             \/ Subscribe(p) \/ Unsubscribe(p)
      PROVE Issued'
  BY <1>6 DEF PeerConnect, HelloTimeout, RefuseHello, PeerClosing, Subscribe, Unsubscribe,
              idVars
<1>7. ASSUME NEW p \in Peers, NativeConnect(p) \/ Hello(p) PROVE Issued'
  <2>1. PICK G \in SUBSET Peers : Transmit(peer_waiters, G)
    BY <1>7 DEF NativeConnect, Hello, Receivers
  <2>2. peer_waiters' = {} /\ UNCHANGED <<pending, status, id>>
    BY <1>7 DEF NativeConnect, Hello, WaitersLeft, idVars
  <2> QED BY <1>0, <2>1, <2>2
<1>8. ASSUME NEW p \in Peers, AcceptHello(p) PROVE Issued'
  <2>1. peer_waiters' = {} /\ UNCHANGED id
    BY <1>8 DEF AcceptHello, WaitersLeft, idVars
  <2>2. CASE ready[p] = "open"
    <3>1. Transmit(peer_waiters, {p}) /\ UNCHANGED <<pending, status>>
      BY <1>8, <2>2 DEF AcceptHello
    <3> QED BY <1>0, <2>1, <3>1
  <2>3. CASE ready[p] # "open"
    BY <1>8, <2>1, <2>3 DEF AcceptHello, Reject
  <2> QED BY <2>2, <2>3
<1>9. ASSUME NEW p \in Peers, PeerEnds(p) PROVE Issued'
  BY <1>9 DEF PeerEnds, Reject, idVars
<1>10. CASE LinkEnds
  BY <1>10 DEF LinkEnds, Reject, idVars
<1>11. CASE Close
  <2>1. UNCHANGED <<id, dispatched, requests>>
    BY <1>11 DEF Close, CloseReverse, CloseNative,
      CloseWebSocket, ClosePipe, CloseLink, idVars
  <2>2. CASE mode # "nats"
    BY <1>11, <2>1, <2>2 DEF Close, CloseReverse, CloseNative,
      CloseWebSocket, ClosePipe, CloseLink
  <2>3. CASE mode = "nats"
    BY <1>11, <2>1, <2>3 DEF Close, CloseReverse, CloseNative,
      CloseWebSocket, ClosePipe, CloseLink, Reject
  <2> QED BY <2>2, <2>3
<1>12. CASE ServerClosed
  BY <1>12 DEF ServerClosed, Reject, idVars
<1>13. CASE UNCHANGED vars \/ LinkClosing
  BY <1>13 DEF vars, idVars, LinkClosing
<1> QED
  BY <1>1, <1>2, <1>3, <1>4, <1>5, <1>6, <1>7, <1>8, <1>9, <1>10, <1>11, <1>12, <1>13
     DEF Next, PeerClosed, PeerError

\* next_id never hands out an id twice (_sendMessage).
LEMMA NextDistinctIds == TypeOK /\ DistinctIds /\ [Next]_vars => DistinctIds'
<1> SUFFICES ASSUME TypeOK, DistinctIds, [Next]_vars PROVE DistinctIds'
    OBVIOUS
<1>1. ASSUME NEW k \in Calls, SendMessage(k) PROVE DistinctIds'
  BY <1>1 DEF SendMessage, FollowingId, TypeOK, DistinctIds
<1>2. CASE UNCHANGED idVars
  BY <1>2 DEF idVars, DistinctIds
<1> QED
  BY <1>1, <1>2 DEF Next, vars, SendUnconnected, SendTimeout, PeerWaitTimeout, Receive,
     PeerConnect, HelloTimeout, RefuseHello, AcceptHello, NativeConnect, PeerClosing,
     PeerClosed, PeerError, PeerEnds, Subscribe, Unsubscribe, Hello, LinkClosing,
     LinkEnds, Close, CloseReverse, CloseNative,
       CloseWebSocket, ClosePipe, CloseLink, ServerClosed

\* Only one extension is subscribed at the broker at a time, and only over nats
\* is there a broker.
LEMMA NextOneReceiver == TypeOK /\ OneReceiver /\ [Next]_vars => OneReceiver'
<1> SUFFICES ASSUME TypeOK, OneReceiver, [Next]_vars PROVE OneReceiver'
    OBVIOUS
<1> USE ConstantsAssumption DEF TypeOK, OneReceiver
<1>1. ASSUME NEW p \in Peers,
             PeerConnect(p) \/ HelloTimeout(p) \/ RefuseHello(p) \/ AcceptHello(p)
             \/ NativeConnect(p) \/ PeerClosing(p)
      PROVE OneReceiver'
  BY <1>1 DEF PeerConnect, HelloTimeout, RefuseHello, AcceptHello, NativeConnect,
              PeerClosing, Closing, linkVars
<1>2. ASSUME NEW p \in Peers, PeerEnds(p) PROVE OneReceiver'
  BY <1>2 DEF PeerEnds, linkVars
<1>3. ASSUME NEW p \in Peers, Subscribe(p) \/ Unsubscribe(p) PROVE OneReceiver'
  BY <1>3 DEF Subscribe, Unsubscribe, linkVars
<1>4. CASE Close
  BY <1>4 DEF Close, CloseReverse, CloseNative,
    CloseWebSocket, ClosePipe, CloseLink, Destroyed
<1>5. CASE UNCHANGED <<ready, socket, mode>> /\ (link' # "none" => link # "none")
  BY <1>5
<1> QED
  BY <1>1, <1>2, <1>3, <1>4, <1>5 DEF Next, vars, linkVars, peerVars, SendMessage,
     SendUnconnected, SendTimeout, PeerWaitTimeout, Receive, PeerClosed, PeerError, Hello,
     LinkClosing, LinkEnds, ServerClosed

\* A call is in the hands of one peer at most, and of none while it waits.
LEMMA NextOnePeerEach ==
    TypeOK /\ Issued /\ OneReceiver /\ OnePeerEach /\ [Next]_vars => OnePeerEach'
<1> SUFFICES ASSUME TypeOK, Issued, OneReceiver, OnePeerEach, [Next]_vars PROVE OnePeerEach'
    OBVIOUS
<1> USE ConstantsAssumption DEF TypeOK, OnePeerEach
<1>0. ASSUME NEW K \in SUBSET Calls, NEW G \in SUBSET Peers, Transmit(K, G),
             \A p, q \in G : p = q, K \cap dispatched = {}
      PROVE OnePeerEach'
  <2>1. \A p \in Peers : requests[p] \cap K = {}
    BY <1>0 DEF Issued
  <2>2. \A p \in Peers :
          requests'[p] = requests[p] \cup (IF p \in G THEN K ELSE {})
    BY <1>0 DEF Transmit
  <2> QED BY <1>0, <2>1, <2>2
<1>a. Receivers \in SUBSET Peers /\ \A p, q \in Receivers : p = q
  BY DEF Receivers, OneReceiver
<1>b. peer_waiters \cap dispatched = {}
  BY DEF Issued
<1>1. ASSUME NEW k \in Calls, SendMessage(k) PROVE OnePeerEach'
  <2>1. {k} \cap dispatched = {}
    BY <1>1 DEF SendMessage, Issued
  <2>2. CASE Transmit({k}, Receivers)
    <3>1. {k} \in SUBSET Calls
      OBVIOUS
    <3> QED BY <1>0, <1>a, <2>1, <2>2, <3>1
  <2>3. CASE UNCHANGED requests
    BY <2>3
  <2> QED BY <1>1, <2>2, <2>3 DEF SendMessage
<1>2. ASSUME NEW p \in Peers, AcceptHello(p) PROVE OnePeerEach'
  <2>1. CASE Transmit(peer_waiters, {p})
    <3>1. PICK G \in SUBSET Peers :
            Transmit(peer_waiters, G) /\ \A q, r \in G : q = r
      <4>1. {p} \in SUBSET Peers /\ \A q, r \in {p} : q = r
        OBVIOUS
      <4> WITNESS {p} \in SUBSET Peers
      <4> QED BY <2>1, <4>1
    <3> QED BY <1>0, <1>b, <3>1
  <2>2. CASE UNCHANGED requests
    BY <2>2
  <2> QED BY <1>2, <2>1, <2>2 DEF AcceptHello
<1>3. ASSUME NEW p \in Peers, NativeConnect(p) PROVE OnePeerEach'
  <2>1. PICK G \in SUBSET Peers : Transmit(peer_waiters, G) /\ \A q, r \in G : q = r
    <3>1. {p} \in SUBSET Peers /\ \A q, r \in {p} : q = r
      OBVIOUS
    <3>2. Transmit(peer_waiters, {p})
      BY <1>3 DEF NativeConnect
    <3> WITNESS {p} \in SUBSET Peers
    <3> QED BY <3>1, <3>2
  <2> QED BY <1>0, <1>b, <2>1
<1>4. ASSUME NEW p \in Peers, Hello(p) PROVE OnePeerEach'
  <2>1. Transmit(peer_waiters, Receivers)
    BY <1>4 DEF Hello
  <2> QED BY <1>0, <1>a, <1>b, <2>1
<1>5. ASSUME NEW p \in Peers, NEW r \in Calls, Receive(p, r) PROVE OnePeerEach'
  BY <1>5 DEF Receive
<1>6. ASSUME NEW p \in Peers, PeerEnds(p) PROVE OnePeerEach'
  BY <1>6 DEF PeerEnds
<1>7. CASE UNCHANGED requests
  BY <1>7
<1> QED
  BY <1>1, <1>2, <1>3, <1>4, <1>5, <1>6, <1>7 DEF Next, vars, SendUnconnected, SendTimeout,
     PeerWaitTimeout, PeerConnect, HelloTimeout, RefuseHello, PeerClosing, PeerClosed,
     PeerError, Subscribe, Unsubscribe, LinkClosing, LinkEnds, Close, CloseReverse,
     CloseNative, CloseWebSocket, ClosePipe, CloseLink, ServerClosed

\* The strengthened invariant of the calls holds in every reachable state.
THEOREM CallsInvariant == Spec => [](TypeOK /\ CallInv)
<1>1. Init => TypeOK /\ CallInv
  BY InitTypeOK, InitCallInv
<1>2. TypeOK /\ CallInv /\ [Next]_vars => TypeOK' /\ CallInv'
  BY NextTypeOK, NextIssued, NextDistinctIds, NextOneReceiver, NextOnePeerEach DEF CallInv
<1> QED BY <1>1, <1>2, PTL DEF Spec

\* However peers replace each other, a command executes at one peer at most
\* and does not wait for another once it was dispatched.
THEOREM CallsDispatchedOnce == Spec => []DispatchedOnce
<1>1. TypeOK /\ CallInv => DispatchedOnce
  BY DEF CallInv, Issued, OnePeerEach, DispatchedOnce
<1> QED BY <1>1, CallsInvariant, PTL

-----------------------------------------------------------------------------
(* The timeouts.                                                            *)

TimersArmed == \A k \in Calls : k \in pending /\ k \in Timed => k \in timers

\* A pending call keeps its entry and its send timeout.
LEMMA NextTimersArmed == TypeOK /\ TimersArmed /\ [Next]_vars => TimersArmed'
<1> SUFFICES ASSUME TypeOK, TimersArmed, [Next]_vars PROVE TimersArmed'
    OBVIOUS
<1> USE DEF TypeOK, TimersArmed
<1>1. ASSUME NEW k \in Calls, SendMessage(k) PROVE TimersArmed'
  BY <1>1 DEF SendMessage, Armed
<1>2. ASSUME NEW k \in Calls, SendTimeout(k) \/ PeerWaitTimeout(k) PROVE TimersArmed'
  BY <1>2 DEF SendTimeout, PeerWaitTimeout, Reject
<1>3. ASSUME NEW p \in Peers, NEW r \in Calls, Receive(p, r) PROVE TimersArmed'
  BY <1>3 DEF Receive, Reject, Matches
<1>4. ASSUME NEW p \in Peers, AcceptHello(p) PROVE TimersArmed'
  BY <1>4 DEF AcceptHello, Reject
<1>5. ASSUME NEW p \in Peers, PeerEnds(p) PROVE TimersArmed'
  BY <1>5 DEF PeerEnds, Reject
<1>6. CASE ServerClosed \/ LinkEnds \/ Close
  BY <1>6 DEF ServerClosed, LinkEnds, Close, CloseReverse, CloseNative,
    CloseWebSocket, ClosePipe, CloseLink, Reject
<1>7. CASE UNCHANGED <<pending, timers>>
  BY <1>7
<1> QED
  BY <1>1, <1>2, <1>3, <1>4, <1>5, <1>6, <1>7 DEF Next, vars, SendUnconnected,
     PeerConnect, HelloTimeout, RefuseHello, NativeConnect, PeerClosing, PeerClosed,
     PeerError, Subscribe, Unsubscribe, Hello, LinkClosing

\* A pending promise has its entry in the table and its send timeout armed: no
\* handler settles one without the other, so that no timed call can hang.
THEOREM PendingStayArmed == Spec => []PendingArmed
<1>1. Init => TimersArmed
  BY DEF Init, TimersArmed
<1>2. TypeOK /\ TimersArmed /\ [Next]_vars => TimersArmed'
  BY NextTimersArmed
<1>3. CallInv /\ TimersArmed => PendingArmed
  BY DEF CallInv, Issued, TimersArmed, PendingArmed
<1> QED BY <1>1, <1>2, <1>3, CallsInvariant, PTL DEF Spec

-----------------------------------------------------------------------------
(* The transport.                                                           *)

\* The transport keeps waiters only while no peer is there.
LEMMA NextPeerInv == TypeOK /\ OneReceiver /\ PeerInv /\ [Next]_vars => PeerInv'
<1> SUFFICES ASSUME TypeOK, OneReceiver, PeerInv, [Next]_vars PROVE PeerInv'
    OBVIOUS
<1> USE ConstantsAssumption DEF TypeOK, OneReceiver, PeerInv, PeerIsThere, SocketsEnded,
                                Raw, OpenSocket, HostConnected, HelloSeen
<1>1. ASSUME NEW k \in Calls, SendMessage(k) PROVE PeerInv'
  <2>1. phase # "closed" /\ UNCHANGED <<peerVars, linkVars, phase>>
    BY <1>1 DEF SendMessage
  <2>2. \/ UNCHANGED peer_waiters
        \/ ~PeerIsThere
    BY <1>1 DEF SendMessage
  <2> QED BY <2>1, <2>2 DEF peerVars, linkVars
<1>2. ASSUME NEW k \in Calls, SendUnconnected(k) \/ SendTimeout(k) \/ PeerWaitTimeout(k)
      PROVE PeerInv'
  BY <1>2 DEF SendUnconnected, SendTimeout, PeerWaitTimeout, peerVars, linkVars
<1>3. ASSUME NEW p \in Peers, NEW r \in Calls, Receive(p, r) PROVE PeerInv'
  BY <1>3 DEF Receive, peerVars, linkVars
<1>4. ASSUME NEW p \in Peers, PeerConnect(p) PROVE PeerInv'
  BY <1>4 DEF PeerConnect, linkVars
<1>5. ASSUME NEW p \in Peers, HelloTimeout(p) \/ RefuseHello(p) \/ PeerClosing(p)
      PROVE PeerInv'
  BY <1>5 DEF HelloTimeout, RefuseHello, PeerClosing, Closing, linkVars
<1>6. ASSUME NEW p \in Peers, AcceptHello(p) PROVE PeerInv'
  <2>1. peer_waiters' = {} /\ phase' = phase /\ socket' = p /\ UNCHANGED linkVars
        /\ mode = "reversews"
    BY <1>6 DEF AcceptHello, WaitersLeft
  <2>2. phase # "closed"
    BY <1>6 DEF AcceptHello
  <2>3. ready'[p] \in {"open", "closing"}
    BY <1>6 DEF AcceptHello, Closing
  <2> QED BY <2>1, <2>2, <2>3 DEF linkVars
<1>7. ASSUME NEW p \in Peers, PeerClosed(p) PROVE PeerInv'
  BY <1>7 DEF PeerClosed, PeerEnds, linkVars
<1>8. ASSUME NEW p \in Peers, PeerError(p) PROVE PeerInv'
  BY <1>8 DEF PeerError, PeerEnds, linkVars
<1>9. ASSUME NEW p \in Peers, NativeConnect(p) PROVE PeerInv'
  <2>1. peer_waiters' = {} /\ phase' = phase /\ socket' = p /\ UNCHANGED linkVars
        /\ mode = "nativemessaging" /\ phase = "open"
    BY <1>9 DEF NativeConnect, WaitersLeft
  <2>2. ready'[p] = "open"
    BY <1>9 DEF NativeConnect, Destroyed
  <2> QED BY <2>1, <2>2 DEF linkVars
<1>10. ASSUME NEW p \in Peers, Subscribe(p) \/ Unsubscribe(p) PROVE PeerInv'
  BY <1>10 DEF Subscribe, Unsubscribe, linkVars
<1>11. ASSUME NEW p \in Peers, Hello(p) PROVE PeerInv'
  BY <1>11 DEF Hello, WaitersLeft
<1>12. CASE LinkClosing \/ LinkEnds
  BY <1>12 DEF LinkClosing, LinkEnds, peerVars
<1>13. CASE Close
  <2> USE <1>13 DEF Close, CloseReverse, CloseNative, CloseWebSocket, ClosePipe, CloseLink
  <2>1. socket' = NoPeer /\ mode' = mode /\ phase = "open"
    OBVIOUS
  <2>2. mode # "nats" => UNCHANGED <<link, peer_seen, peer_waiters>>
    OBVIOUS
  <2>3. mode = "nats" => peer_waiters' = {} /\ ~peer_seen' /\ link' # "up"
                         /\ phase' = "closed"
    OBVIOUS
  <2>4. phase' = IF mode \in {"reversews", "nativemessaging"} THEN "closing" ELSE "closed"
    OBVIOUS
  <2> QED
    <3> HIDE DEF Close, CloseReverse, CloseNative, CloseWebSocket, ClosePipe, CloseLink
    <3> QED BY <2>1, <2>2, <2>3, <2>4
<1>14. CASE ServerClosed
  <2>1. socket = NoPeer
    BY <1>14 DEF ServerClosed
  <2> QED BY <1>14, <2>1 DEF ServerClosed, peerVars, linkVars
<1>15. CASE UNCHANGED vars
  BY <1>15 DEF vars, peerVars, linkVars
<1> QED
  BY <1>1, <1>2, <1>3, <1>4, <1>5, <1>6, <1>7, <1>8, <1>9, <1>10, <1>11, <1>12, <1>13,
     <1>14, <1>15 DEF Next

\* The transport's invariant holds in every reachable state.
LEMMA PeersInvariant == Spec => [](TypeOK /\ PeerInv)
<1>1. Init => PeerInv
  BY ConstantsAssumption DEF Init, PeerInv, PeerIsThere, Raw, OpenSocket, HostConnected,
                             HelloSeen
<1>2. TypeOK /\ CallInv /\ PeerInv /\ [Next]_vars => PeerInv'
  BY NextPeerInv DEF CallInv
<1> QED BY <1>1, <1>2, CallsInvariant, PTL DEF Spec

\* A send never sleeps while a peer is there.
THEOREM WaitsOnlyWithoutPeer == Spec => []WaitOnlyWithoutPeer
<1>1. TypeOK /\ PeerInv => WaitOnlyWithoutPeer
  BY DEF PeerInv, WaitOnlyWithoutPeer
<1> QED BY <1>1, PeersInvariant, PTL

\* When close() has ended no peer is registered and no send waits, although
\* peers may say hello and calls may be made while it is under way.
THEOREM CloseResets == Spec => []ClosedIsReset
<1>1. TypeOK /\ PeerInv => ClosedIsReset
  BY DEF PeerInv, ClosedIsReset
<1> QED BY <1>1, PeersInvariant, PTL

-----------------------------------------------------------------------------
(* The refinement.                                                          *)

\* The initial states of the client are initial states of CommandCalls.
LEMMA InitRefines == Init => CC!Init
BY DEF Init, CC!Init

\* Rejecting the table entries of K is a step CommandCalls!Reject, or a stutter.
LEMMA RejectRefines ==
    ASSUME TypeOK, Issued, NEW K \in SUBSET Calls, NEW cleared, Reject(K, cleared),
           UNCHANGED <<dispatched, value>>
    PROVE  CC!Next
<1>1. CC!Reject(K \cap pending)
  BY DEF TypeOK, Issued, Reject, CC!Reject, CC!Rejected
<1> QED BY <1>1 DEF CC!Next

\* The id of a request in flight is that of its call alone.
LEMMA OwnMatch ==
    ASSUME TypeOK, CallInv, NEW p \in Peers, NEW r \in requests[p], NEW k \in Matches(r)
    PROVE  k = r
BY DEF TypeOK, CallInv, Issued, DistinctIds, Matches

\* Every step of the client is a step of CommandCalls or leaves it unchanged.
LEMMA NextRefines == TypeOK /\ CallInv /\ [Next]_vars => [CC!Next]_(CC!vars)
<1> SUFFICES ASSUME TypeOK, CallInv, [Next]_vars PROVE [CC!Next]_(CC!vars)
    OBVIOUS
<1>a. Issued
  BY DEF CallInv
<1> USE DEF CC!vars
<1>1. ASSUME NEW k \in Calls, SendMessage(k) PROVE CC!Next
  <2>1. CASE CC!Issue(k)
    BY <2>1 DEF CC!Next
  <2>2. CASE CC!Refuse(k)
    BY <2>2 DEF CC!Next
  <2>3. CC!Issue(k) \/ CC!Refuse(k)
    BY <1>1 DEF SendMessage, Transmit, CC!Issue, CC!Refuse, CC!Rejected, TypeOK
  <2> QED BY <2>1, <2>2, <2>3
<1>2. ASSUME NEW k \in Calls, SendUnconnected(k) PROVE CC!Next
  <2>1. CC!Refuse(k)
    BY <1>2 DEF SendUnconnected, CC!Refuse, CC!Rejected, TypeOK
  <2> QED BY <2>1 DEF CC!Next
<1>3. ASSUME NEW k \in Calls, SendTimeout(k) PROVE CC!Next
  <2>1. Reject({k}, {k}) /\ UNCHANGED <<dispatched, value>>
    BY <1>3 DEF SendTimeout
  <2> QED BY <2>1, <1>a, RejectRefines
<1>4. ASSUME NEW k \in Calls, PeerWaitTimeout(k) PROVE CC!Next
  <2>1. Reject({k}, {}) /\ UNCHANGED <<dispatched, value>>
    BY <1>4 DEF PeerWaitTimeout
  <2> QED BY <2>1, <1>a, RejectRefines
<1>5. ASSUME NEW p \in Peers, NEW r \in Calls, Receive(p, r) PROVE [CC!Next]_(CC!vars)
  <2>1. CASE Matches(r) = {} /\ UNCHANGED <<status, value>>
    BY <1>5, <2>1 DEF Receive
  <2>2. CASE \E k \in Matches(r) : Reject({k}, {k}) /\ UNCHANGED value
    <3>1. PICK k \in Matches(r) : Reject({k}, {k}) /\ UNCHANGED <<dispatched, value>>
      BY <1>5, <2>2 DEF Receive
    <3>2. k \in Calls
      BY <3>1 DEF Matches, TypeOK
    <3> QED BY <3>1, <3>2, <1>a, RejectRefines
  <2>3. ASSUME NEW k \in Matches(r),
               status' = [status EXCEPT ![k] = "resolved"],
               value' = [value EXCEPT ![k] = r]
        PROVE CC!Next
    <3>1. k = r
      BY <1>5, OwnMatch DEF Receive
    <3>2. status[k] = "pending" /\ k \in dispatched
      BY <1>5, <3>1 DEF Receive, Matches, TypeOK, CallInv, Issued
    <3>3. CC!Resolve(k)
      BY <1>5, <2>3, <3>1, <3>2 DEF Receive, CC!Resolve
    <3> QED BY <3>1, <3>3 DEF CC!Next
  <2> QED BY <1>5, <2>1, <2>2, <2>3 DEF Receive
<1>6. ASSUME NEW G, Transmit(peer_waiters, G), UNCHANGED <<status, value>>
      PROVE [CC!Next]_(CC!vars)
  <2>1. CASE G = {}
    BY <1>6, <2>1 DEF Transmit
  <2>2. CASE G # {}
    <3>1. CC!Dispatch(peer_waiters)
      BY <1>6, <2>2, <1>a DEF Transmit, CC!Dispatch, Issued, TypeOK
    <3> QED BY <3>1 DEF CC!Next, TypeOK
  <2> QED BY <2>1, <2>2
<1>7. ASSUME NEW p \in Peers, AcceptHello(p) PROVE [CC!Next]_(CC!vars)
  <2>1. CASE Transmit(peer_waiters, {p}) /\ UNCHANGED <<status, value>>
    BY <2>1, <1>6
  <2>2. CASE Reject(peer_waiters, {}) /\ UNCHANGED <<dispatched, value>>
    BY <2>2, <1>a, RejectRefines DEF TypeOK
  <2> QED BY <1>7, <2>1, <2>2 DEF AcceptHello
<1>8. ASSUME NEW p \in Peers, NativeConnect(p) \/ Hello(p) PROVE [CC!Next]_(CC!vars)
  <2>1. PICK G : Transmit(peer_waiters, G) /\ UNCHANGED <<status, value>>
    BY <1>8 DEF NativeConnect, Hello
  <2> QED BY <2>1, <1>6
<1>9. ASSUME NEW p \in Peers, PeerEnds(p) PROVE [CC!Next]_(CC!vars)
  <2>1. CASE Reject(pending, pending)
    <3>1. UNCHANGED <<dispatched, value>>
      BY <1>9 DEF PeerEnds
    <3> QED BY <2>1, <3>1, <1>a, RejectRefines DEF TypeOK
  <2>2. CASE UNCHANGED status
    BY <1>9, <2>2 DEF PeerEnds
  <2> QED BY <1>9, <2>1, <2>2 DEF PeerEnds
<1>10. CASE LinkEnds
  <2>1. Reject(pending, pending) /\ UNCHANGED <<dispatched, value>>
    BY <1>10 DEF LinkEnds
  <2> QED BY <2>1, <1>a, RejectRefines DEF TypeOK
<1>11. CASE ServerClosed \/ Close
  <2>1. CASE Reject(peer_waiters, {}) /\ UNCHANGED <<dispatched, value>>
    BY <2>1, <1>a, RejectRefines DEF TypeOK
  <2>2. CASE UNCHANGED <<status, dispatched, value>>
    BY <2>2
  <2> QED BY <1>11, <2>1, <2>2 DEF ServerClosed, Close, CloseReverse, CloseNative,
    CloseWebSocket, ClosePipe, CloseLink
<1>12. CASE UNCHANGED <<status, dispatched, value>>
  BY <1>12
<1> QED
  BY <1>1, <1>2, <1>3, <1>4, <1>5, <1>7, <1>8, <1>9, <1>10, <1>11, <1>12 DEF Next, vars,
     PeerConnect, HelloTimeout, RefuseHello, PeerClosing, PeerClosed, PeerError, Subscribe,
     Unsubscribe, LinkClosing

\* The client's commands are calls as CommandCalls describes them: each is
\* dispatched and settled at most once, and resolves with its own outcome.
THEOREM Refinement == Spec => ImplementsCommandCalls
<1>1. Init => CC!Init
  BY InitRefines
<1>2. TypeOK /\ CallInv /\ [Next]_vars => [CC!Next]_(CC!vars)
  BY NextRefines
<1> QED BY <1>1, <1>2, CallsInvariant, PTL DEF Spec, CC!Spec, ImplementsCommandCalls

-----------------------------------------------------------------------------

\* A pending command is rejected only by the loss of the registered peer, by its
\* own answer, by its own timeout, or as its wait for a peer ends.
THEOREM RejectionsHaveReasons == Spec => RejectedForAReason
<1> DEFINE Reason(k) ==
             \/ \E p \in Peers : k \in requests[p] /\ k \notin requests'[p]
             \/ SendTimeout(k)
             \/ k \in peer_waiters /\ k \notin peer_waiters'
             \/ Lost
           Step == \A k \in Calls :
                     status[k] = "pending" /\ status'[k] = "rejected" => Reason(k)
<1>1. TypeOK /\ CallInv /\ PeerInv /\ [Next]_vars => [Step]_vars
  <2> SUFFICES ASSUME TypeOK, CallInv, PeerInv, Next, NEW k \in Calls,
                      status[k] = "pending", status'[k] = "rejected"
               PROVE  Reason(k)
    OBVIOUS
  <2>0. ASSUME NEW K \in SUBSET Calls, NEW cleared, Reject(K, cleared) PROVE k \in K
    BY <2>0 DEF Reject
  <2>1. ASSUME NEW j \in Calls, SendMessage(j) \/ SendUnconnected(j) PROVE FALSE
    BY <2>1 DEF SendMessage, SendUnconnected, TypeOK
  <2>2. ASSUME NEW j \in Calls, SendTimeout(j) PROVE Reason(k)
    <3>1. k \in {j}
      BY <2>0, <2>2 DEF SendTimeout
    <3> QED BY <2>2, <3>1
  <2>3. ASSUME NEW j \in Calls, PeerWaitTimeout(j) PROVE Reason(k)
    <3>1. k \in {j}
      BY <2>0, <2>3 DEF PeerWaitTimeout
    <3> QED BY <2>3, <3>1 DEF PeerWaitTimeout
  <2>4. ASSUME NEW p \in Peers, NEW r \in Calls, Receive(p, r) PROVE Reason(k)
    <3>1. \A j \in Matches(r) : j = r /\ j \in Calls
      BY <2>4, OwnMatch DEF Receive
    <3>2. k = r
      <4>1. ASSUME NEW j \in Matches(r), Reject({j}, {j}) PROVE k = r
        BY <4>1, <3>1, <2>0
      <4>2. ASSUME NEW j \in Matches(r), status' = [status EXCEPT ![j] = "resolved"]
            PROVE k = r
        BY <4>2, <3>1 DEF TypeOK
      <4>3. CASE UNCHANGED status
        BY <4>3
      <4> QED BY <2>4, <4>1, <4>2, <4>3 DEF Receive
    <3>3. k \in requests[p] /\ k \notin requests'[p]
      BY <2>4, <3>2 DEF Receive, TypeOK
    <3> QED BY <3>3
  <2>5. ASSUME NEW p \in Peers, AcceptHello(p) PROVE Reason(k)
    <3>1. CASE UNCHANGED status
      BY <3>1
    <3>2. CASE Reject(peer_waiters, {})
      BY <3>2, <2>0, <2>5 DEF AcceptHello, WaitersLeft, TypeOK
    <3> QED BY <2>5, <3>1, <3>2 DEF AcceptHello
  <2>6. ASSUME NEW p \in Peers, PeerClosed(p) \/ PeerError(p) PROVE Reason(k)
    <3>1. CASE UNCHANGED status
      BY <3>1
    <3>2. CASE mode \in Raw
      <4>1. ready'[p] # ready[p] /\ ready'[p] \in {"errored", "closed"}
        BY <2>6 DEF PeerClosed, PeerError, TypeOK
      <4> QED BY <3>2, <4>1 DEF Lost
    <3>3. CASE socket = p
      BY <2>6, <3>3, ConstantsAssumption DEF PeerClosed, PeerError, PeerEnds, Lost
    <3> QED BY <2>6, <3>1, <3>2, <3>3 DEF PeerClosed, PeerError, PeerEnds
  <2>7. CASE ServerClosed
    BY <2>7, <2>0 DEF ServerClosed, TypeOK
  <2>8. CASE Close
    <3>1. CASE UNCHANGED status
      BY <3>1
    <3>2. CASE Reject(peer_waiters, {}) /\ peer_waiters' = {}
      BY <3>2, <2>0 DEF TypeOK
    <3> QED BY <2>8, <3>1, <3>2 DEF Close, CloseReverse, CloseNative,
      CloseWebSocket, ClosePipe, CloseLink
  <2>9. CASE LinkEnds
    <3>1. mode = "nats"
      BY <2>9 DEF LinkEnds, CallInv, OneReceiver
    <3> QED BY <2>9, <3>1 DEF Lost
  <2>10. CASE UNCHANGED status
    BY <2>10
  <2> QED
    BY <2>1, <2>2, <2>3, <2>4, <2>5, <2>6, <2>7, <2>8, <2>9, <2>10 DEF Next, PeerConnect,
       HelloTimeout, RefuseHello, NativeConnect, PeerClosing, Subscribe, Unsubscribe, Hello,
       LinkClosing
<1> QED BY <1>1, CallsInvariant, PeersInvariant, PTL DEF Spec, RejectedForAReason

-----------------------------------------------------------------------------
(* Framing. What FlattenSeq and Decode make of plain messages; where Cut finds *)
(* them; by induction over the turns of its loop, what Consume takes off a      *)
(* buffer (ConsumeTakes); and the invariant of the readers.                    *)

\* Induction over the naturals, for a set instead of a predicate: < is well-founded, so
\* that what S lacks would have a least element.
LEMMA LessThan ==
    \E R : /\ IsWellFoundedOn(R, Nat)
           /\ \A m, n \in Nat : m < n => <<m, n>> \in R
<1>1. \A m, n \in Nat : m < n => <<m, n>> \in OpToRel(<, Nat)
    BY DEF OpToRel
<1> QED BY <1>1, NatLessThanWellFounded, Zenon

LEMMA SetInduction ==
    ASSUME NEW S, 0 \in S, \A n \in S : n \in Nat => n + 1 \in S
    PROVE  Nat \subseteq S
<1> SUFFICES ASSUME NEW T, T = Nat \ S, T # {} PROVE FALSE
    OBVIOUS
<1>1. PICK R : /\ IsWellFoundedOn(R, Nat)
               /\ \A m, n \in Nat : m < n => <<m, n>> \in R
    BY LessThan
<1>2. PICK x \in T : \A y \in T : ~ (<<y, x>> \in R)
    BY <1>1, WFMin
<1>3. x \in Nat /\ x \notin S
    OBVIOUS
<1>4. PICK y \in Nat : y + 1 = x
    <2>1. x # 0
        BY <1>3
    <2>2. x - 1 \in Nat /\ (x - 1) + 1 = x
        BY <1>3, <2>1
    <2> QED BY <2>2
<1>5. y \notin S
    BY <1>3, <1>4
<1>6. y \in T /\ y < x
    BY <1>3, <1>4, <1>5
<1> QED BY <1>1, <1>2, <1>3, <1>4, <1>6

-----------------------------------------------------------------------------
(* FlattenSeq, one sequence after the other.                                *)

\* What its recursion defines.
IsFlat(F, g, n) == g = [i \in 1..n |-> IF i = 1 THEN F[i] ELSE g[i - 1] \o F[i]]

LEMMA FlatExists ==
    ASSUME NEW F, NEW n \in Nat
    PROVE  \E g : IsFlat(F, g, n)
<1> DEFINE S == {m \in Nat : \E g : IsFlat(F, g, m)}
<1>1. 0 \in S
    <2>1. IsFlat(F, [i \in 1..0 |-> <<>>], 0)
        BY DEF IsFlat
    <2> QED BY <2>1
<1>2. ASSUME NEW m \in S PROVE m + 1 \in S
    <2>1. PICK g : IsFlat(F, g, m)
        OBVIOUS
    <2> DEFINE last == IF m = 0 THEN F[1] ELSE g[m] \o F[m + 1]
               h == [i \in 1..(m + 1) |-> IF i = m + 1 THEN last ELSE g[i]]
    <2>2. m \in Nat
        OBVIOUS
    <2>3. \A i \in 1..m : g[i] = IF i = 1 THEN F[i] ELSE g[i - 1] \o F[i]
        BY <2>1, <2>2 DEF IsFlat
    <2>4. h = [i \in 1..(m + 1) |-> IF i = 1 THEN F[i] ELSE h[i - 1] \o F[i]]
        <3> SUFFICES ASSUME NEW i \in 1..(m + 1)
                     PROVE  h[i] = IF i = 1 THEN F[i] ELSE h[i - 1] \o F[i]
            OBVIOUS
        <3>1. CASE i = m + 1 /\ m = 0
            BY <2>2, <3>1
        <3>2. CASE i = m + 1 /\ m # 0
            <4>1. m \in 1..(m + 1) /\ m # m + 1 /\ i \in 1..(m + 1) /\ i - 1 = m /\ i # 1
                BY <2>2, <3>2
            <4>2. h[i] = last /\ h[i - 1] = g[m] /\ last = g[m] \o F[m + 1]
                BY <3>2, <4>1
            <4> QED BY <3>2, <4>1, <4>2
        <3>3. CASE i \in 1..m /\ i = 1
            <4>1. h[i] = g[i]
                BY <2>2, <3>3
            <4> QED BY <2>3, <3>3, <4>1
        <3>4. CASE i \in 2..m
            <4>1. i \in 1..m /\ i \in 1..(m + 1) /\ i - 1 \in 1..(m + 1) /\ i # m + 1 /\ i - 1 # m + 1
                  /\ i # 1
                BY <2>2, <3>4
            <4>2. h[i] = g[i] /\ h[i - 1] = g[i - 1]
                BY <4>1
            <4>3. g[i] = g[i - 1] \o F[i]
                BY <2>3, <4>1
            <4> QED BY <4>1, <4>2, <4>3
        <3> QED BY <2>2, <3>1, <3>2, <3>3, <3>4
    <2>5. IsFlat(F, h, m + 1)
        BY <2>4 DEF IsFlat
    <2> QED BY <2>2, <2>5
<1> HIDE DEF S
<1>3. Nat \subseteq S
    BY <1>1, <1>2, SetInduction
<1> QED BY <1>3 DEF S

LEMMA FlatUnique ==
    ASSUME NEW F, NEW n \in Nat, NEW m \in 1..n, NEW g, NEW h,
           IsFlat(F, g, n), IsFlat(F, h, m)
    PROVE  h[m] = g[m]
<1>1. \A i \in 1..n : g[i] = IF i = 1 THEN F[i] ELSE g[i - 1] \o F[i]
    BY DEF IsFlat
<1>2. \A i \in 1..m : h[i] = IF i = 1 THEN F[i] ELSE h[i - 1] \o F[i]
    BY DEF IsFlat
<1> DEFINE S == {i \in Nat : i \in 1..m => h[i] = g[i]}
<1>3. 0 \in S
    OBVIOUS
<1>4. ASSUME NEW i \in S PROVE i + 1 \in S
    <2>1. CASE i = 0
        BY <1>1, <1>2, <2>1
    <2>2. CASE i # 0 /\ i + 1 \in 1..m
        <3>1. i \in 1..m /\ i + 1 # 1 /\ (i + 1) - 1 = i /\ i + 1 \in 1..n
            BY <2>2
        <3>2. h[i] = g[i]
            BY <3>1
        <3> QED BY <1>1, <1>2, <2>2, <3>1, <3>2
    <2> QED BY <2>1, <2>2
<1> HIDE DEF S
<1>5. Nat \subseteq S
    BY <1>3, <1>4, SetInduction
<1> QED BY <1>5 DEF S

LEMMA FlattenIs ==
    ASSUME NEW F, NEW n \in Nat, n # 0
    PROVE  \E g : IsFlat(F, g, n) /\ FlattenSeq([i \in 1..n |-> F[i]]) = g[n]
<1> DEFINE G == [i \in 1..n |-> F[i]]
           flat == CHOOSE g : g = [i \in 1..Len(G) |-> IF i = 1 THEN G[i] ELSE g[i - 1] \o G[i]]
<1>1. Len(G) = n
    OBVIOUS
<1>2. PICK g : IsFlat(F, g, n)
    BY FlatExists
<1>3. g = [i \in 1..Len(G) |-> IF i = 1 THEN G[i] ELSE g[i - 1] \o G[i]]
    BY <1>1, <1>2 DEF IsFlat
<1>4. flat = [i \in 1..Len(G) |-> IF i = 1 THEN G[i] ELSE flat[i - 1] \o G[i]]
    BY <1>3
<1>5. IsFlat(F, flat, n)
    <2>1. flat = [i \in 1..n |-> IF i = 1 THEN G[i] ELSE flat[i - 1] \o G[i]]
        BY <1>1, <1>4
    <2>2. \A i \in 1..n : G[i] = F[i]
        OBVIOUS
    <2> HIDE DEF G, flat
    <2> QED BY <2>1, <2>2 DEF IsFlat
<1>6. FlattenSeq(G) = flat[n]
    BY <1>1 DEF FlattenSeq
<1> QED BY <1>5, <1>6

LEMMA FlattenNone == ASSUME NEW F PROVE FlattenSeq([i \in 1..0 |-> F[i]]) = <<>>
BY DEF FlattenSeq

LEMMA FlattenOneMore ==
    ASSUME NEW S, NEW F, NEW n \in Nat, F[n + 1] \in Seq(S)
    PROVE  FlattenSeq([i \in 1..(n + 1) |-> F[i]]) = FlattenSeq([i \in 1..n |-> F[i]]) \o F[n + 1]
<1>1. PICK g : IsFlat(F, g, n + 1) /\ FlattenSeq([i \in 1..(n + 1) |-> F[i]]) = g[n + 1]
    <2>1. n + 1 \in Nat /\ n + 1 # 0
        OBVIOUS
    <2> QED BY <2>1, FlattenIs
<1>2. \A i \in 1..(n + 1) : g[i] = IF i = 1 THEN F[i] ELSE g[i - 1] \o F[i]
    BY <1>1 DEF IsFlat
<1>3. CASE n = 0
    <2>1. FlattenSeq([i \in 1..n |-> F[i]]) = <<>>
        BY <1>3, FlattenNone
    <2>2. g[n + 1] = F[n + 1]
        BY <1>2, <1>3
    <2>3. <<>> \o F[n + 1] = F[n + 1]
        BY ConcatEmptySeq
    <2> QED BY <1>1, <2>1, <2>2, <2>3
<1>4. CASE n # 0
    <2>1. PICK h : IsFlat(F, h, n) /\ FlattenSeq([i \in 1..n |-> F[i]]) = h[n]
        BY <1>4, FlattenIs
    <2>2. n \in 1..(n + 1) /\ n + 1 \in Nat
        BY <1>4
    <2>3. h[n] = g[n]
        BY <1>1, <2>1, <2>2, FlatUnique
    <2>4. g[n + 1] = g[n] \o F[n + 1]
        <3>1. n + 1 \in 1..(n + 1) /\ n + 1 # 1 /\ (n + 1) - 1 = n
            BY <1>4
        <3> QED BY <1>2, <3>1
    <2> QED BY <1>1, <2>1, <2>3, <2>4
<1> QED BY <1>3, <1>4

\* What holds of no part and of one part more holds of the whole.
LEMMA FlattenTyped ==
    ASSUME NEW S, NEW F, NEW n \in Nat, \A i \in 1..n : F[i] \in Seq(S)
    PROVE  FlattenSeq([i \in 1..n |-> F[i]]) \in Seq(S)
<1> DEFINE T == {m \in Nat : m <= n => FlattenSeq([i \in 1..m |-> F[i]]) \in Seq(S)}
<1>1. 0 \in T
    <2>1. <<>> \in Seq(S)
        OBVIOUS
    <2> QED BY <2>1, FlattenNone
<1>2. ASSUME NEW m \in T PROVE m + 1 \in T
    <2> SUFFICES ASSUME m + 1 <= n PROVE FlattenSeq([i \in 1..(m + 1) |-> F[i]]) \in Seq(S)
        OBVIOUS
    <2>1. m \in Nat /\ m <= n /\ m + 1 \in 1..n
        OBVIOUS
    <2>2. FlattenSeq([i \in 1..m |-> F[i]]) \in Seq(S) /\ F[m + 1] \in Seq(S)
        BY <2>1
    <2>3. FlattenSeq([i \in 1..(m + 1) |-> F[i]]) = FlattenSeq([i \in 1..m |-> F[i]]) \o F[m + 1]
        BY <2>1, <2>2, FlattenOneMore
    <2> QED BY <2>2, <2>3, ConcatProperties
<1> HIDE DEF T
<1>3. Nat \subseteq T
    BY <1>1, <1>2, SetInduction
<1> QED BY <1>3 DEF T

\* Sequences of one element each.
LEMMA FlattenSingles ==
    ASSUME NEW S, NEW s \in Seq(S), NEW F, \A i \in 1..Len(s) : F[i] = <<s[i]>>
    PROVE  FlattenSeq([i \in 1..Len(s) |-> F[i]]) = s
<1>0. Len(s) \in Nat
    OBVIOUS
<1> DEFINE T == {m \in Nat : m <= Len(s) => FlattenSeq([i \in 1..m |-> F[i]]) = SubSeq(s, 1, m)}
<1>1. 0 \in T
    <2>1. SubSeq(s, 1, 0) = <<>>
        BY SubSeqEmpty
    <2> QED BY <2>1, FlattenNone
<1>2. ASSUME NEW m \in T PROVE m + 1 \in T
    <2> SUFFICES ASSUME m + 1 <= Len(s)
                 PROVE  FlattenSeq([i \in 1..(m + 1) |-> F[i]]) = SubSeq(s, 1, m + 1)
        OBVIOUS
    <2>1. m \in Nat /\ m <= Len(s) /\ m + 1 \in 1..Len(s)
        BY <1>0
    <2>2. FlattenSeq([i \in 1..m |-> F[i]]) = SubSeq(s, 1, m) /\ F[m + 1] = <<s[m + 1]>>
        BY <2>1
    <2>3. s[m + 1] \in S
        BY <2>1, ElementOfSeq
    <2>4. F[m + 1] \in Seq(S)
        BY <2>2, <2>3
    <2>5. FlattenSeq([i \in 1..(m + 1) |-> F[i]]) = FlattenSeq([i \in 1..m |-> F[i]]) \o F[m + 1]
        BY <2>1, <2>4, FlattenOneMore
    <2>6. SubSeq(s, 1, m + 1) = SubSeq(s, 1, m) \o <<s[m + 1]>>
        <3>1. 1 \in 1..Len(s) /\ m + 1 \in 1..Len(s) /\ (m + 1) - 1 = m
            BY <2>1
        <3> QED BY <3>1, SubSeqRecursiveSecond
    <2> QED BY <2>2, <2>5, <2>6
<1> HIDE DEF T
<1>3. Nat \subseteq T
    BY <1>1, <1>2, SetInduction
<1>4. FlattenSeq([i \in 1..Len(s) |-> F[i]]) = SubSeq(s, 1, Len(s))
    BY <1>0, <1>3 DEF T
<1> QED BY <1>4, SubSeqFull

-----------------------------------------------------------------------------
(* Messages, frames and the stream.                                         *)

\* All the bytes and characters there are.
Signs == [is : {"narrow", "lead", "tail", "wide", "replaced", "{", "}", "nul", "low", "high",
                "MSG", "size", "cr", "lf"}, of : Nat]

Inside(i) == [is : {"narrow", "lead", "tail"}, of : {i}]

\* What is sent, and what reads it, never changes.
Streaming == reader \in Readers /\ sent \in [1..Count -> Texts]

LEMMA SentTyped ==
    ASSUME Streaming, NEW i \in 1..Count
    PROVE  /\ sent[i] \in Seq({"narrow", "wide"}) /\ Len(sent[i]) \in Nat
           /\ DOMAIN sent[i] = 1..Len(sent[i]) /\ i \in Nat /\ Count \in Nat
<1>1. sent[i] \in Seq({"narrow", "wide"}) /\ Count \in Nat
    BY FramingAssumption DEF Streaming
<1> QED BY <1>1

LEMMA InnerTyped ==
    ASSUME Streaming, NEW i \in 1..Count
    PROVE  /\ Inner(i) \in Seq(Inside(i))
           /\ "wide" \notin ToSet(sent[i]) => Inner(i) \in Seq({[is |-> "narrow", of |-> i]})
<1>0. /\ sent[i] \in Seq({"narrow", "wide"}) /\ Len(sent[i]) \in Nat
      /\ DOMAIN sent[i] = 1..Len(sent[i])
    BY SentTyped
<1> DEFINE part(k) == IF sent[i][k] = "wide"
                      THEN <<[is |-> "lead", of |-> i], [is |-> "tail", of |-> i]>>
                      ELSE <<[is |-> "narrow", of |-> i]>>
           F == [k \in 1..Len(sent[i]) |-> part(k)]
<1>1. Inner(i) = FlattenSeq([k \in 1..Len(sent[i]) |-> F[k]])
    <2>1. F = [k \in 1..Len(sent[i]) |-> F[k]]
        OBVIOUS
    <2>2. Inner(i) = FlattenSeq(F)
        BY <1>0 DEF Inner
    <2> QED BY <2>1, <2>2
<1>2. \A k \in 1..Len(sent[i]) : F[k] \in Seq(Inside(i))
    <2>1. /\ [is |-> "lead", of |-> i] \in Inside(i) /\ [is |-> "tail", of |-> i] \in Inside(i)
          /\ [is |-> "narrow", of |-> i] \in Inside(i)
        BY DEF Inside
    <2>2. PICK A : A = Inside(i)
        OBVIOUS
    <2> QED BY <2>1, <2>2
<1>3. ASSUME "wide" \notin ToSet(sent[i])
      PROVE  \A k \in 1..Len(sent[i]) : F[k] \in Seq({[is |-> "narrow", of |-> i]})
    <2>1. \A k \in 1..Len(sent[i]) : sent[i][k] # "wide"
        BY <1>0, <1>3 DEF ToSet
    <2>2. PICK e : e = [is |-> "narrow", of |-> i]
        OBVIOUS
    <2>3. \A k \in 1..Len(sent[i]) : F[k] = <<e>>
        BY <2>1, <2>2
    <2>4. <<e>> \in Seq({e})
        OBVIOUS
    <2> HIDE DEF F
    <2> QED BY <2>2, <2>3, <2>4
<1> HIDE DEF F
<1> QED BY <1>0, <1>1, <1>2, <1>3, FlattenTyped

-----------------------------------------------------------------------------
(* A sequence with elements around it.                                      *)

LEMMA Followed ==
    ASSUME NEW S, NEW s \in Seq(S), NEW a \in S
    PROVE  /\ s \o <<a>> \in Seq(S) /\ Len(s) \in Nat /\ Len(s \o <<a>>) = Len(s) + 1
           /\ \A k \in 1..Len(s) : (s \o <<a>>)[k] = s[k]
           /\ (s \o <<a>>)[Len(s) + 1] = a
<1>1. <<a>> \in Seq(S) /\ Len(<<a>>) = 1 /\ <<a>>[1] = a /\ Len(s) \in Nat
    OBVIOUS
<1>2. /\ s \o <<a>> \in Seq(S) /\ Len(s \o <<a>>) = Len(s) + 1
      /\ \A k \in 1..(Len(s) + 1) : (s \o <<a>>)[k] = IF k <= Len(s) THEN s[k] ELSE <<a>>[k - Len(s)]
    BY <1>1, ConcatProperties
<1>3. \A k \in 1..Len(s) : (s \o <<a>>)[k] = s[k]
    BY <1>1, <1>2
<1>4. (s \o <<a>>)[Len(s) + 1] = <<a>>[1]
    BY <1>1, <1>2
<1> QED BY <1>1, <1>2, <1>3, <1>4

LEMMA Preceded ==
    ASSUME NEW S, NEW s \in Seq(S), NEW a \in S
    PROVE  /\ <<a>> \o s \in Seq(S) /\ Len(s) \in Nat /\ Len(<<a>> \o s) = Len(s) + 1
           /\ (<<a>> \o s)[1] = a
           /\ \A k \in 2..(Len(s) + 1) : (<<a>> \o s)[k] = s[k - 1] /\ k - 1 \in 1..Len(s)
<1>1. <<a>> \in Seq(S) /\ Len(<<a>>) = 1 /\ <<a>>[1] = a /\ Len(s) \in Nat
    OBVIOUS
<1>2. /\ <<a>> \o s \in Seq(S) /\ Len(<<a>> \o s) = 1 + Len(s)
      /\ \A k \in 1..(1 + Len(s)) : (<<a>> \o s)[k] = IF k <= 1 THEN <<a>>[k] ELSE s[k - 1]
    BY <1>1, ConcatProperties
<1>3. \A k \in 2..(Len(s) + 1) : (<<a>> \o s)[k] = s[k - 1] /\ k - 1 \in 1..Len(s)
    BY <1>1, <1>2
<1>4. (<<a>> \o s)[1] = <<a>>[1]
    BY <1>1, <1>2
<1> QED BY <1>1, <1>2, <1>3, <1>4

LEMMA Between ==
    ASSUME NEW S, NEW s \in Seq(S), NEW a \in S, NEW b \in S
    PROVE  /\ <<a>> \o s \o <<b>> \in Seq(S) /\ Len(s) \in Nat
           /\ Len(<<a>> \o s \o <<b>>) = Len(s) + 2
           /\ (<<a>> \o s \o <<b>>)[1] = a /\ (<<a>> \o s \o <<b>>)[Len(s) + 2] = b
           /\ \A k \in 2..(Len(s) + 1) : (<<a>> \o s \o <<b>>)[k] = s[k - 1] /\ k - 1 \in 1..Len(s)
<1> DEFINE t == <<a>> \o s
<1>1. /\ t \in Seq(S) /\ Len(t) = Len(s) + 1 /\ t[1] = a /\ Len(s) \in Nat
      /\ \A k \in 2..(Len(s) + 1) : t[k] = s[k - 1] /\ k - 1 \in 1..Len(s)
    BY Preceded
<1> HIDE DEF t
<1>2. /\ t \o <<b>> \in Seq(S) /\ Len(t \o <<b>>) = Len(t) + 1
      /\ \A k \in 1..Len(t) : (t \o <<b>>)[k] = t[k]
      /\ (t \o <<b>>)[Len(t) + 1] = b
    BY <1>1, Followed
<1>3. Len(t) + 1 = Len(s) + 2 /\ 1 \in 1..Len(t) /\ \A k \in 2..(Len(s) + 1) : k \in 1..Len(t)
    BY <1>1
<1> QED BY <1>1, <1>2, <1>3 DEF t

\* A size before, and a line before and a line's end after.
LEMMA TwoBefore ==
    ASSUME NEW S, NEW s \in Seq(S), NEW a \in S, NEW b \in S
    PROVE  /\ <<a, b>> \o s \in Seq(S) /\ Len(s) \in Nat /\ Len(<<a, b>> \o s) = Len(s) + 2
           /\ (<<a, b>> \o s)[1] = a /\ (<<a, b>> \o s)[2] = b
           /\ \A k \in 3..(Len(s) + 2) : (<<a, b>> \o s)[k] = s[k - 2]
<1>1. /\ <<a, b>> \in Seq(S) /\ Len(<<a, b>>) = 2 /\ <<a, b>>[1] = a /\ <<a, b>>[2] = b
      /\ Len(s) \in Nat
    OBVIOUS
<1>2. /\ <<a, b>> \o s \in Seq(S) /\ Len(<<a, b>> \o s) = 2 + Len(s)
      /\ \A k \in 1..(2 + Len(s)) : (<<a, b>> \o s)[k] = IF k <= 2 THEN <<a, b>>[k] ELSE s[k - 2]
    BY <1>1, ConcatProperties
<1>3. \A k \in 3..(Len(s) + 2) : (<<a, b>> \o s)[k] = s[k - 2]
    BY <1>1, <1>2
<1>4. (<<a, b>> \o s)[1] = <<a, b>>[1] /\ (<<a, b>> \o s)[2] = <<a, b>>[2]
    BY <1>1, <1>2
<1> QED BY <1>1, <1>2, <1>3, <1>4

LEMMA TwoAfter ==
    ASSUME NEW S, NEW s \in Seq(S), NEW a \in S, NEW b \in S
    PROVE  /\ s \o <<a, b>> \in Seq(S) /\ Len(s) \in Nat /\ Len(s \o <<a, b>>) = Len(s) + 2
           /\ \A k \in 1..Len(s) : (s \o <<a, b>>)[k] = s[k]
           /\ (s \o <<a, b>>)[Len(s) + 1] = a /\ (s \o <<a, b>>)[Len(s) + 2] = b
<1>1. /\ <<a, b>> \in Seq(S) /\ Len(<<a, b>>) = 2 /\ <<a, b>>[1] = a /\ <<a, b>>[2] = b
      /\ Len(s) \in Nat
    OBVIOUS
<1>2. /\ s \o <<a, b>> \in Seq(S) /\ Len(s \o <<a, b>>) = Len(s) + 2
      /\ \A k \in 1..(Len(s) + 2) : (s \o <<a, b>>)[k] =
                                      IF k <= Len(s) THEN s[k] ELSE <<a, b>>[k - Len(s)]
    BY <1>1, ConcatProperties
<1>3. \A k \in 1..Len(s) : (s \o <<a, b>>)[k] = s[k]
    BY <1>1, <1>2
<1>4. (s \o <<a, b>>)[Len(s) + 1] = <<a, b>>[1] /\ (s \o <<a, b>>)[Len(s) + 2] = <<a, b>>[2]
    BY <1>1, <1>2
<1> QED BY <1>1, <1>2, <1>3, <1>4

Lined(S, t, a, b, c, d, s) ==
    /\ t \in Seq(S) /\ Len(t) = Len(s) + 6
    /\ t[1] = a /\ t[2] = b /\ t[3] = c /\ t[4] = d
    /\ \A k \in 5..(Len(s) + 4) : t[k] = s[k - 4]
    /\ t[Len(s) + 5] = c /\ t[Len(s) + 6] = d

LEMMA LineAround ==
    ASSUME NEW S, NEW s \in Seq(S), NEW a \in S, NEW b \in S, NEW c \in S, NEW d \in S
    PROVE  Lined(S, <<a, b>> \o <<c, d>> \o s \o <<c, d>>, a, b, c, d, s)
<1> SUFFICES ASSUME NEW t, t = <<a, b>> \o <<c, d>> \o s \o <<c, d>>
             PROVE  Lined(S, t, a, b, c, d, s)
    OBVIOUS
<1> DEFINE u == <<a, b>> \o <<c, d>>
<1>1. /\ u \in Seq(S) /\ Len(u) = 4 /\ u[1] = a /\ u[2] = b /\ u[3] = c /\ u[4] = d
    <2>1. <<c, d>> \in Seq(S) /\ Len(<<c, d>>) = 2 /\ <<c, d>>[1] = c /\ <<c, d>>[2] = d
        OBVIOUS
    <2>2. /\ u \in Seq(S) /\ Len(u) = Len(<<c, d>>) + 2 /\ u[1] = a /\ u[2] = b
          /\ \A k \in 3..(Len(<<c, d>>) + 2) : u[k] = <<c, d>>[k - 2]
        BY <2>1, TwoBefore
    <2>3. u[3] = <<c, d>>[1] /\ u[4] = <<c, d>>[2]
        BY <2>1, <2>2
    <2> QED BY <2>1, <2>2, <2>3
<1> HIDE DEF u
<1>2. /\ u \o s \in Seq(S) /\ Len(s) \in Nat /\ Len(u \o s) = Len(s) + 4
      /\ \A k \in 1..4 : (u \o s)[k] = u[k]
      /\ \A k \in 5..(Len(s) + 4) : (u \o s)[k] = s[k - 4]
    <2>1. /\ u \o s \in Seq(S) /\ Len(u \o s) = Len(u) + Len(s)
          /\ \A k \in 1..(Len(u) + Len(s)) :
                (u \o s)[k] = IF k <= Len(u) THEN u[k] ELSE s[k - Len(u)]
        BY <1>1, ConcatProperties
    <2>2. Len(s) \in Nat
        OBVIOUS
    <2> QED BY <1>1, <2>1, <2>2
<1> DEFINE v == u \o s
<1> HIDE DEF v
<1>3. /\ t \in Seq(S) /\ Len(t) = Len(v) + 2 /\ \A k \in 1..Len(v) : t[k] = v[k]
      /\ t[Len(v) + 1] = c /\ t[Len(v) + 2] = d
    <2>1. t = v \o <<c, d>> /\ v \in Seq(S)
        BY <1>2 DEF u, v
    <2> QED BY <2>1, TwoAfter
<1>4. /\ Len(v) = Len(s) + 4 /\ Len(s) \in Nat /\ (\A k \in 1..4 : v[k] = u[k])
      /\ \A k \in 5..(Len(s) + 4) : v[k] = s[k - 4]
    BY <1>2 DEF v
<1> QED BY <1>1, <1>3, <1>4 DEF Lined

-----------------------------------------------------------------------------
(* Payloads.                                                                *)

\* A message is an object.
LEMMA PayloadIs ==
    ASSUME Streaming, NEW i \in 1..Count
    PROVE  /\ Payload(i) \in Seq(Signs) /\ Len(Payload(i)) \in Nat /\ Len(Payload(i)) >= 2
           /\ Payload(i)[1] = Sign("{") /\ Payload(i)[Len(Payload(i))] = Sign("}")
           /\ \A k \in 2..(Len(Payload(i)) - 1) :
                /\ Payload(i)[k].is \in {"narrow", "lead", "tail"}
                /\ "wide" \notin ToSet(sent[i]) => Payload(i)[k].is = "narrow"
<1> DEFINE inner == Inner(i)
<1>0. i \in Nat
    BY SentTyped
<1>1. inner \in Seq(Signs)
    <2>1. Inside(i) \subseteq Signs
        BY <1>0 DEF Inside, Signs
    <2> QED BY <2>1, InnerTyped, SeqMonotonic
<1>2. /\ Len(inner) \in Nat
      /\ \A k \in 1..Len(inner) : /\ inner[k].is \in {"narrow", "lead", "tail"}
                                  /\ "wide" \notin ToSet(sent[i]) => inner[k].is = "narrow"
    <2>1. \A k \in 1..Len(inner) : inner[k] \in Inside(i)
        BY InnerTyped, ElementOfSeq
    <2>2. ASSUME "wide" \notin ToSet(sent[i])
          PROVE  \A k \in 1..Len(inner) : inner[k] \in {[is |-> "narrow", of |-> i]}
        BY <2>2, InnerTyped, ElementOfSeq
    <2> QED BY <1>1, <2>1, <2>2 DEF Inside
<1>3. Sign("{") \in Signs /\ Sign("}") \in Signs
    BY DEF Sign, Signs
<1> HIDE DEF inner
<1>4. Payload(i) = <<Sign("{")>> \o inner \o <<Sign("}")>>
    BY DEF Payload, inner
<1>5. PICK a \in Signs, b \in Signs : a = Sign("{") /\ b = Sign("}")
    BY <1>3
<1>6. PICK p : p = Payload(i)
    OBVIOUS
<1>7. /\ p \in Seq(Signs) /\ Len(p) = Len(inner) + 2 /\ p[1] = a /\ p[Len(inner) + 2] = b
      /\ \A k \in 2..(Len(inner) + 1) : p[k] = inner[k - 1] /\ k - 1 \in 1..Len(inner)
    <2>1. p = <<a>> \o inner \o <<b>>
        BY <1>4, <1>5, <1>6, Zenon
    <2> HIDE <1>4, <1>5, <1>6
    <2> QED BY <1>1, <2>1, Between
<1>8. /\ Len(p) \in Nat /\ Len(p) >= 2 /\ p[Len(p)] = b /\ Len(p) - 1 = Len(inner) + 1
    BY <1>2, <1>7
<1>9. \A k \in 2..(Len(p) - 1) :
        /\ p[k].is \in {"narrow", "lead", "tail"}
        /\ "wide" \notin ToSet(sent[i]) => p[k].is = "narrow"
    <2> TAKE k \in 2..(Len(p) - 1)
    <2>1. p[k] = inner[k - 1] /\ k - 1 \in 1..Len(inner)
        BY <1>7, <1>8
    <2> QED BY <1>2, <2>1
<1> QED BY <1>5, <1>6, <1>7, <1>8, <1>9, Zenon

-----------------------------------------------------------------------------
(* Decoding and parsing.                                                    *)

\* A beginning, and what may be in the middle after it.
Opened(S, M, a, s) ==
    /\ s \in Seq(S) /\ Len(s) \in Nat /\ Len(s) >= 1 /\ s[1] = a
    /\ \A k \in 2..Len(s) : s[k] \in M

Closed(S, M, a, z, s) ==
    /\ s \in Seq(S) /\ Len(s) \in Nat /\ Len(s) >= 2 /\ s[1] = a /\ s[Len(s)] = z
    /\ \A k \in 2..(Len(s) - 1) : s[k] \in M

LEMMA OpenedFirst ==
    ASSUME NEW S, NEW M, NEW a \in S
    PROVE  Opened(S, M, a, <<a>>)
<1>1. <<a>> \in Seq(S) /\ Len(<<a>>) = 1 /\ <<a>>[1] = a
    OBVIOUS
<1> QED BY <1>1 DEF Opened

LEMMA OpenedMore ==
    ASSUME NEW S, NEW M, M \subseteq S, NEW a \in S, NEW u, Opened(S, M, a, u), NEW v \in Seq(M)
    PROVE  Opened(S, M, a, u \o v)
<1>1. u \in Seq(S) /\ v \in Seq(S)
    BY SeqMonotonic DEF Opened
<1>2. /\ Len(u) \in Nat /\ Len(u) >= 1 /\ u[1] = a
      /\ \A k \in 2..Len(u) : u[k] \in M
    BY DEF Opened
<1>3. Len(v) \in Nat /\ \A k \in 1..Len(v) : v[k] \in M
    BY ElementOfSeq
<1>4. PICK w : w = u \o v
    OBVIOUS
<1>5. /\ w \in Seq(S) /\ Len(w) = Len(u) + Len(v)
      /\ \A k \in 1..(Len(u) + Len(v)) : w[k] = IF k <= Len(u) THEN u[k] ELSE v[k - Len(u)]
    BY <1>1, <1>4, ConcatProperties
<1>6. w[1] = a
    BY <1>2, <1>3, <1>5
<1>7. \A k \in 2..Len(w) : w[k] \in M
    <2> TAKE k \in 2..Len(w)
    <2>1. CASE k <= Len(u)
        BY <1>2, <1>3, <1>5, <2>1
    <2>2. CASE ~(k <= Len(u))
        <3>1. k - Len(u) \in 1..Len(v) /\ w[k] = v[k - Len(u)]
            BY <1>2, <1>3, <1>5, <2>2
        <3> QED BY <1>3, <3>1
    <2> QED BY <2>1, <2>2
<1>8. Opened(S, M, a, w)
    BY <1>2, <1>3, <1>5, <1>6, <1>7 DEF Opened
<1> QED BY <1>4, <1>8

LEMMA OpenedClosed ==
    ASSUME NEW S, NEW M, NEW a \in S, NEW z \in S, NEW u, Opened(S, M, a, u)
    PROVE  Closed(S, M, a, z, u \o <<z>>)
<1>1. /\ u \in Seq(S) /\ Len(u) \in Nat /\ Len(u) >= 1 /\ u[1] = a
      /\ \A k \in 2..Len(u) : u[k] \in M
    BY DEF Opened
<1>2. PICK w : w = u \o <<z>>
    OBVIOUS
<1>3. /\ w \in Seq(S) /\ Len(w) = Len(u) + 1 /\ (\A k \in 1..Len(u) : w[k] = u[k])
      /\ w[Len(u) + 1] = z
    BY <1>1, <1>2, Followed
<1>4. Closed(S, M, a, z, w)
    BY <1>1, <1>3 DEF Closed
<1> QED BY <1>2, <1>4

\* A beginning, parts of the middle, and an end.
LEMMA FlattenObject ==
    ASSUME NEW S, NEW M, M \subseteq S, NEW F, NEW n \in Nat, n >= 2, NEW a \in S, NEW z \in S,
           F[1] = <<a>>, F[n] = <<z>>, \A k \in 2..(n - 1) : F[k] \in Seq(M)
    PROVE  Closed(S, M, a, z, FlattenSeq([i \in 1..n |-> F[i]]))
<1>1. PICK g : IsFlat(F, g, n) /\ FlattenSeq([i \in 1..n |-> F[i]]) = g[n]
    <2>1. n # 0
        OBVIOUS
    <2> QED BY <2>1, FlattenIs
<1>2. \A i \in 1..n : g[i] = IF i = 1 THEN F[i] ELSE g[i - 1] \o F[i]
    BY <1>1 DEF IsFlat
<1> DEFINE T == {m \in Nat : m + 1 < n => Opened(S, M, a, g[m + 1])}
<1>3. 0 \in T
    <2>1. g[1] = <<a>>
        BY <1>2
    <2>2. Opened(S, M, a, g[1])
        BY <2>1, OpenedFirst
    <2>3. 0 + 1 = 1
        OBVIOUS
    <2> QED BY <2>2, <2>3
<1>4. ASSUME NEW m \in T PROVE m + 1 \in T
    <2> SUFFICES ASSUME (m + 1) + 1 < n PROVE Opened(S, M, a, g[(m + 1) + 1])
        OBVIOUS
    <2>1. m + 1 < n /\ (m + 1) + 1 \in 2..(n - 1) /\ (m + 1) + 1 \in 1..n /\ (m + 1) + 1 # 1
          /\ ((m + 1) + 1) - 1 = m + 1
        OBVIOUS
    <2>2. Opened(S, M, a, g[m + 1]) /\ F[(m + 1) + 1] \in Seq(M)
        BY <2>1
    <2>3. g[(m + 1) + 1] = g[m + 1] \o F[(m + 1) + 1]
        BY <1>2, <2>1
    <2> QED BY <2>2, <2>3, OpenedMore
<1> HIDE DEF T
<1>5. Nat \subseteq T
    BY <1>3, <1>4, SetInduction
<1>6. Opened(S, M, a, g[n - 1])
    <2>1. n - 2 \in Nat /\ (n - 2) + 1 = n - 1 /\ n - 1 < n
        OBVIOUS
    <2>2. n - 2 \in T
        BY <1>5, <2>1
    <2> QED BY <2>1, <2>2 DEF T
<1>7. g[n] = g[n - 1] \o <<z>>
    <2>1. n \in 1..n /\ n # 1
        OBVIOUS
    <2> QED BY <1>2, <2>1
<1> QED BY <1>1, <1>6, <1>7, OpenedClosed

\* Bytes that are characters stay as they are.
LEMMA DecodePlain ==
    ASSUME NEW s \in Seq(Signs), \A k \in 1..Len(s) : s[k].is \notin {"lead", "tail"}
    PROVE  Decode(s) = s
<1> DEFINE follows(i) == i < Len(s) /\ s[i + 1].is = "tail"
           char(i) == CASE s[i].is = "lead" ->
                          <<[s[i] EXCEPT !.is = IF follows(i) THEN "wide" ELSE "replaced"]>>
                     [] s[i].is = "tail" ->
                          IF i > 1 /\ s[i - 1].is = "lead" THEN <<>>
                          ELSE <<[s[i] EXCEPT !.is = "replaced"]>>
                     [] OTHER -> <<s[i]>>
           F == [i \in DOMAIN s |-> char(i)]
<1>1. DOMAIN s = 1..Len(s) /\ Len(s) \in Nat
    BY LenProperties
<1>2. Decode(s) = FlattenSeq(F)
    BY DEF Decode
<1>3. \A i \in 1..Len(s) : F[i] = <<s[i]>>
    <2> TAKE i \in 1..Len(s)
    <2>1. char(i) = <<s[i]>>
        OBVIOUS
    <2>2. F[i] = char(i)
        BY <1>1
    <2> QED BY <2>1, <2>2
<1>4. F = [i \in 1..Len(s) |-> F[i]]
    BY <1>1
<1> HIDE DEF F
<1> QED BY <1>2, <1>3, <1>4, FlattenSingles

LEMMA OneElement == ASSUME NEW S, NEW c \in S PROVE <<c>> \in Seq(S) /\ <<>> \in Seq(S)
OBVIOUS

\* An object's characters.
Object(t) ==
    /\ t \in Seq(Signs) /\ Len(t) \in Nat /\ Len(t) >= 2 /\ t[1].is = "{" /\ t[Len(t)].is = "}"
    /\ \A k \in 2..(Len(t) - 1) : t[k].is \in {"narrow", "wide", "replaced"}

LEMMA PlacesOf ==
    ASSUME NEW n \in Nat, n >= 2
    PROVE  /\ 1 \in 1..n /\ n \in 1..n /\ \A k \in 2..(n - 1) : k \in 1..n
           /\ \A k \in 1..n : k = 1 \/ k = n \/ k \in 2..(n - 1)
OBVIOUS

LEMMA SignIs == \A w : Sign(w).is = w
BY DEF Sign

LEMMA DecodeObject ==
    ASSUME NEW s \in Seq(Signs), Len(s) >= 2, s[1].is = "{", s[Len(s)].is = "}",
           \A k \in 2..(Len(s) - 1) : s[k].is \in {"narrow", "lead", "tail"}
    PROVE  Object(Decode(s))
<1>0. /\ Len(s) \in Nat /\ 1 \in 1..Len(s) /\ Len(s) \in 1..Len(s)
      /\ \A k \in 2..(Len(s) - 1) : k \in 1..Len(s)
    <2>1. Len(s) \in Nat
        BY LenProperties
    <2> QED BY <2>1, PlacesOf
<1> DEFINE follows(i) == i < Len(s) /\ s[i + 1].is = "tail"
           char(i) == CASE s[i].is = "lead" ->
                          <<[s[i] EXCEPT !.is = IF follows(i) THEN "wide" ELSE "replaced"]>>
                     [] s[i].is = "tail" ->
                          IF i > 1 /\ s[i - 1].is = "lead" THEN <<>>
                          ELSE <<[s[i] EXCEPT !.is = "replaced"]>>
                     [] OTHER -> <<s[i]>>
           F == [i \in DOMAIN s |-> char(i)]
           M == {c \in Signs : c.is \in {"narrow", "wide", "replaced"}}
<1>1. DOMAIN s = 1..Len(s) /\ Len(s) \in Nat
    BY LenProperties
<1>2. Decode(s) = FlattenSeq(F)
    BY DEF Decode
<1>3. \A i \in 1..Len(s) : s[i] \in Signs
    BY ElementOfSeq
<1>4. \A i \in 1..Len(s) : F[i] = char(i)
    BY <1>1
<1>5. /\ F[1] = <<s[1]>> /\ F[Len(s)] = <<s[Len(s)]>>
      /\ 1 \in 1..Len(s) /\ Len(s) \in 1..Len(s)
    <2>1. 1 \in 1..Len(s) /\ Len(s) \in 1..Len(s)
        BY <1>0
    <2>2. char(1) = <<s[1]>> /\ char(Len(s)) = <<s[Len(s)]>>
        OBVIOUS
    <2> HIDE DEF F, char
    <2> QED BY <1>4, <2>1, <2>2
<1>6. \A k \in 2..(Len(s) - 1) : F[k] \in Seq(M)
    <2> TAKE k \in 2..(Len(s) - 1)
    <2>0. k \in 1..Len(s)
        BY <1>0, Zenon
    <2>1. s[k] \in Signs
        BY <1>3, <2>0
    <2>2. \A w \in {"wide", "replaced"} : [s[k] EXCEPT !.is = w] \in M
        BY <2>1 DEF Signs
    <2>3. s[k].is \in {"narrow", "lead", "tail"}
        OBVIOUS
    <2>4. s[k].is = "narrow" => s[k] \in M
        BY <2>1
    <2>5. \E c \in M : char(k) = <<c>> \/ char(k) = <<>>
        <3>1. CASE s[k].is = "lead"
            <4>1. \E w \in {"wide", "replaced"} : char(k) = <<[s[k] EXCEPT !.is = w]>>
                BY <3>1
            <4> HIDE DEF char, M
            <4> QED BY <2>2, <4>1
        <3>2. CASE s[k].is = "tail"
            <4>1. char(k) = <<>> \/ \E w \in {"wide", "replaced"} : char(k) = <<[s[k] EXCEPT !.is = w]>>
                BY <3>2
            <4> HIDE DEF char, M
            <4> QED BY <2>2, <4>1
        <3>3. CASE s[k].is = "narrow"
            <4>1. char(k) = <<s[k]>>
                BY <3>3
            <4> HIDE DEF char, M
            <4> QED BY <2>4, <3>3, <4>1
        <3> QED BY <2>3, <3>1, <3>2, <3>3
    <2> HIDE DEF char, M
    <2>6. char(k) \in Seq(M)
        <3>1. PICK c \in M : char(k) = <<c>> \/ char(k) = <<>>
            BY <2>5
        <3>2. <<c>> \in Seq(M) /\ <<>> \in Seq(M)
            BY OneElement
        <3> QED BY <3>1, <3>2
    <2> QED BY <1>4, <2>0, <2>6
<1>7. F = [i \in 1..Len(s) |-> F[i]]
    BY <1>1
<1>8. M \subseteq Signs
    OBVIOUS
<1> HIDE DEF F, char
<1>9. PICK a \in Signs, z \in Signs : a = s[1] /\ z = s[Len(s)]
    BY <1>3, <1>5
<1>10. PICK t : t = FlattenSeq([i \in 1..Len(s) |-> F[i]])
    OBVIOUS
<1>11. Closed(Signs, M, a, z, t)
    <2> HIDE DEF M
    <2> QED BY <1>1, <1>5, <1>6, <1>8, <1>9, <1>10, FlattenObject
<1>12. t = Decode(s)
    BY <1>2, <1>7, <1>10, Zenon
<1>13. Object(t)
    BY <1>9, <1>11 DEF Object, Closed
<1> QED BY <1>12, <1>13

\* The first and the last of what may be an end of an object.
LEMMA ExtremesOf ==
    ASSUME NEW n \in Nat, n >= 1
    PROVE  Min(1..n) = 1 /\ Max(1..n) = n
<1> DEFINE I == 1..n
<1>1. 1 \in I /\ n \in I /\ I \subseteq Nat /\ \A y \in I : 1 <= y /\ n >= y
    OBVIOUS
<1> HIDE DEF I
<1>2. \A x \in I : (\A y \in I : x <= y) => x = 1
    BY <1>1
<1>3. \A x \in I : (\A y \in I : x >= y) => x = n
    BY <1>1
<1>4. Min(I) = 1
    BY <1>1, <1>2 DEF Min
<1>5. Max(I) = n
    BY <1>1, <1>3 DEF Max
<1> QED BY <1>4, <1>5 DEF I

LEMMA ParsedObject ==
    ASSUME NEW t, Object(t)
    PROVE  Parsed(t) = <<t>>
<1> DEFINE space(c) == c.is \in {"cr", "lf"}
<1>1. t \in Seq(Signs) /\ Len(t) \in Nat /\ Len(t) >= 2
    BY DEF Object
<1>2. {i \in 1..Len(t) : ~space(t[i])} = 1..Len(t)
    <2> SUFFICES ASSUME NEW i \in 1..Len(t) PROVE ~space(t[i])
        OBVIOUS
    <2>1. i = 1 \/ i = Len(t) \/ i \in 2..(Len(t) - 1)
        BY <1>1
    <2> QED BY <2>1 DEF Object
<1>3. Min(1..Len(t)) = 1 /\ Max(1..Len(t)) = Len(t) /\ 1..Len(t) # {}
    BY <1>1, ExtremesOf
<1>4. SelectLastInSeq(t, LAMBDA c : ~space(c)) = Len(t)
    BY <1>2, <1>3, Zenon DEF SelectLastInSeq
<1>5. SelectInSeq(t, LAMBDA c : ~space(c)) = 1
    BY <1>2, <1>3, Zenon DEF SelectInSeq
<1>6. SubSeq(t, 1, Len(t)) = t
    BY <1>1, SubSeqFull
<1>7. Parsed(t) = IF /\ 1 # 0 /\ 1 < Len(t)
                     /\ SubSeq(t, 1, Len(t))[1].is = "{"
                     /\ SubSeq(t, 1, Len(t))[Len(SubSeq(t, 1, Len(t)))].is = "}"
                     /\ \A k \in 2..(Len(SubSeq(t, 1, Len(t))) - 1) :
                          SubSeq(t, 1, Len(t))[k].is \in {"narrow", "wide", "replaced"}
                  THEN <<SubSeq(t, 1, Len(t))>> ELSE <<>>
    BY <1>4, <1>5, Zenon DEF Parsed
<1>8. 1 < Len(t)
    BY <1>1
<1>9. /\ t[1].is = "{" /\ t[Len(t)].is = "}"
      /\ \A k \in 2..(Len(t) - 1) : t[k].is \in {"narrow", "wide", "replaced"}
    BY Zenon DEF Object
<1>10. 1 # 0
    OBVIOUS
<1> QED BY <1>6, <1>7, <1>8, <1>9, <1>10, Zenon

-----------------------------------------------------------------------------
(* Cutting a frame off.                                                     *)

\* What payloads, whole or cut, are made of: no sign of a frame.
Bytes(p) ==
    /\ p \in Seq(Signs) /\ Len(p) \in Nat /\ Len(p) >= 2
    /\ \A k \in 1..Len(p) : p[k].is \in {"{", "}", "narrow", "lead", "tail", "wide", "replaced"}

LEMMA PayloadBytes ==
    ASSUME Streaming, NEW i \in 1..Count
    PROVE  Bytes(Payload(i))
<1>1. PICK p : p = Payload(i)
    OBVIOUS
<1>2. /\ p \in Seq(Signs) /\ Len(p) \in Nat /\ Len(p) >= 2
      /\ p[1] = Sign("{") /\ p[Len(p)] = Sign("}")
      /\ \A k \in 2..(Len(p) - 1) : p[k].is \in {"narrow", "lead", "tail"}
    BY <1>1, PayloadIs
<1>3. ASSUME NEW k \in 1..Len(p) PROVE p[k].is \in {"{", "}", "narrow", "lead", "tail"}
    <2>1. k = 1 \/ k = Len(p) \/ k \in 2..(Len(p) - 1)
        BY <1>2, PlacesOf
    <2> QED BY <1>2, <2>1, SignIs
<1> QED BY <1>1, <1>2, <1>3 DEF Bytes

\* A text is one JSON object, and what was sent if no character is of two bytes.
LEMMA TextIs ==
    ASSUME Streaming, NEW i \in 1..Count
    PROVE  /\ Parsed(Text(i)) = <<Text(i)>>
           /\ "wide" \notin ToSet(sent[i]) => Text(i) = Payload(i)
<1>1. PICK p : p = Payload(i)
    OBVIOUS
<1>2. /\ p \in Seq(Signs) /\ Len(p) \in Nat /\ Len(p) >= 2
      /\ p[1] = Sign("{") /\ p[Len(p)] = Sign("}")
      /\ \A k \in 2..(Len(p) - 1) : /\ p[k].is \in {"narrow", "lead", "tail"}
                                    /\ "wide" \notin ToSet(sent[i]) => p[k].is = "narrow"
    BY <1>1, PayloadIs
<1>3. p[1].is = "{" /\ p[Len(p)].is = "}"
    BY <1>2, SignIs, Zenon
<1>4. Object(Decode(p))
    BY <1>2, <1>3, DecodeObject
<1>5. ASSUME "wide" \notin ToSet(sent[i]) PROVE Decode(p) = p
    <2>1. \A k \in 1..Len(p) : k = 1 \/ k = Len(p) \/ k \in 2..(Len(p) - 1)
        BY <1>2, PlacesOf
    <2>2. \A k \in 1..Len(p) : p[k].is \notin {"lead", "tail"}
        BY <1>2, <1>3, <1>5, <2>1
    <2> QED BY <1>2, <2>2, DecodePlain
<1> QED BY <1>1, <1>4, <1>5, ParsedObject DEF Text

\* b begins like the frame f of p, as each reader's frames are.
PipeShape(b, p) ==
    /\ \A k \in 1..Len(p) : k <= Len(b) => b[k] = p[k]
    /\ Len(p) + 1 <= Len(b) => b[Len(p) + 1].is = "nul"

NativeShape(b, p) ==
    /\ 1 <= Len(b) => b[1].of = Len(p)
    /\ \A k \in 3..(Len(p) + 2) : k <= Len(b) => b[k] = p[k - 2]

HeadShape(b, p) ==
    /\ 1 <= Len(b) => b[1].is = "MSG"
    /\ 2 <= Len(b) => b[2].is = "size" /\ b[2].of = Len(p)
    /\ 3 <= Len(b) => b[3].is = "cr"
    /\ 4 <= Len(b) => b[4].is = "lf"

NatsShape(b, p) ==
    HeadShape(b, p) /\ \A k \in 5..(Len(p) + 4) : k <= Len(b) => b[k] = p[k - 4]

CutAt(p, from, next) == [is |-> TRUE, from |-> from, to |-> from + Len(p) - 1, next |-> next]

LEMMA LeastOf ==
    ASSUME NEW I, I \subseteq Nat, NEW x \in I, \A y \in I : x <= y
    PROVE  Min(I) = x /\ (CHOOSE y \in I : \A z \in I : y <= z) = x
<1>1. \A y \in I : (\A z \in I : y <= z) => y = x
    OBVIOUS
<1> QED BY <1>1 DEF Min

LEMMA PipeCuts ==
    ASSUME NEW p, Bytes(p), NEW b \in Seq(Signs), PipeShape(b, p)
    PROVE  /\ Len(b) >= Len(p) + 1 => PipeCut(b) = CutAt(p, 1, Len(p) + 2)
           /\ Len(b) < Len(p) + 1 => PipeCut(b) = NoCut
<1> DEFINE I == {i \in 1..Len(b) : b[i].is = "nul"}
<1>1. Len(p) \in Nat /\ Len(b) \in Nat /\ \A k \in 1..Len(p) : p[k].is # "nul"
    BY LenProperties DEF Bytes
<1>2. \A i \in I : i > Len(p)
    BY <1>1 DEF PipeShape
<1>3. ASSUME Len(b) >= Len(p) + 1 PROVE PipeCut(b) = CutAt(p, 1, Len(p) + 2)
    <2>1. Len(p) + 1 \in I
        BY <1>1, <1>3 DEF PipeShape
    <2>2. I \subseteq Nat /\ \A i \in I : Len(p) + 1 <= i
        BY <1>1, <1>2
    <2> HIDE DEF I
    <2>3. Min(I) = Len(p) + 1
        BY <2>1, <2>2, LeastOf
    <2>4. SelectInSeq(b, LAMBDA c : c.is = "nul") = Len(p) + 1
        BY <2>1, <2>3, Zenon DEF SelectInSeq, I
    <2>5. Len(p) + 1 # 0 /\ (Len(p) + 1) - 1 = Len(p) /\ (Len(p) + 1) + 1 = Len(p) + 2
          /\ 1 + Len(p) - 1 = Len(p)
        BY <1>1
    <2> QED BY <2>4, <2>5, Zenon DEF PipeCut, CutAt
<1>4. ASSUME Len(b) < Len(p) + 1 PROVE PipeCut(b) = NoCut
    <2>1. I = {}
        BY <1>1, <1>2, <1>4
    <2>2. SelectInSeq(b, LAMBDA c : c.is = "nul") = 0
        BY <2>1, Zenon DEF SelectInSeq
    <2> QED BY <2>2, Zenon DEF PipeCut
<1> QED BY <1>3, <1>4

LEMMA NativeCuts ==
    ASSUME NEW p, Bytes(p), NEW b \in Seq(Signs), NativeShape(b, p)
    PROVE  /\ Len(b) >= Len(p) + 2 => NativeCut(b) = CutAt(p, 3, Len(p) + 3)
           /\ Len(b) < Len(p) + 2 => NativeCut(b) = NoCut
<1>1. Len(p) \in Nat /\ Len(b) \in Nat
    BY LenProperties DEF Bytes
<1>2. 3 + Len(p) - 1 = Len(p) + 2
    BY <1>1
<1>3. ASSUME ~(Len(b) < 2) PROVE b[1].of = Len(p)
    BY <1>1, <1>3 DEF NativeShape
<1>4. ASSUME Len(b) >= Len(p) + 2 PROVE NativeCut(b) = CutAt(p, 3, Len(p) + 3)
    <2>1. ~(Len(b) < 2) /\ ~(Len(b) < Len(p) + 2)
        BY <1>1, <1>4
    <2> QED BY <1>2, <1>3, <2>1, Zenon DEF NativeCut, CutAt
<1>5. ASSUME Len(b) < Len(p) + 2 PROVE NativeCut(b) = NoCut
    BY <1>3, <1>5, Zenon DEF NativeCut
<1> QED BY <1>4, <1>5

\* The first line alone says where the frame ends.
LEMMA HeadCuts ==
    ASSUME NEW p, Bytes(p), NEW b \in Seq(Signs), HeadShape(b, p)
    PROVE  /\ Len(b) >= Len(p) + 6 => NatsCut(b) = CutAt(p, 5, Len(p) + 7)
           /\ Len(b) < Len(p) + 6 => NatsCut(b) = NoCut
<1> DEFINE ends == {i \in 1..(Len(b) - 1) : b[i].is = "cr" /\ b[i + 1].is = "lf"}
           lf == 1 + CHOOSE i \in ends : \A j \in ends : i <= j
<1>1. Len(p) \in Nat /\ Len(b) \in Nat
    BY LenProperties DEF Bytes
<1>2. ASSUME Len(b) >= 4
      PROVE  /\ ends # {} /\ lf = 4
             /\ NatsCut(b) = LET to == lf + b[lf - 2].of
                             IN  IF Len(b) < to + 2 THEN NoCut
                                 ELSE [is |-> TRUE, from |-> lf + 1, to |-> to, next |-> NextLine(to)]
    <2>1. 3 \in ends
        BY <1>1, <1>2 DEF HeadShape
    <2>2. ends \subseteq Nat /\ \A i \in ends : 3 <= i
        <3> SUFFICES ASSUME NEW i \in ends PROVE i \in Nat /\ 3 <= i
            OBVIOUS
        <3>1. i \in 1..(Len(b) - 1) /\ b[i].is = "cr"
            OBVIOUS
        <3>2. i # 1 /\ i # 2
            BY <1>1, <1>2, <3>1 DEF HeadShape
        <3> QED BY <1>1, <3>1, <3>2
    <2>3. (CHOOSE i \in ends : \A j \in ends : i <= j) = 3
        <3> HIDE DEF ends
        <3> QED BY <2>1, <2>2, LeastOf
    <2>4. ends # {} /\ lf = 4
        <3>1. lf = 1 + 3
            BY <2>3, Zenon
        <3> HIDE DEF ends, lf
        <3> QED BY <2>1, <3>1
    <2>5. b[1].is = "MSG" /\ b[lf - 2].is = "size"
        <3> HIDE DEF ends, lf
        <3>1. lf - 2 = 2
            BY <2>4
        <3> QED BY <1>2, <3>1 DEF HeadShape
    <2> QED BY <2>4, <2>5, Zenon DEF NatsCut
<1>3. ASSUME Len(b) < 4 PROVE NatsCut(b) = NoCut
    <2>1. ASSUME NEW i \in ends PROVE FALSE
        <3>1. i \in 1..(Len(b) - 1) /\ b[i].is = "cr" /\ b[i + 1].is = "lf"
            BY <2>1
        <3>2. (i = 1 \/ i = 2) /\ i + 1 <= Len(b) /\ (i = 2 => 3 <= Len(b))
            BY <1>1, <1>3, <3>1
        <3> QED BY <3>1, <3>2 DEF HeadShape
    <2>2. ends = {}
        BY <2>1
    <2> QED BY <2>2, Zenon DEF NatsCut
<1> HIDE DEF ends, lf
<1>4. ASSUME Len(b) >= 4
      PROVE  NatsCut(b) = IF Len(b) < (4 + Len(p)) + 2 THEN NoCut
                          ELSE [is |-> TRUE, from |-> 5, to |-> 4 + Len(p), next |-> 4 + Len(p) + 3]
    <2>1. lf - 2 = 2 /\ lf + 1 = 5 /\ 2 <= Len(b)
        BY <1>1, <1>2, <1>4
    <2>2. b[2].of = Len(p)
        BY <2>1 DEF HeadShape
    <2> QED BY <1>2, <1>4, <2>1, <2>2 DEF NextLine
<1> QED BY <1>1, <1>3, <1>4 DEF CutAt

LEMMA NatsCuts ==
    ASSUME NEW p, Bytes(p), NEW b \in Seq(Signs), NatsShape(b, p)
    PROVE  /\ Len(b) >= Len(p) + 6 => NatsCut(b) = CutAt(p, 5, Len(p) + 7)
           /\ Len(b) < Len(p) + 6 => NatsCut(b) = NoCut
BY HeadCuts DEF NatsShape

-----------------------------------------------------------------------------
(* Frames.                                                                  *)

PipeFrame(f, p) == Len(f) = Len(p) + 1 /\ PipeShape(f, p)
NativeFrame(f, p) == Len(f) = Len(p) + 2 /\ NativeShape(f, p)
NatsFrame(f, p) ==
    /\ Len(f) = Len(p) + 6 /\ NatsShape(f, p)
    /\ f[Len(p) + 5].is = "cr" /\ f[Len(p) + 6].is = "lf"

LEMMA SignsTyped ==
    /\ \A w \in {"nul", "MSG", "cr", "lf"} : Sign(w) \in Signs
    /\ \A i : Len(Payload(i)) \in Nat => \A w \in {"low", "high", "size"} : Size(w, i) \in Signs
BY DEF Sign, Size, Signs

LEMMA FrameIs ==
    ASSUME Streaming, NEW i \in 1..Count
    PROVE  /\ Frame(i) \in Seq(Signs) /\ Len(Frame(i)) \in Nat /\ Len(Frame(i)) >= 1
           /\ \/ reader = "pipe" /\ PipeFrame(Frame(i), Payload(i))
              \/ reader = "native" /\ NativeFrame(Frame(i), Payload(i))
              \/ reader \in {"tcp", "ws"} /\ NatsFrame(Frame(i), Payload(i))
<1>1. PICK p, f : p = Payload(i) /\ f = Frame(i)
    OBVIOUS
<1>2. Bytes(p)
    BY <1>1, PayloadBytes
<1>3. p \in Seq(Signs) /\ Len(p) \in Nat /\ Len(p) >= 2
    BY <1>2 DEF Bytes
<1>4. reader \in {"pipe", "native", "tcp", "ws"}
    BY FramingAssumption DEF Streaming
<1>5. CASE reader = "pipe"
    <2>1. PICK a \in Signs : a = Sign("nul")
        BY SignsTyped
    <2>2. f = p \o <<a>>
        BY <1>1, <1>5, <2>1 DEF Frame
    <2>3. /\ f \in Seq(Signs) /\ Len(f) = Len(p) + 1 /\ (\A k \in 1..Len(p) : f[k] = p[k])
          /\ f[Len(p) + 1] = a
        BY <1>3, <2>2, Followed
    <2>4. a.is = "nul"
        BY <2>1, SignIs
    <2>5. PipeFrame(f, p)
        BY <2>3, <2>4 DEF PipeFrame, PipeShape
    <2> QED BY <1>1, <1>3, <1>5, <2>3, <2>5
<1>6. CASE reader = "native"
    <2>1. Len(Payload(i)) \in Nat
        BY <1>1, <1>3
    <2>2. PICK a \in Signs, b \in Signs : a = Size("low", i) /\ b = Size("high", i)
        BY <2>1, SignsTyped
    <2>3. f = <<a, b>> \o p
        BY <1>1, <1>6, <2>2 DEF Frame
    <2>4. /\ f \in Seq(Signs) /\ Len(f) = Len(p) + 2 /\ f[1] = a
          /\ \A k \in 3..(Len(p) + 2) : f[k] = p[k - 2]
        BY <1>3, <2>3, TwoBefore
    <2>5. a.of = Len(p)
        BY <1>1, <2>2 DEF Size
    <2>6. NativeFrame(f, p)
        BY <2>4, <2>5 DEF NativeFrame, NativeShape
    <2> QED BY <1>1, <1>3, <1>6, <2>4, <2>6
<1>7. CASE reader \in {"tcp", "ws"}
    <2>1. Len(Payload(i)) \in Nat
        BY <1>1, <1>3
    <2>2. PICK a \in Signs, b \in Signs, c \in Signs, d \in Signs :
             a = Sign("MSG") /\ b = Size("size", i) /\ c = Sign("cr") /\ d = Sign("lf")
        BY <2>1, SignsTyped
    <2>3. f = <<a, b>> \o <<c, d>> \o p \o <<c, d>>
        BY <1>1, <1>7, <2>2 DEF Frame, CRLF
    <2>4. /\ f \in Seq(Signs) /\ Len(f) = Len(p) + 6
          /\ f[1] = a /\ f[2] = b /\ f[3] = c /\ f[4] = d
          /\ \A k \in 5..(Len(p) + 4) : f[k] = p[k - 4]
          /\ f[Len(p) + 5] = c /\ f[Len(p) + 6] = d
        <3>1. Lined(Signs, f, a, b, c, d, p)
            BY <1>3, <2>3, LineAround
        <3> QED BY <3>1 DEF Lined
    <2>5. a.is = "MSG" /\ b.is = "size" /\ b.of = Len(p) /\ c.is = "cr" /\ d.is = "lf"
        <3>1. b.is = "size" /\ b.of = Len(p)
            BY <1>1, <2>2 DEF Size
        <3> QED BY <2>2, <3>1, SignIs
    <2>6. NatsFrame(f, p)
        BY <2>4, <2>5 DEF NatsFrame, NatsShape, HeadShape
    <2> QED BY <1>1, <1>3, <1>7, <2>4, <2>6
<1> QED BY <1>4, <1>5, <1>6, <1>7

\* b is the beginning of a frame, or has one at its beginning.
Begins(b, f) == b \in Seq(Signs) /\ \A k \in 1..Len(f) : k <= Len(b) => b[k] = f[k]

LEMMA CutWhole ==
    ASSUME Streaming, NEW i \in 1..Count, NEW b, Begins(b, Frame(i)), Len(b) >= Len(Frame(i))
    PROVE  \E from \in Nat :
             /\ Cut(b) = CutAt(Payload(i), from, Len(Frame(i)) + 1)
             /\ from >= 1 /\ from + Len(Payload(i)) - 1 <= Len(Frame(i))
             /\ \A k \in 1..Len(Payload(i)) : b[from + k - 1] = Payload(i)[k]
<1>1. PICK p, f : p = Payload(i) /\ f = Frame(i)
    OBVIOUS
<1>2. Bytes(p) /\ p \in Seq(Signs) /\ Len(p) \in Nat
    BY <1>1, PayloadBytes DEF Bytes
<1>3. /\ b \in Seq(Signs) /\ Len(b) \in Nat /\ Len(f) \in Nat /\ Len(b) >= Len(f)
      /\ \A k \in 1..Len(f) : b[k] = f[k]
    BY <1>1, FrameIs, LenProperties DEF Begins
<1>4. CASE reader = "pipe" /\ PipeFrame(f, p)
    <2>1. Len(f) = Len(p) + 1 /\ PipeShape(b, p) /\ \A k \in 1..Len(p) : b[1 + k - 1] = p[k]
        <3>1. Len(f) = Len(p) + 1 /\ PipeShape(f, p)
            BY <1>4, Zenon DEF PipeFrame
        <3>2. PipeShape(b, p)
            BY <1>2, <1>3, <3>1, SMTT(30) DEF PipeShape
        <3>3. \A k \in 1..Len(p) : b[1 + k - 1] = p[k]
            <4> TAKE k \in 1..Len(p)
            <4>1. 1 + k - 1 = k
                OBVIOUS
            <4>2. b[k] = p[k]
                <5>1. k <= Len(b)
                    BY <1>2, <1>3, <3>1
                <5> QED BY <3>2, <5>1, Zenon DEF PipeShape
            <4> QED BY <4>1, <4>2, Zenon
        <3> QED BY <3>1, <3>2, <3>3, Zenon
    <2>2. Cut(b) = CutAt(p, 1, Len(f) + 1)
        <3>1. PipeCut(b) = CutAt(p, 1, Len(p) + 2)
            BY <1>2, <1>3, <2>1, PipeCuts
        <3>2. Len(f) + 1 = Len(p) + 2
            BY <1>2, <2>1
        <3> QED BY <1>4, <3>1, <3>2 DEF Cut
    <2>3. 1 + Len(p) - 1 <= Len(f)
        BY <1>2, <2>1
    <2>4. 1 \in Nat /\ 1 >= 1
        OBVIOUS
    <2> QED BY <1>1, <2>1, <2>2, <2>3, <2>4, Zenon
<1>5. CASE reader = "native" /\ NativeFrame(f, p)
    <2>1. Len(f) = Len(p) + 2 /\ NativeShape(b, p) /\ \A k \in 1..Len(p) : b[3 + k - 1] = p[k]
        <3>1. Len(f) = Len(p) + 2 /\ NativeShape(f, p)
            BY <1>5 DEF NativeFrame
        <3>2. NativeShape(b, p)
            BY <1>2, <1>3, <3>1 DEF NativeShape
        <3>3. \A k \in 1..Len(p) : b[3 + k - 1] = p[k]
            <4> TAKE k \in 1..Len(p)
            <4>1. 3 + k - 1 \in 3..(Len(p) + 2) /\ 3 + k - 1 <= Len(b) /\ (3 + k - 1) - 2 = k
                BY <1>2, <1>3, <3>1
            <4> QED BY <3>2, <4>1 DEF NativeShape
        <3> QED BY <3>1, <3>2, <3>3
    <2>2. Cut(b) = CutAt(p, 3, Len(f) + 1)
        <3>1. NativeCut(b) = CutAt(p, 3, Len(p) + 3)
            BY <1>2, <1>3, <2>1, NativeCuts
        <3>2. Len(f) + 1 = Len(p) + 3
            BY <1>2, <2>1
        <3> QED BY <1>5, <3>1, <3>2 DEF Cut
    <2>3. 3 + Len(p) - 1 <= Len(f)
        BY <1>2, <2>1
    <2>4. 3 \in Nat /\ 3 >= 1
        OBVIOUS
    <2> QED BY <1>1, <2>1, <2>2, <2>3, <2>4, Zenon
<1>6. CASE reader \in {"tcp", "ws"} /\ NatsFrame(f, p)
    <2>1. Len(f) = Len(p) + 6 /\ NatsShape(b, p) /\ \A k \in 1..Len(p) : b[5 + k - 1] = p[k]
        <3>1. Len(f) = Len(p) + 6 /\ NatsShape(f, p)
            BY <1>6 DEF NatsFrame
        <3>2. NatsShape(b, p)
            BY <1>2, <1>3, <3>1, SMTT(30) DEF NatsShape, HeadShape
        <3>3. \A k \in 1..Len(p) : b[5 + k - 1] = p[k]
            <4> TAKE k \in 1..Len(p)
            <4>1. 5 + k - 1 \in 5..(Len(p) + 4) /\ 5 + k - 1 <= Len(b) /\ (5 + k - 1) - 4 = k
                BY <1>2, <1>3, <3>1
            <4> QED BY <3>2, <4>1 DEF NatsShape
        <3> QED BY <3>1, <3>2, <3>3
    <2>2. Cut(b) = CutAt(p, 5, Len(f) + 1)
        <3>1. NatsCut(b) = CutAt(p, 5, Len(p) + 7)
            BY <1>2, <1>3, <2>1, NatsCuts
        <3>2. Len(f) + 1 = Len(p) + 7
            BY <1>2, <2>1
        <3> QED BY <1>6, <3>1, <3>2 DEF Cut
    <2>3. 5 + Len(p) - 1 <= Len(f)
        BY <1>2, <2>1
    <2>4. 5 \in Nat /\ 5 >= 1
        OBVIOUS
    <2> QED BY <1>1, <2>1, <2>2, <2>3, <2>4, Zenon
<1> QED BY <1>1, <1>4, <1>5, <1>6, FrameIs

LEMMA CutPart ==
    ASSUME Streaming, NEW i \in 1..Count, NEW b, Begins(b, Frame(i)), Len(b) < Len(Frame(i))
    PROVE  Cut(b) = NoCut
<1>1. PICK p, f : p = Payload(i) /\ f = Frame(i)
    OBVIOUS
<1>2. Bytes(p) /\ p \in Seq(Signs) /\ Len(p) \in Nat
    BY <1>1, PayloadBytes DEF Bytes
<1>3. /\ b \in Seq(Signs) /\ Len(b) \in Nat /\ Len(f) \in Nat /\ Len(b) < Len(f)
      /\ \A k \in 1..Len(b) : b[k] = f[k] /\ k <= Len(f)
    BY <1>1, FrameIs, LenProperties DEF Begins
<1>4. CASE reader = "pipe" /\ PipeFrame(f, p)
    <2>1. Len(f) = Len(p) + 1 /\ PipeShape(b, p)
        BY <1>2, <1>3, <1>4 DEF PipeFrame, PipeShape
    <2> QED BY <1>2, <1>3, <1>4, <2>1, PipeCuts DEF Cut
<1>5. CASE reader = "native" /\ NativeFrame(f, p)
    <2>1. Len(f) = Len(p) + 2 /\ NativeShape(b, p)
        BY <1>2, <1>3, <1>5 DEF NativeFrame, NativeShape
    <2> QED BY <1>2, <1>3, <1>5, <2>1, NativeCuts DEF Cut
<1>6. CASE reader \in {"tcp", "ws"} /\ NatsFrame(f, p)
    <2>1. Len(f) = Len(p) + 6 /\ NatsShape(b, p)
        BY <1>2, <1>3, <1>6, SMTT(30) DEF NatsFrame, NatsShape, HeadShape
    <2> QED BY <1>2, <1>3, <1>6, <2>1, NatsCuts DEF Cut
<1> QED BY <1>1, <1>4, <1>5, <1>6, FrameIs

LEMMA CutEmpty == Streaming => Cut(<<>>) = NoCut
<1> DEFINE b == <<>>
<1>1. Len(b) = 0 /\ {i \in 1..(Len(b) - 1) : b[i].is = "cr" /\ b[i + 1].is = "lf"} = {}
    OBVIOUS
<1>2. NatsCut(b) = NoCut
    BY <1>1, Zenon DEF NatsCut
<1>3. NativeCut(b) = NoCut
    BY <1>1 DEF NativeCut
<1>4. PipeCut(b) = NoCut
    <2>1. {i \in 1..Len(b) : b[i].is = "nul"} = {}
        BY <1>1
    <2>2. SelectInSeq(b, LAMBDA c : c.is = "nul") = 0
        BY <2>1, Zenon DEF SelectInSeq
    <2> QED BY <2>2, Zenon DEF PipeCut
<1> QED BY <1>2, <1>3, <1>4 DEF Cut

-----------------------------------------------------------------------------
(* The stream.                                                              *)

LEMMA FramesStep ==
    ASSUME Streaming, NEW k \in Nat, k < Count
    PROVE  Frames(k + 1) = Frames(k) \o Frame(k + 1)
<1> DEFINE F == [i \in 1..Count |-> Frame(i)]
<1>1. Count \in Nat /\ k + 1 \in 1..Count
    BY FramingAssumption
<1>2. F[k + 1] \in Seq(Signs) /\ F[k + 1] = Frame(k + 1)
    BY <1>1, FrameIs
<1>3. \A n \in 0..Count : [i \in 1..n |-> F[i]] = [i \in 1..n |-> Frame(i)]
    <2> TAKE n \in 0..Count
    <2>1. \A i \in 1..n : i \in 1..Count
        BY <1>1
    <2>2. \A i \in 1..n : F[i] = Frame(i)
        BY <2>1
    <2> QED BY <2>2
<1>4. k \in 0..Count /\ k + 1 \in 0..Count
    BY <1>1
<1> HIDE DEF F
<1>5. FlattenSeq([i \in 1..(k + 1) |-> F[i]]) = FlattenSeq([i \in 1..k |-> F[i]]) \o F[k + 1]
    BY <1>2, FlattenOneMore
<1> QED BY <1>2, <1>3, <1>4, <1>5 DEF Frames

LEMMA FramesNone == Frames(0) = <<>>
<1>1. Len([i \in 1..0 |-> Frame(i)]) = 0 /\ [i \in 1..0 |-> Frame(i)] = <<>>
    OBVIOUS
<1> QED BY <1>1, Zenon DEF Frames, FlattenSeq

LEMMA FramesTyped ==
    ASSUME Streaming, NEW k \in 0..Count
    PROVE  Frames(k) \in Seq(Signs) /\ Len(Frames(k)) \in Nat
<1> DEFINE T == {n \in Nat : n <= Count => Frames(n) \in Seq(Signs)}
<1>0. Count \in Nat
    BY FramingAssumption
<1>1. 0 \in T
    <2>1. <<>> \in Seq(Signs)
        OBVIOUS
    <2> QED BY <2>1, FramesNone
<1>2. ASSUME NEW n \in T PROVE n + 1 \in T
    <2> SUFFICES ASSUME n + 1 <= Count PROVE Frames(n + 1) \in Seq(Signs)
        OBVIOUS
    <2>1. n \in Nat /\ n < Count /\ n <= Count /\ n + 1 \in 1..Count
        BY <1>0
    <2>2. Frames(n) \in Seq(Signs) /\ Frame(n + 1) \in Seq(Signs)
        BY <2>1, FrameIs
    <2> QED BY <2>1, <2>2, FramesStep, ConcatProperties
<1> HIDE DEF T
<1>3. Nat \subseteq T
    BY <1>1, <1>2, SetInduction
<1>4. Frames(k) \in Seq(Signs)
    BY <1>0, <1>3 DEF T
<1> QED BY <1>4, LenProperties

\* One frame further.
LEMMA FramesNext ==
    ASSUME Streaming, NEW k \in Nat, k < Count
    PROVE  /\ Len(Frames(k)) \in Nat /\ Len(Frames(k + 1)) \in Nat /\ Len(Frame(k + 1)) \in Nat
           /\ Len(Frame(k + 1)) >= 1
           /\ Len(Frames(k + 1)) = Len(Frames(k)) + Len(Frame(k + 1))
           /\ \A j \in 1..Len(Frames(k)) : Frames(k + 1)[j] = Frames(k)[j]
           /\ \A j \in 1..Len(Frame(k + 1)) : Frames(k + 1)[Len(Frames(k)) + j] = Frame(k + 1)[j]
<1>1. k \in 0..Count /\ k + 1 \in 0..Count /\ k + 1 \in 1..Count
    BY FramingAssumption
<1>2. PICK u, v, w : u = Frames(k) /\ v = Frame(k + 1) /\ w = Frames(k + 1)
    OBVIOUS
<1>3. u \in Seq(Signs) /\ Len(u) \in Nat /\ w \in Seq(Signs) /\ Len(w) \in Nat
    BY <1>1, <1>2, FramesTyped
<1>4. v \in Seq(Signs) /\ Len(v) \in Nat /\ Len(v) >= 1
    BY <1>1, <1>2, FrameIs
<1>5. w = u \o v
    BY <1>2, FramesStep
<1>6. /\ Len(w) = Len(u) + Len(v)
      /\ \A j \in 1..(Len(u) + Len(v)) : w[j] = IF j <= Len(u) THEN u[j] ELSE v[j - Len(u)]
    BY <1>3, <1>4, <1>5, ConcatProperties
<1>7. \A j \in 1..Len(u) : w[j] = u[j]
    BY <1>3, <1>4, <1>6
<1>8. \A j \in 1..Len(v) : w[Len(u) + j] = v[j]
    <2> TAKE j \in 1..Len(v)
    <2>1. Len(u) + j \in 1..(Len(u) + Len(v)) /\ ~(Len(u) + j <= Len(u)) /\ (Len(u) + j) - Len(u) = j
        BY <1>3, <1>4
    <2> QED BY <1>6, <2>1
<1> QED BY <1>2, <1>3, <1>4, <1>6, <1>7, <1>8

\* Earlier frames stay where they are.
LEMMA FramesPrefix ==
    ASSUME Streaming, NEW k \in 0..Count, NEW n \in k..Count
    PROVE  /\ Len(Frames(k)) <= Len(Frames(n))
           /\ \A j \in 1..Len(Frames(k)) : Frames(n)[j] = Frames(k)[j]
<1> DEFINE P(m) == /\ Len(Frames(k)) <= Len(Frames(m))
                   /\ \A j \in 1..Len(Frames(k)) : Frames(m)[j] = Frames(k)[j]
           T == {d \in Nat : k + d <= Count => P(k + d)}
<1>0. Count \in Nat /\ k \in Nat /\ n \in Nat /\ Len(Frames(k)) \in Nat /\ n - k \in Nat /\ k + (n - k) = n
    BY FramingAssumption, FramesTyped
<1>1. 0 \in T
    <2>1. k + 0 = k /\ P(k)
        BY <1>0
    <2> HIDE DEF P
    <2> QED BY <2>1
<1>2. ASSUME NEW d \in T PROVE d + 1 \in T
    <2> SUFFICES ASSUME k + (d + 1) <= Count PROVE P(k + (d + 1))
        OBVIOUS
    <2>1. PICK m \in Nat : m = k + d /\ m < Count /\ m <= Count /\ m + 1 = k + (d + 1)
        BY <1>0
    <2>2. P(m)
        BY <2>1
    <2>3. /\ Len(Frames(m)) \in Nat /\ Len(Frames(m + 1)) \in Nat /\ Len(Frame(m + 1)) \in Nat
          /\ Len(Frames(m + 1)) = Len(Frames(m)) + Len(Frame(m + 1))
          /\ \A j \in 1..Len(Frames(m)) : Frames(m + 1)[j] = Frames(m)[j]
        BY <2>1, FramesNext
    <2>4. P(m + 1)
        BY <1>0, <2>2, <2>3
    <2> HIDE DEF P
    <2> QED BY <2>1, <2>4
<1> HIDE DEF T, P
<1>3. Nat \subseteq T
    BY <1>1, <1>2, SetInduction
<1>4. P(n)
    <2>1. n - k \in T
        BY <1>0, <1>3
    <2>2. P(k + (n - k))
        BY <1>0, <2>1 DEF T
    <2> QED BY <1>0, <2>2
<1> QED BY <1>4 DEF P

\* Where a frame is in the stream.
LEMMA StreamFrame ==
    ASSUME Streaming, NEW k \in Nat, k < Count
    PROVE  /\ Len(Frames(k)) \in Nat /\ Len(Frames(k + 1)) \in Nat
           /\ Len(Frame(k + 1)) \in Nat /\ Len(Frame(k + 1)) >= 1
           /\ Len(Frames(k + 1)) = Len(Frames(k)) + Len(Frame(k + 1))
           /\ Len(Frames(k + 1)) <= Len(Stream) /\ Len(Stream) \in Nat
           /\ \A j \in 1..Len(Frame(k + 1)) : Stream[Len(Frames(k)) + j] = Frame(k + 1)[j]
<1>1. k + 1 \in 0..Count /\ Count \in (k + 1)..Count /\ Count \in 0..Count
    BY FramingAssumption
<1>2. /\ Len(Frames(k + 1)) <= Len(Stream)
      /\ \A j \in 1..Len(Frames(k + 1)) : Stream[j] = Frames(k + 1)[j]
    BY <1>1, FramesPrefix DEF Stream
<1>3. Len(Stream) \in Nat
    BY <1>1, FramesTyped DEF Stream
<1>4. /\ Len(Frames(k)) \in Nat /\ Len(Frames(k + 1)) \in Nat /\ Len(Frame(k + 1)) \in Nat
      /\ Len(Frame(k + 1)) >= 1
      /\ Len(Frames(k + 1)) = Len(Frames(k)) + Len(Frame(k + 1))
      /\ \A j \in 1..Len(Frame(k + 1)) : Frames(k + 1)[Len(Frames(k)) + j] = Frame(k + 1)[j]
    BY FramesNext
<1>5. \A j \in 1..Len(Frame(k + 1)) : Stream[Len(Frames(k)) + j] = Frame(k + 1)[j]
    <2> TAKE j \in 1..Len(Frame(k + 1))
    <2>1. Len(Frames(k)) + j \in 1..Len(Frames(k + 1))
        BY <1>4
    <2> QED BY <1>2, <1>4, <2>1
<1> QED BY <1>2, <1>3, <1>4, <1>5

\* What follows the first m messages, of the first n bytes.
Rest(m, n) == SubSeq(Stream, Len(Frames(m)) + 1, n)

LEMMA StreamTyped ==
    ASSUME Streaming
    PROVE  /\ Stream \in Seq(Signs) /\ Len(Stream) \in Nat /\ Count \in Nat
           /\ \A i \in 1..Len(Stream) : Stream[i] \in Signs
<1>1. Count \in Nat /\ Count \in 0..Count
    BY FramingAssumption
<1>2. Stream \in Seq(Signs) /\ Len(Stream) \in Nat
    BY <1>1, FramesTyped DEF Stream
<1> QED BY <1>1, <1>2, ElementOfSeq

\* Any part of a sequence.
LEMMA PartIs ==
    ASSUME NEW S, NEW s \in Seq(S), NEW a \in Nat, NEW n \in Nat, a <= n, n <= Len(s)
    PROVE  /\ SubSeq(s, a + 1, n) \in Seq(S) /\ Len(SubSeq(s, a + 1, n)) = n - a
           /\ \A j \in 1..(n - a) : SubSeq(s, a + 1, n)[j] = s[a + j]
<1>1. Len(s) \in Nat /\ \A i \in 1..Len(s) : s[i] \in S
    BY LenProperties, ElementOfSeq
<1>2. a + 1 \in Int /\ n \in Int /\ n - (a + 1) + 1 = n - a /\ \A i \in (a + 1)..n : i \in 1..Len(s)
    BY <1>1
<1>3. \A i \in (a + 1)..n : s[i] \in S
    BY <1>1, <1>2
<1>4. PICK t : t = SubSeq(s, a + 1, n)
    OBVIOUS
<1>5. /\ t \in Seq(S)
      /\ Len(t) = IF a + 1 <= n THEN n - (a + 1) + 1 ELSE 0
      /\ \A j \in 1..(n - (a + 1) + 1) : t[j] = s[(a + 1) + j - 1]
    BY <1>2, <1>3, <1>4, SubSeqProperties
<1>6. Len(t) = n - a
    BY <1>5
<1>7. \A j \in 1..(n - a) : t[j] = s[a + j]
    <2> TAKE j \in 1..(n - a)
    <2>1. j \in 1..(n - (a + 1) + 1) /\ (a + 1) + j - 1 = a + j
        BY <1>2
    <2> QED BY <1>5, <2>1
<1> QED BY <1>4, <1>5, <1>6, <1>7

LEMMA RestIs ==
    ASSUME Streaming, NEW m \in 0..Count, NEW n \in Len(Frames(m))..Len(Stream)
    PROVE  /\ Rest(m, n) \in Seq(Signs) /\ Len(Rest(m, n)) = n - Len(Frames(m))
           /\ Len(Frames(m)) \in Nat /\ n \in Nat /\ Len(Rest(m, n)) \in Nat
           /\ \A j \in 1..(n - Len(Frames(m))) : Rest(m, n)[j] = Stream[Len(Frames(m)) + j]
<1>1. Len(Frames(m)) \in Nat
    BY FramesTyped
<1>2. n \in Nat /\ Len(Frames(m)) <= n /\ n <= Len(Stream)
    BY <1>1, StreamTyped
<1> QED BY <1>1, <1>2, PartIs, LenProperties, StreamTyped DEF Rest

LEMMA RestBegins ==
    ASSUME Streaming, NEW m \in Nat, m < Count, NEW n \in Len(Frames(m))..Len(Stream)
    PROVE  Begins(Rest(m, n), Frame(m + 1))
<1>1. m \in 0..Count
    BY StreamTyped
<1>2. PICK b : b = Rest(m, n)
    OBVIOUS
<1>3. /\ b \in Seq(Signs) /\ Len(b) = n - Len(Frames(m)) /\ Len(Frames(m)) \in Nat /\ n \in Nat
      /\ \A j \in 1..(n - Len(Frames(m))) : b[j] = Stream[Len(Frames(m)) + j]
    BY <1>1, <1>2, RestIs
<1>4. \A j \in 1..Len(Frame(m + 1)) : Stream[Len(Frames(m)) + j] = Frame(m + 1)[j]
    BY StreamFrame
<1>5. ASSUME NEW k \in 1..Len(Frame(m + 1)), k <= Len(b) PROVE b[k] = Frame(m + 1)[k]
    <2>1. k \in 1..(n - Len(Frames(m)))
        BY <1>3, <1>5, StreamFrame
    <2> QED BY <1>3, <1>4, <2>1
<1>6. Begins(b, Frame(m + 1))
    BY <1>3, <1>5 DEF Begins
<1> QED BY <1>2, <1>6

\* A reader that delivers what was sent: it decodes messages, or there is nothing to decode.
Plainly == Streaming /\ (reader = "native" \/ AllNarrow)

Taken(s, o) == [rest |-> s, out |-> o]

\* What a turn of the loop does to a whole message.
LEMMA TurnWhole ==
    ASSUME Plainly, NEW m \in Nat, m < Count, NEW n \in Len(Frames(m + 1))..Len(Stream), NEW o
    PROVE  Turn(Taken(Rest(m, n), o)) = Taken(Rest(m + 1, n), o \o <<Text(m + 1)>>)
<1>0. Streaming
    BY DEF Plainly
<1>1. /\ m \in 0..Count /\ m + 1 \in 0..Count /\ m + 1 \in 1..Count /\ n \in Nat
      /\ Len(Frames(m)) \in Nat /\ Len(Frames(m + 1)) \in Nat /\ Len(Stream) \in Nat
      /\ Len(Frame(m + 1)) \in Nat /\ Len(Frame(m + 1)) >= 1
      /\ Len(Frames(m + 1)) = Len(Frames(m)) + Len(Frame(m + 1))
      /\ Len(Frames(m + 1)) <= n /\ n <= Len(Stream)
    BY <1>0, StreamTyped, StreamFrame
<1>2. n \in Len(Frames(m))..Len(Stream)
    BY <1>1
<1>3. PICK b, f, p, l : b = Rest(m, n) /\ f = Frame(m + 1) /\ p = Payload(m + 1) /\ l = Len(Frames(m))
    OBVIOUS
<1>4. /\ b \in Seq(Signs) /\ Len(b) = n - l /\ Len(b) \in Nat
      /\ \A j \in 1..(n - l) : b[j] = Stream[l + j]
    BY <1>0, <1>1, <1>2, <1>3, RestIs
<1>5. Begins(b, f) /\ Len(f) \in Nat /\ Len(f) >= 1 /\ Len(b) >= Len(f)
    <2>1. Begins(Rest(m, n), Frame(m + 1))
        BY <1>0, <1>2, RestBegins
    <2> QED BY <1>1, <1>3, <1>4, <2>1
<1>6. p \in Seq(Signs) /\ Len(p) \in Nat
    BY <1>0, <1>1, <1>3, PayloadBytes DEF Bytes
<1>7. PICK from \in Nat :
        /\ Cut(b) = CutAt(p, from, Len(f) + 1)
        /\ from >= 1 /\ from + Len(p) - 1 <= Len(f)
        /\ \A k \in 1..Len(p) : b[from + k - 1] = p[k]
    <2>1. \E from \in Nat :
             /\ Cut(b) = CutAt(Payload(m + 1), from, Len(Frame(m + 1)) + 1)
             /\ from >= 1 /\ from + Len(Payload(m + 1)) - 1 <= Len(Frame(m + 1))
             /\ \A k \in 1..Len(Payload(m + 1)) : b[from + k - 1] = Payload(m + 1)[k]
        <3>1. Begins(b, Frame(m + 1)) /\ Len(b) >= Len(Frame(m + 1)) /\ m + 1 \in 1..Count
            BY <1>1, <1>3, <1>5
        <3> QED BY <1>0, <3>1, CutWhole
    <2> QED BY <1>3, <2>1, Zenon
<1>8. /\ from >= 1 /\ from + Len(p) - 1 <= Len(f) /\ Len(f) <= Len(b)
    BY <1>4, <1>5, <1>7
<1>9. l \in Nat /\ n \in Nat /\ Len(Frames(m + 1)) = l + Len(f) /\ Len(b) = n - l
    BY <1>1, <1>3, <1>4
<1>10. SubSeq(b, from, from + Len(p) - 1) = p
    <2>1. PICK a \in Nat : a = from - 1
        BY <1>8
    <2>2. PICK e \in Nat : e = from + Len(p) - 1 /\ e - a = Len(p) /\ a <= e /\ e <= Len(b) /\ a + 1 = from
        <3>1. Len(b) \in Nat /\ Len(f) \in Nat
            BY <1>4, <1>5
        <3>2. /\ from + Len(p) - 1 \in Nat /\ (from + Len(p) - 1) - a = Len(p)
              /\ a <= from + Len(p) - 1 /\ from + Len(p) - 1 <= Len(b) /\ a + 1 = from
            BY <1>6, <1>8, <2>1, <3>1
        <3> QED BY <3>2, Zenon
    <2>3. PICK s : s = SubSeq(b, a + 1, e)
        OBVIOUS
    <2>4. s \in Seq(Signs) /\ Len(s) = e - a /\ \A j \in 1..(e - a) : s[j] = b[a + j]
        <3>1. b \in Seq(Signs) /\ a <= e /\ e <= Len(b)
            BY <1>4, <2>2
        <3>2. /\ SubSeq(b, a + 1, e) \in Seq(Signs) /\ Len(SubSeq(b, a + 1, e)) = e - a
              /\ \A j \in 1..(e - a) : SubSeq(b, a + 1, e)[j] = b[a + j]
            BY <3>1, PartIs
        <3> QED BY <2>3, <3>2, Zenon
    <2>5. \A k \in 1..Len(p) : s[k] = p[k]
        <3> TAKE k \in 1..Len(p)
        <3>1. k \in 1..(e - a) /\ from + k - 1 = a + k
            BY <1>6, <2>2
        <3> QED BY <1>7, <2>4, <3>1
    <2>6. s = p
        BY <1>6, <2>2, <2>4, <2>5, SeqEqual
    <2> QED BY <2>2, <2>3, <2>6, Zenon
<1>11. SubSeq(b, Len(f) + 1, Len(b)) = Rest(m + 1, n)
    <2>1. PICK s, t : s = SubSeq(b, Len(f) + 1, Len(b)) /\ t = Rest(m + 1, n)
        OBVIOUS
    <2>2. s \in Seq(Signs) /\ Len(s) = Len(b) - Len(f) /\ \A j \in 1..(Len(b) - Len(f)) : s[j] = b[Len(f) + j]
        <3>1. Len(f) <= Len(b)
            BY <1>4, <1>5
        <3> QED BY <1>4, <1>5, <2>1, <3>1, PartIs
    <2>3. PICK l2 \in Nat : l2 = Len(Frames(m + 1)) /\ l2 = l + Len(f)
        BY <1>1, <1>3
    <2>4. /\ t \in Seq(Signs) /\ Len(t) = n - l2
          /\ \A j \in 1..(n - l2) : t[j] = Stream[l2 + j]
        <3>1. m + 1 \in 0..Count /\ n \in Len(Frames(m + 1))..Len(Stream)
            BY <1>1
        <3>2. /\ Rest(m + 1, n) \in Seq(Signs) /\ Len(Rest(m + 1, n)) = n - Len(Frames(m + 1))
              /\ \A j \in 1..(n - Len(Frames(m + 1))) : Rest(m + 1, n)[j] = Stream[Len(Frames(m + 1)) + j]
            BY <1>0, <3>1, RestIs
        <3> QED BY <2>1, <2>3, <3>2, Zenon
    <2>5. l \in Nat /\ n - l2 = Len(b) - Len(f)
        <3>1. Len(f) \in Nat
            BY <1>5
        <3> QED BY <1>9, <2>3, <3>1
    <2>6. ASSUME NEW k \in 1..Len(s) PROVE s[k] = t[k]
        <3>1. /\ k \in 1..(Len(b) - Len(f)) /\ Len(f) + k \in 1..(n - l) /\ k \in 1..(n - l2)
              /\ l + (Len(f) + k) = l2 + k
            <4>1. Len(f) \in Nat /\ Len(s) = Len(b) - Len(f)
                BY <1>5, <2>2
            <4>2. Len(b) = n - l /\ n \in Nat /\ l \in Nat /\ l2 = l + Len(f)
                BY <1>9, <2>3
            <4> QED BY <4>1, <4>2
        <3> QED BY <1>4, <2>2, <2>4, <3>1
    <2>7. s = t
        BY <2>2, <2>4, <2>5, <2>6, SeqEqual
    <2> QED BY <2>1, <2>7
<1>12. Message(b, CutAt(p, from, Len(f) + 1)) = <<Text(m + 1)>>
    <2>1. Message(b, CutAt(p, from, Len(f) + 1)) = Parsed(IF reader = "native" THEN Decode(p) ELSE p)
        BY <1>10, Zenon DEF Message, CutAt
    <2>2. Parsed(Text(m + 1)) = <<Text(m + 1)>> /\ Text(m + 1) = Decode(p)
        BY <1>0, <1>1, <1>3, TextIs DEF Text
    <2>3. reader # "native" => p = Text(m + 1)
        <3>1. reader # "native" => "wide" \notin ToSet(sent[m + 1])
            BY <1>1 DEF Plainly, AllNarrow
        <3> QED BY <1>0, <1>1, <1>3, <3>1, TextIs
    <2> QED BY <2>1, <2>2, <2>3, Zenon
<1>13. Turn(Taken(b, o)) = Taken(SubSeq(b, Len(f) + 1, Len(b)), o \o Message(b, CutAt(p, from, Len(f) + 1)))
    <2>1. Taken(b, o).rest = b /\ Taken(b, o).out = o
        BY DEF Taken
    <2>2. CutAt(p, from, Len(f) + 1).is /\ CutAt(p, from, Len(f) + 1).next = Len(f) + 1
        BY DEF CutAt
    <2> QED BY <1>7, <2>1, <2>2, Zenon DEF Turn, Taken
<1> QED BY <1>3, <1>11, <1>12, <1>13, Zenon

\* What it does when no whole message is left.
LEMMA TurnPart ==
    ASSUME Streaming, NEW m \in 0..Count, NEW n \in Len(Frames(m))..Len(Stream),
           m < Count => n < Len(Frames(m + 1)), NEW o
    PROVE  Turn(Taken(Rest(m, n), o)) = Taken(Rest(m, n), o)
<1>1. Cut(Rest(m, n)) = NoCut
    <2>1. CASE m < Count
        <3>1. m \in Nat /\ m + 1 \in 1..Count /\ Begins(Rest(m, n), Frame(m + 1))
            BY <2>1, StreamTyped, RestBegins
        <3>2. Len(Rest(m, n)) < Len(Frame(m + 1))
            BY <2>1, <3>1, RestIs, StreamFrame
        <3> QED BY <3>1, <3>2, CutPart
    <2>2. CASE ~(m < Count)
        <3>1. m = Count
            BY <2>2, StreamTyped
        <3>2. n < Len(Frames(m)) + 1 /\ n \in Int /\ Len(Frames(m)) + 1 \in Int
            BY <3>1, RestIs DEF Stream
        <3>3. Rest(m, n) = <<>>
            BY <3>2, SubSeqEmpty DEF Rest
        <3> QED BY <3>3, CutEmpty
    <2> QED BY <2>1, <2>2
<1>2. Taken(Rest(m, n), o).rest = Rest(m, n) /\ ~NoCut.is
    BY DEF Taken, NoCut
<1> QED BY <1>1, <1>2, Zenon DEF Turn

-----------------------------------------------------------------------------
(* The loops.                                                               *)

\* What the recursion in Consume defines.
IsTurns(g, b) == g = [n \in 0..Len(b) |-> IF n = 0 THEN Taken(b, <<>>) ELSE Turn(g[n - 1])]

LEMMA ConsumeIs ==
    ASSUME NEW b, Len(b) \in Nat, NEW g, IsTurns(g, b)
    PROVE  Consume(b) = g[Len(b)]
<1> DEFINE turns == CHOOSE h : h = [n \in 0..Len(b) |->
                      IF n = 0 THEN [rest |-> b, out |-> <<>>] ELSE Turn(h[n - 1])]
<1>1. turns = [n \in 0..Len(b) |-> IF n = 0 THEN Taken(b, <<>>) ELSE Turn(turns[n - 1])]
    BY Zenon DEF IsTurns, Taken
<1>2. Consume(b) = turns[Len(b)]
    BY DEF Consume
<1> HIDE DEF turns
<1>3. \A n \in 0..Len(b) : turns[n] = IF n = 0 THEN Taken(b, <<>>) ELSE Turn(turns[n - 1])
    BY <1>1
<1>4. \A n \in 0..Len(b) : g[n] = IF n = 0 THEN Taken(b, <<>>) ELSE Turn(g[n - 1])
    BY DEF IsTurns
<1> DEFINE T == {n \in Nat : n <= Len(b) => turns[n] = g[n]}
<1>5. 0 \in T
    BY <1>3, <1>4
<1>6. ASSUME NEW n \in T PROVE n + 1 \in T
    <2> SUFFICES ASSUME n + 1 <= Len(b) PROVE turns[n + 1] = g[n + 1]
        OBVIOUS
    <2>1. n \in Nat /\ n <= Len(b) /\ n + 1 \in 0..Len(b) /\ n + 1 # 0 /\ (n + 1) - 1 = n
        OBVIOUS
    <2>2. turns[n] = g[n]
        BY <2>1
    <2> QED BY <1>3, <1>4, <2>1, <2>2
<1> HIDE DEF T
<1>7. Nat \subseteq T
    BY <1>5, <1>6, SetInduction
<1>8. turns[Len(b)] = g[Len(b)]
    BY <1>7 DEF T
<1> QED BY <1>2, <1>8

\* The messages after the first m, up to the k-th.
Said(m, k) == [i \in 1..(k - m) |-> Text(m + i)]

All == {Text(i) : i \in 1..Count}

LEMMA SaidIs ==
    ASSUME Streaming, NEW m \in Nat, NEW k \in m..Count
    PROVE  /\ Said(m, k) \in Seq(All) /\ Len(Said(m, k)) = k - m /\ k - m \in Nat
           /\ \A i \in 1..(k - m) : Said(m, k)[i] = Text(m + i)
<1>1. k \in Nat /\ k - m \in Nat /\ \A i \in 1..(k - m) : m + i \in 1..Count
    BY StreamTyped
<1>2. \A i \in 1..(k - m) : Text(m + i) \in All
    BY <1>1 DEF All
<1>3. Said(m, k) \in [1..(k - m) -> All]
    BY <1>2 DEF Said
<1>4. Said(m, k) \in Seq(All) /\ Len(Said(m, k)) = k - m
    BY <1>1, <1>3
<1> QED BY <1>1, <1>4 DEF Said

LEMMA SaidNone == ASSUME NEW m \in Nat PROVE Said(m, m) = <<>>
<1>1. m - m = 0
    OBVIOUS
<1> QED BY <1>1 DEF Said

LEMMA SaidMore ==
    ASSUME Streaming, NEW l \in Nat, NEW m \in l..Count, NEW k \in m..Count
    PROVE  Said(l, m) \o Said(m, k) = Said(l, k)
<1>1. m \in Nat /\ k \in Nat /\ k \in l..Count /\ l <= m /\ m <= k
    BY StreamTyped
<1>2. PICK s, t, u : s = Said(l, m) /\ t = Said(m, k) /\ u = Said(l, k)
    OBVIOUS
<1>3. /\ s \in Seq(All) /\ Len(s) = m - l
      /\ \A i \in 1..(m - l) : s[i] = Text(l + i)
    BY <1>1, <1>2, SaidIs
<1>4. /\ t \in Seq(All) /\ Len(t) = k - m
      /\ \A i \in 1..(k - m) : t[i] = Text(m + i)
    BY <1>1, <1>2, SaidIs
<1>5. /\ u \in Seq(All) /\ Len(u) = k - l
      /\ \A i \in 1..(k - l) : u[i] = Text(l + i)
    BY <1>1, <1>2, SaidIs
<1>6. /\ s \o t \in Seq(All) /\ Len(s \o t) = Len(s) + Len(t)
      /\ \A i \in 1..(Len(s) + Len(t)) : (s \o t)[i] = IF i <= Len(s) THEN s[i] ELSE t[i - Len(s)]
    BY <1>3, <1>4, ConcatProperties
<1>7. Len(s) + Len(t) = k - l
    BY <1>1, <1>3, <1>4
<1>8. ASSUME NEW i \in 1..(k - l) PROVE (s \o t)[i] = u[i]
    <2>1. CASE i <= m - l
        <3>1. i \in 1..(m - l)
            BY <1>1, <2>1
        <3> QED BY <1>3, <1>5, <1>6, <1>7, <2>1, <3>1
    <2>2. CASE ~(i <= m - l)
        <3>1. i - (m - l) \in 1..(k - m) /\ m + (i - (m - l)) = l + i
            BY <1>1, <2>2
        <3> QED BY <1>3, <1>4, <1>5, <1>6, <1>7, <2>2, <3>1
    <2> QED BY <2>1, <2>2
<1>9. s \o t = u
    BY <1>5, <1>6, <1>7, <1>8, SeqEqual
<1> QED BY <1>2, <1>9

LEMMA SaidOneMore ==
    ASSUME Streaming, NEW m \in Nat, NEW k \in m..Count, k < Count
    PROVE  Said(m, k) \o <<Text(k + 1)>> = Said(m, k + 1)
<1>1. k \in Nat /\ k + 1 \in k..Count /\ (k + 1) - k = 1
    BY StreamTyped
<1>2. Said(k, k + 1) = <<Text(k + 1)>>
    BY <1>1 DEF Said
<1> QED BY <1>1, <1>2, SaidMore

\* Every message takes bytes.
LEMMA FramesGrow ==
    ASSUME Streaming, NEW m \in 0..Count, NEW k \in m..Count
    PROVE  Len(Frames(m)) + (k - m) <= Len(Frames(k))
<1> DEFINE T == {d \in Nat : m + d <= Count => Len(Frames(m)) + d <= Len(Frames(m + d))}
<1>0. Count \in Nat /\ m \in Nat /\ Len(Frames(m)) \in Nat /\ k - m \in Nat /\ m + (k - m) = k /\ k <= Count
    BY StreamTyped, FramesTyped
<1>1. 0 \in T
    <2>1. m + 0 = m
        BY <1>0
    <2> QED BY <1>0, <2>1
<1>2. ASSUME NEW d \in T PROVE d + 1 \in T
    <2> SUFFICES ASSUME m + (d + 1) <= Count
                 PROVE  Len(Frames(m)) + (d + 1) <= Len(Frames(m + (d + 1)))
        OBVIOUS
    <2>1. PICK e \in Nat : e = m + d /\ e < Count /\ e <= Count /\ e + 1 = m + (d + 1)
        BY <1>0
    <2>2. Len(Frames(m)) + d <= Len(Frames(e))
        BY <2>1
    <2>3. /\ Len(Frames(e)) \in Nat /\ Len(Frames(e + 1)) \in Nat /\ Len(Frame(e + 1)) \in Nat
          /\ Len(Frame(e + 1)) >= 1 /\ Len(Frames(e + 1)) = Len(Frames(e)) + Len(Frame(e + 1))
        BY <2>1, FramesNext
    <2>4. Len(Frames(m)) + (d + 1) <= Len(Frames(e + 1))
        BY <1>0, <2>2, <2>3
    <2> QED BY <2>1, <2>4
<1> HIDE DEF T
<1>3. Nat \subseteq T
    BY <1>1, <1>2, SetInduction
<1>4. k - m \in T
    BY <1>0, <1>3
<1> QED BY <1>0, <1>4 DEF T

\* The k first messages have arrived whole with n bytes, the next one has not.
Whole(k, n) ==
    /\ k \in 0..Count /\ Len(Frames(k)) <= n
    /\ k < Count => n < Len(Frames(k + 1))

\* A loop takes off the buffer what has arrived whole, in order.
LEMMA ConsumeTakes ==
    ASSUME Plainly, NEW m \in 0..Count, NEW n \in Len(Frames(m))..Len(Stream),
           NEW k \in m..Count, Whole(k, n)
    PROVE  Consume(Rest(m, n)) = Taken(Rest(k, n), Said(m, k))
<1>0. Streaming
    BY DEF Plainly
<1>1. PICK b : b = Rest(m, n)
    OBVIOUS
<1>2. /\ Count \in Nat /\ m \in Nat /\ k \in Nat /\ n \in Nat /\ m <= k /\ k <= Count
      /\ Len(Frames(m)) \in Nat /\ Len(Frames(k)) \in Nat
      /\ Len(b) = n - Len(Frames(m)) /\ Len(b) \in Nat
    <2>1. Count \in Nat /\ m \in Nat /\ k \in Nat /\ m <= k /\ k <= Count /\ k \in 0..Count
        BY <1>0, StreamTyped
    <2>2. Len(Frames(m)) \in Nat /\ Len(Frames(k)) \in Nat
        BY <1>0, <2>1, FramesTyped
    <2>3. Len(b) = n - Len(Frames(m)) /\ n \in Nat /\ Len(b) \in Nat
        BY <1>0, <1>1, RestIs
    <2> QED BY <2>1, <2>2, <2>3, Zenon
<1>3. k - m \in Nat /\ k - m <= Len(b)
    BY <1>0, <1>2, FramesGrow DEF Whole
<1> DEFINE place(j) == IF j <= k - m THEN m + j ELSE k
           state(i) == Taken(Rest(i, n), Said(m, i))
           g == [j \in 0..Len(b) |-> state(place(j))]
<1>4. ASSUME NEW i \in m..k, i < k PROVE Turn(state(i)) = state(i + 1)
    <2>1. i \in Nat /\ i < Count /\ i \in m..Count /\ i + 1 \in 0..Count /\ k \in (i + 1)..Count
        BY <1>2, <1>4
    <2>2. n \in Len(Frames(i + 1))..Len(Stream)
        <3>1. Len(Frames(i + 1)) <= Len(Frames(k)) /\ Len(Frames(i + 1)) \in Nat
            BY <1>0, <2>1, FramesPrefix, FramesTyped
        <3>2. Len(Frames(k)) <= n /\ n <= Len(Stream) /\ Len(Stream) \in Nat
            BY <1>0, <1>2, StreamTyped DEF Whole
        <3> QED BY <1>2, <3>1, <3>2
    <2>3. Turn(Taken(Rest(i, n), Said(m, i))) = Taken(Rest(i + 1, n), Said(m, i) \o <<Text(i + 1)>>)
        BY <2>1, <2>2, TurnWhole
    <2>4. Said(m, i) \o <<Text(i + 1)>> = Said(m, i + 1)
        BY <1>0, <1>2, <2>1, SaidOneMore
    <2> QED BY <2>3, <2>4
<1>5. Turn(state(k)) = state(k)
    <2>1. n \in Len(Frames(k))..Len(Stream) /\ k \in 0..Count /\ (k < Count => n < Len(Frames(k + 1)))
        BY <1>0, <1>2, StreamTyped DEF Whole
    <2> QED BY <1>0, <2>1, TurnPart
<1>6. state(m) = Taken(b, <<>>)
    BY <1>1, <1>2, SaidNone
<1> HIDE DEF state
<1>7. place(0) = m /\ place(Len(b)) = k
    BY <1>2, <1>3
<1>8. ASSUME NEW j \in 1..Len(b) PROVE state(place(j)) = Turn(state(place(j - 1)))
    <2>1. CASE j <= k - m
        <3>1. place(j) = m + j /\ place(j - 1) = m + (j - 1)
            BY <1>2, <1>3, <2>1
        <3>2. m + (j - 1) \in m..k /\ m + (j - 1) < k /\ (m + (j - 1)) + 1 = m + j
            BY <1>2, <1>3, <2>1
        <3> QED BY <1>4, <3>1, <3>2
    <2>2. CASE ~(j <= k - m)
        <3>1. place(j) = k /\ place(j - 1) = k
            BY <1>2, <1>3, <2>2
        <3> QED BY <1>5, <3>1
    <2> QED BY <2>1, <2>2
<1> HIDE DEF place
<1>9. IsTurns(g, b)
    <2>1. ASSUME NEW j \in 0..Len(b)
          PROVE  g[j] = IF j = 0 THEN Taken(b, <<>>) ELSE Turn(g[j - 1])
        <3>1. CASE j = 0
            BY <1>6, <1>7, <3>1
        <3>2. CASE j # 0
            <4>1. j \in 1..Len(b) /\ j - 1 \in 0..Len(b)
                BY <1>2, <3>2
            <4>2. g[j] = state(place(j)) /\ g[j - 1] = state(place(j - 1))
                BY <4>1
            <4> QED BY <1>8, <3>2, <4>1, <4>2
        <3> QED BY <3>1, <3>2
    <2>2. g = [j \in 0..Len(b) |-> g[j]]
        OBVIOUS
    <2> HIDE DEF g
    <2>3. g = [j \in 0..Len(b) |-> IF j = 0 THEN Taken(b, <<>>) ELSE Turn(g[j - 1])]
        BY <2>1, <2>2
    <2> QED BY <2>3 DEF IsTurns
<1>10. Consume(b) = g[Len(b)]
    BY <1>2, <1>9, ConsumeIs
<1>11. g[Len(b)] = state(k)
    BY <1>2, <1>7
<1> QED BY <1>1, <1>10, <1>11 DEF state

-----------------------------------------------------------------------------
(* How much has arrived.                                                    *)

LEMMA WholeOrder ==
    ASSUME Streaming, NEW m \in Nat, NEW n \in Nat, m <= n, NEW j, NEW k, Whole(j, m), Whole(k, n)
    PROVE  j <= k
<1>1. j \in Nat /\ k \in Nat /\ j <= Count /\ k <= Count /\ Count \in Nat
    BY StreamTyped DEF Whole
<1>2. ASSUME k < j PROVE FALSE
    <2>1. k < Count /\ k + 1 \in 0..Count /\ j \in (k + 1)..Count /\ j \in 0..Count
        BY <1>1, <1>2
    <2>2. Len(Frames(k + 1)) <= Len(Frames(j)) /\ Len(Frames(k + 1)) \in Nat /\ Len(Frames(j)) \in Nat
        BY <2>1, FramesPrefix, FramesTyped
    <2>3. n < Len(Frames(k + 1)) /\ Len(Frames(j)) <= m
        BY <2>1 DEF Whole
    <2> QED BY <2>2, <2>3
<1> QED BY <1>1, <1>2

LEMMA WholeExists ==
    ASSUME Streaming, NEW n \in 0..Len(Stream)
    PROVE  \E k \in 0..Count : Whole(k, n)
<1>0. Count \in Nat /\ n \in Nat /\ Len(Frames(0)) = 0 /\ n <= Len(Frames(Count))
    <2>1. Len(Frames(0)) = 0
        BY FramesNone
    <2> QED BY <2>1, StreamTyped DEF Stream
<1> SUFFICES ASSUME \A k \in 0..Count : ~Whole(k, n) PROVE FALSE
    OBVIOUS
<1> DEFINE T == {k \in Nat : k <= Count => Len(Frames(k)) <= n}
<1>1. 0 \in T
    BY <1>0
<1>2. ASSUME NEW k \in T PROVE k + 1 \in T
    <2> SUFFICES ASSUME k + 1 <= Count PROVE Len(Frames(k + 1)) <= n
        OBVIOUS
    <2>1. k \in 0..Count /\ k < Count /\ Len(Frames(k)) <= n
        BY <1>0
    <2>2. ~(n < Len(Frames(k + 1)))
        BY <2>1 DEF Whole
    <2>3. Len(Frames(k + 1)) \in Nat
        BY <2>1, FramesNext
    <2> QED BY <1>0, <2>2, <2>3
<1> HIDE DEF T
<1>3. Nat \subseteq T
    BY <1>1, <1>2, SetInduction
<1>4. Len(Frames(Count)) <= n
    BY <1>0, <1>3 DEF T
<1>5. Whole(Count, n)
    BY <1>0, <1>4 DEF Whole
<1> QED BY <1>0, <1>5

LEMMA WholeAll ==
    ASSUME Streaming, NEW k \in 0..Count
    PROVE  Whole(k, Len(Frames(k))) /\ Rest(k, Len(Frames(k))) = <<>>
<1>1. Len(Frames(k)) \in Nat /\ (k < Count => Len(Frames(k)) < Len(Frames(k + 1)))
    <2>1. Len(Frames(k)) \in Nat /\ k \in Nat
        BY FramesTyped, StreamTyped
    <2>2. k < Count => /\ Len(Frame(k + 1)) \in Nat /\ Len(Frame(k + 1)) >= 1
                       /\ Len(Frames(k + 1)) = Len(Frames(k)) + Len(Frame(k + 1))
        BY <2>1, FramesNext
    <2> QED BY <2>1, <2>2
<1>2. Rest(k, Len(Frames(k))) = <<>>
    <2>1. Len(Frames(k)) + 1 \in Int /\ Len(Frames(k)) \in Int /\ Len(Frames(k)) < Len(Frames(k)) + 1
        BY <1>1
    <2> QED BY <2>1, SubSeqEmpty DEF Rest
<1> QED BY <1>1, <1>2 DEF Whole

LEMMA CompleteIs ==
    ASSUME Streaming, arrived \in 0..Len(Stream), NEW k, Whole(k, arrived)
    PROVE  Complete = k
<1>1. \A j \in 0..Count : (Len(Frames(j)) <= arrived /\ (j < Count => arrived < Len(Frames(j + 1))))
                            <=> Whole(j, arrived)
    BY DEF Whole
<1>2. Complete \in 0..Count /\ Whole(Complete, arrived)
    <2>1. k \in 0..Count
        BY DEF Whole
    <2>2. \E j \in 0..Count : Len(Frames(j)) <= arrived /\ (j < Count => arrived < Len(Frames(j + 1)))
        BY <1>1, <2>1
    <2> QED BY <1>1, <2>2, Zenon DEF Complete
<1>3. arrived \in Nat /\ arrived <= arrived
    BY StreamTyped
<1>4. Complete <= k /\ k <= Complete
    BY <1>2, <1>3, WholeOrder
<1>5. Complete \in Nat /\ k \in Nat
    BY <1>2, StreamTyped DEF Whole
<1> QED BY <1>4, <1>5

-----------------------------------------------------------------------------
(* Chunks.                                                                  *)

LEMMA IsSequence == ASSUME NEW S, NEW n \in Nat, NEW s \in [1..n -> S] PROVE s \in Seq(S)
OBVIOUS

Plains == {c \in Signs : c.is \notin {"lead", "tail"}}

LEMMA PlainSigns ==
    /\ \A w \in {"nul", "MSG", "cr", "lf"} : Sign(w) \in Plains
    /\ \A i : Len(Payload(i)) \in Nat => \A w \in {"low", "high", "size"} : Size(w, i) \in Plains
BY DEF Sign, Size, Signs, Plains

LEMMA FramePlain ==
    ASSUME Streaming, reader # "native", AllNarrow, NEW i \in 1..Count
    PROVE  Frame(i) \in Seq(Plains)
<1>1. PICK p, f : p = Payload(i) /\ f = Frame(i)
    OBVIOUS
<1>2. Len(p) \in Nat /\ p \in Seq(Plains)
    <2>1. "wide" \notin ToSet(sent[i])
        BY DEF AllNarrow
    <2>2. /\ p \in Seq(Signs) /\ Len(p) \in Nat /\ Len(p) >= 2
          /\ p[1] = Sign("{") /\ p[Len(p)] = Sign("}")
          /\ \A k \in 2..(Len(p) - 1) : p[k].is = "narrow"
        BY <1>1, <2>1, PayloadIs
    <2>3. \A k \in 1..Len(p) : k = 1 \/ k = Len(p) \/ k \in 2..(Len(p) - 1)
        BY <2>2, PlacesOf
    <2>4. \A k \in 1..Len(p) : p[k].is \notin {"lead", "tail"}
        <3>1. Sign("{").is = "{" /\ Sign("}").is = "}"
            BY SignIs
        <3> TAKE k \in 1..Len(p)
        <3>2. p[k].is \in {"{", "}", "narrow"}
            BY <2>2, <2>3, <3>1
        <3> QED BY <3>2
    <2>5. \A k \in 1..Len(p) : p[k] \in Plains
        BY <2>2, <2>4, ElementOfSeq DEF Plains
    <2>6. p = [k \in 1..Len(p) |-> p[k]]
        BY <2>2, LenProperties
    <2>7. p \in [1..Len(p) -> Plains]
        BY <2>5, <2>6
    <2> QED BY <2>2, <2>7, IsSequence
<1>3. CASE reader = "pipe"
    <2>1. PICK a \in Plains : a = Sign("nul")
        BY PlainSigns
    <2>2. f = p \o <<a>>
        BY <1>1, <1>3, <2>1 DEF Frame
    <2> QED BY <1>1, <1>2, <2>2, Followed
<1>4. CASE reader \in {"tcp", "ws"}
    <2>1. Len(Payload(i)) \in Nat
        BY <1>1, <1>2
    <2>2. PICK a \in Plains, b \in Plains, c \in Plains, d \in Plains :
             a = Sign("MSG") /\ b = Size("size", i) /\ c = Sign("cr") /\ d = Sign("lf")
        BY <2>1, PlainSigns
    <2>3. f = <<a, b>> \o <<c, d>> \o p \o <<c, d>>
        BY <1>1, <1>4, <2>2 DEF Frame, CRLF
    <2>4. Lined(Plains, f, a, b, c, d, p)
        BY <1>2, <2>3, LineAround
    <2> QED BY <1>1, <2>4 DEF Lined
<1>5. reader \in {"pipe", "native", "tcp", "ws"}
    BY FramingAssumption DEF Streaming
<1> QED BY <1>3, <1>4, <1>5

LEMMA StreamPlain ==
    ASSUME Streaming, reader # "native", AllNarrow
    PROVE  \A j \in 1..Len(Stream) : Stream[j].is \notin {"lead", "tail"}
<1> DEFINE F == [i \in 1..Count |-> Frame(i)]
<1>1. Count \in Nat /\ \A i \in 1..Count : F[i] \in Seq(Plains)
    BY StreamTyped, FramePlain
<1>2. FlattenSeq([i \in 1..Count |-> F[i]]) \in Seq(Plains)
    <2> HIDE DEF F
    <2> QED BY <1>1, FlattenTyped
<1>3. [i \in 1..Count |-> F[i]] = [i \in 1..Count |-> Frame(i)]
    OBVIOUS
<1>4. Stream \in Seq(Plains)
    BY <1>2, <1>3, Zenon DEF Stream, Frames
<1> QED BY <1>4, ElementOfSeq DEF Plains

\* The characters of a chunk are its bytes, wherever it is cut.
LEMMA ChunkIs ==
    ASSUME Plainly, NEW a \in Nat, NEW n \in Nat, a <= n, n <= Len(Stream)
    PROVE  Chars(SubSeq(Stream, a + 1, n)) = SubSeq(Stream, a + 1, n)
<1>0. Streaming
    BY DEF Plainly
<1>1. CASE reader = "native"
    BY <1>1 DEF Chars
<1>2. CASE reader # "native"
    <2>1. PICK s : s = SubSeq(Stream, a + 1, n)
        OBVIOUS
    <2>2. /\ s \in Seq(Signs) /\ Len(s) = n - a
          /\ \A j \in 1..(n - a) : s[j] = Stream[a + j]
        BY <1>0, <2>1, StreamTyped, PartIs
    <2>3. \A j \in 1..(n - a) : a + j \in 1..Len(Stream)
        BY <1>0, StreamTyped
    <2>4. \A j \in 1..Len(Stream) : Stream[j].is \notin {"lead", "tail"}
        BY <1>0, <1>2, StreamPlain DEF Plainly
    <2>5. \A k \in 1..Len(s) : s[k].is \notin {"lead", "tail"}
        BY <2>2, <2>3, <2>4
    <2>6. Decode(s) = s
        BY <2>2, <2>5, DecodePlain
    <2> QED BY <1>2, <2>1, <2>6 DEF Chars
<1> QED BY <1>1, <1>2

\* A chunk continues what is in the buffer.
LEMMA RestMore ==
    ASSUME Streaming, NEW k \in 0..Count, NEW a \in Len(Frames(k))..Len(Stream), NEW n \in a..Len(Stream)
    PROVE  Rest(k, a) \o SubSeq(Stream, a + 1, n) = Rest(k, n)
<1>1. Len(Frames(k)) \in Nat /\ Len(Stream) \in Nat /\ Stream \in Seq(Signs)
    BY FramesTyped, StreamTyped
<1>2. /\ Len(Frames(k)) + 1 \in 1..(Len(Stream) + 1)
      /\ a \in ((Len(Frames(k)) + 1) - 1)..Len(Stream) /\ n \in a..Len(Stream)
    BY <1>1
<1> QED BY <1>1, <1>2, ConcatAdjacentSubSeq DEF Rest

\* A reader that has read a bytes, and holds in its buffer what is no message yet.
Exact(buf, del, a) == \E k \in 0..Count : Whole(k, a) /\ buf = Rest(k, a) /\ del = Said(0, k)

\* The next chunk leaves it exact.
LEMMA ExactNext ==
    ASSUME Plainly, NEW a \in 0..Len(Stream), NEW n \in a..Len(Stream), NEW buf, NEW del, Exact(buf, del, a)
    PROVE  LET c == Consume(buf \o Chars(SubSeq(Stream, a + 1, n)))
           IN  Exact(c.rest, del \o c.out, n)
<1>0. Streaming
    BY DEF Plainly
<1>1. Len(Stream) \in Nat /\ a \in Nat /\ n \in Nat /\ a <= n /\ n <= Len(Stream) /\ Count \in Nat
    BY <1>0, StreamTyped
<1>2. PICK m \in 0..Count : Whole(m, a) /\ buf = Rest(m, a) /\ del = Said(0, m)
    BY DEF Exact
<1>3. PICK k \in 0..Count : Whole(k, n)
    BY <1>0, <1>1, WholeExists
<1>4. m <= k /\ k \in m..Count /\ 0 \in Nat /\ m \in 0..Count
    <2>1. m <= k
        BY <1>0, <1>1, <1>2, <1>3, WholeOrder
    <2> QED BY <1>1, <2>1
<1>5. a \in Len(Frames(m))..Len(Stream) /\ n \in Len(Frames(m))..Len(Stream)
    <2>1. Len(Frames(m)) \in Nat /\ Len(Frames(m)) <= a
        BY <1>0, <1>2, FramesTyped DEF Whole
    <2> QED BY <1>1, <2>1
<1>6. buf \o Chars(SubSeq(Stream, a + 1, n)) = Rest(m, n)
    <2>1. Chars(SubSeq(Stream, a + 1, n)) = SubSeq(Stream, a + 1, n)
        BY <1>1, ChunkIs
    <2>2. Rest(m, a) \o SubSeq(Stream, a + 1, n) = Rest(m, n)
        BY <1>0, <1>5, RestMore
    <2> QED BY <1>2, <2>1, <2>2, Zenon
<1>7. Consume(Rest(m, n)) = Taken(Rest(k, n), Said(m, k))
    BY <1>3, <1>4, <1>5, ConsumeTakes
<1>8. del \o Said(m, k) = Said(0, k)
    BY <1>0, <1>2, <1>4, SaidMore
<1>9. Taken(Rest(k, n), Said(m, k)).rest = Rest(k, n) /\ Taken(Rest(k, n), Said(m, k)).out = Said(m, k)
    BY DEF Taken
<1> QED BY <1>3, <1>6, <1>7, <1>8, <1>9 DEF Exact

-----------------------------------------------------------------------------
(* Neither the stream nor its reader changes.                               *)

LEMMA Frozen ==
    ASSUME reader' = reader, sent' = sent
    PROVE  /\ \A k : Frames(k)' = Frames(k)
           /\ \A i : Text(i)' = Text(i)
           /\ Stream' = Stream
           /\ Streaming' <=> Streaming
           /\ Plainly' <=> Plainly
           /\ AllNarrow' <=> AllNarrow
<1>1. ASSUME NEW i PROVE Payload(i)' = Payload(i)
    BY DEF Payload, Inner
<1>2. ASSUME NEW i PROVE Frame(i)' = Frame(i)
    <2>1. Payload(i)' = Payload(i)
        BY <1>1
    <2> QED BY <2>1 DEF Frame, Size
<1>3. ASSUME NEW k PROVE Frames(k)' = Frames(k)
    BY <1>2 DEF Frames
<1>4. ASSUME NEW i PROVE Text(i)' = Text(i)
    <2>1. Payload(i)' = Payload(i)
        BY <1>1
    <2> QED BY <2>1 DEF Text
<1>5. Streaming' <=> Streaming
    BY DEF Streaming
<1>6. AllNarrow' <=> AllNarrow
    BY DEF AllNarrow
<1> QED BY <1>3, <1>4, <1>5, <1>6 DEF Stream, Plainly

LEMMA FrozenToo ==
    ASSUME reader' = reader, sent' = sent
    PROVE  /\ \A k, n : Rest(k, n)' = Rest(k, n)
           /\ \A k, n : Whole(k, n)' <=> Whole(k, n)
           /\ \A m, k : Said(m, k)' = Said(m, k)
           /\ All' = All
           /\ \A buf, del, a : Exact(buf, del, a)' <=> Exact(buf, del, a)
<1>1. \A k, n : Rest(k, n)' = Rest(k, n)
    BY Frozen DEF Rest
<1>2. \A k, n : Whole(k, n)' <=> Whole(k, n)
    BY Frozen DEF Whole
<1>3. ASSUME NEW m, NEW k PROVE Said(m, k)' = Said(m, k)
    BY Frozen DEF Said
<1>4. All' = All
    BY Frozen DEF All
<1> QED BY <1>1, <1>2, <1>3, <1>4 DEF Exact

-----------------------------------------------------------------------------
(* The invariant.                                                           *)

FramingTypes ==
    /\ Streaming /\ arrived \in 0..Len(Stream) /\ apart \in BOOLEAN /\ whole \in BOOLEAN
    /\ reader # "ws" => reads = <<>> /\ apart

FrameRead(buf, a, n) == [held |-> buf, chunk |-> SubSeq(Stream, a + 1, n)]

\* As long as no frame arrives while another is being read, the buffer holds what has been
\* read of a message that has not arrived whole, also while a frame is being read.
ApartOf(rds, buf, del, n) ==
    \/ rds = <<>> /\ Exact(buf, del, n)
    \/ \E a \in 0..n : rds = <<FrameRead(buf, a, n)>> /\ Exact(buf, del, a)

ApartInv == Plainly /\ apart => ApartOf(reads, buffer, delivered, arrived)

Part(x, y) == (x + 1)..y

\* The messages of the frames that are being read, of which the i-th has those after
\* the first X[i] up to the Y[i]-th.
Unread(X, Y, r) == UNION {Part(X[i], Y[i]) : i \in 1..r}

WholeOf(rds, del, n, c, r, X, Y) ==
    /\ n = Len(Frames(c)) /\ r \in Nat /\ X \in [1..r -> 0..Count] /\ Y \in [1..r -> 0..c]
    /\ rds = [i \in 1..r |-> FrameRead(<<>>, Len(Frames(X[i])), Len(Frames(Y[i])))]
    /\ \A i \in 1..r : X[i] <= Y[i]
    /\ \A i, j \in 1..r : i # j => Part(X[i], Y[i]) \cap Part(X[j], Y[j]) = {}
    /\ del \in Seq(All) /\ Len(del) = Cardinality((1..c) \ Unread(X, Y, r))
    /\ \A m \in (1..c) \ Unread(X, Y, r) : \E d \in 1..Len(del) : del[d] = Text(m)

\* As long as frames end with messages, nothing is left in the buffer, and every message
\* that has arrived is in one frame that is being read, or was delivered.
WholeInv ==
    Plainly /\ reader = "ws" /\ whole =>
        buffer = <<>> /\ \E c \in 0..Count : \E r, X, Y : WholeOf(reads, delivered, arrived, c, r, X, Y)

NarrowInv == FramingTypes /\ ApartInv /\ WholeInv

LEMMA InitNarrow == FramingInit => NarrowInv
<1> SUFFICES ASSUME FramingInit PROVE NarrowInv
    OBVIOUS
<1>1. Streaming /\ arrived = 0 /\ buffer = <<>> /\ reads = <<>> /\ delivered = <<>> /\ apart /\ whole
    BY DEF FramingInit, Streaming
<1>2. Count \in Nat /\ Len(Stream) \in Nat /\ 0 \in 0..Count
    BY <1>1, StreamTyped
<1>3. Frames(0) = <<>> /\ Len(Frames(0)) = 0
    BY FramesNone
<1>4. Whole(0, 0) /\ Rest(0, 0) = <<>> /\ Said(0, 0) = <<>>
    <2>1. Whole(0, Len(Frames(0))) /\ Rest(0, Len(Frames(0))) = <<>>
        BY <1>1, <1>2, WholeAll
    <2> QED BY <1>3, <2>1, SaidNone
<1>5. FramingTypes
    BY <1>1, <1>2 DEF FramingTypes, FramingInit
<1>6. ApartInv
    BY <1>1, <1>2, <1>4 DEF ApartInv, ApartOf, Exact
<1>7. WholeInv
    <2>1. PICK X : X = <<>> /\ X = [i \in 1..0 |-> 0]
        OBVIOUS
    <2>2. X \in [1..0 -> 0..Count] /\ X \in [1..0 -> 0..0]
        BY <2>1
    <2>3. Unread(X, X, 0) = {} /\ (1..0) \ Unread(X, X, 0) = {}
        BY DEF Unread
    <2>4. <<>> \in Seq(All) /\ Len(<<>>) = 0 /\ Cardinality({}) = 0
        BY FS_EmptySet
    <2>5. <<>> = [i \in 1..0 |-> FrameRead(<<>>, Len(Frames(X[i])), Len(Frames(X[i])))]
        OBVIOUS
    <2>6. WholeOf(<<>>, <<>>, 0, 0, 0, X, X)
        BY <1>3, <2>2, <2>3, <2>4, <2>5 DEF WholeOf
    <2> QED BY <1>1, <1>2, <2>6 DEF WholeInv
<1> QED BY <1>5, <1>6, <1>7 DEF NarrowInv

-----------------------------------------------------------------------------
(* Steps.                                                                   *)

LEMMA NothingChanges ==
    ASSUME FramingNext \/ UNCHANGED framingVars
    PROVE  reader' = reader /\ sent' = sent
BY DEF FramingNext, Read, FrameArrives, Arrives, BlobRead, framingVars

LEMMA TypesStep ==
    ASSUME FramingTypes, FramingNext \/ UNCHANGED framingVars
    PROVE  FramingTypes'
<1>1. reader' = reader /\ sent' = sent
    BY NothingChanges
<1>2. Stream' = Stream /\ Streaming'
    BY <1>1, Frozen DEF FramingTypes
<1>3. Len(Stream) \in Nat /\ arrived \in 0..Len(Stream)
    BY StreamTyped DEF FramingTypes
<1>4. ASSUME NEW n, Arrives(n) PROVE arrived' \in 0..Len(Stream) /\ whole' \in BOOLEAN
    BY <1>3, <1>4 DEF Arrives, FramingTypes
<1>5. CASE \E n \in (arrived + 1)..Len(Stream) : Read(n)
    BY <1>1, <1>2, <1>4, <1>5 DEF Read, FramingTypes
<1>6. CASE \E n \in (arrived + 1)..Len(Stream) : FrameArrives(n)
    BY <1>1, <1>2, <1>4, <1>6 DEF FrameArrives, FramingTypes
<1>7. CASE \E i \in DOMAIN reads : BlobRead(i)
    <2>1. reader = "ws"
        BY <1>7 DEF FramingTypes
    <2> QED BY <1>1, <1>2, <1>7, <2>1 DEF BlobRead, FramingTypes
<1>8. CASE UNCHANGED framingVars
    BY <1>1, <1>2, <1>8 DEF framingVars, FramingTypes
<1> QED BY <1>5, <1>6, <1>7, <1>8 DEF FramingNext

\* The invariants of the next state, in terms of this one's stream.
LEMMA NextExact ==
    ASSUME reader' = reader, sent' = sent, NEW buf, NEW del, NEW a, Exact(buf, del, a)
    PROVE  Exact(buf, del, a)'
<1>1. PICK k \in 0..Count : Whole(k, a) /\ buf = Rest(k, a) /\ del = Said(0, k)
    BY DEF Exact
<1>2. Whole(k, a)' /\ buf = Rest(k, a)' /\ del = Said(0, k)'
    BY <1>1, FrozenToo
<1> QED BY <1>2 DEF Exact

LEMMA NextApart ==
    ASSUME reader' = reader, sent' = sent,
           Plainly /\ apart' => ApartOf(reads', buffer', delivered', arrived')
    PROVE  ApartInv'
<1>1. PICK rds, buf, del, n : rds = reads' /\ buf = buffer' /\ del = delivered' /\ n = arrived'
    OBVIOUS
<1>2. Stream' = Stream /\ (Plainly' <=> Plainly)
    BY Frozen
<1>3. ASSUME Plainly, apart' PROVE ApartOf(rds, buf, del, n)'
    <2>1. ApartOf(rds, buf, del, n)
        BY <1>1, <1>3
    <2>2. CASE rds = <<>> /\ Exact(buf, del, n)
        <3>1. Exact(buf, del, n)'
            BY <2>2, NextExact
        <3> QED BY <2>2, <3>1 DEF ApartOf
    <2>3. ASSUME NEW a \in 0..n, rds = <<FrameRead(buf, a, n)>>, Exact(buf, del, a)
          PROVE  ApartOf(rds, buf, del, n)'
        <3>1. Exact(buf, del, a)'
            BY <2>3, NextExact
        <3>2. FrameRead(buf, a, n)' = FrameRead(buf, a, n)
            BY <1>2 DEF FrameRead
        <3> QED BY <2>3, <3>1, <3>2 DEF ApartOf
    <2> QED BY <2>1, <2>2, <2>3 DEF ApartOf
<1> QED BY <1>1, <1>2, <1>3 DEF ApartInv

LEMMA NextWhole ==
    ASSUME reader' = reader, sent' = sent,
           Plainly /\ reader = "ws" /\ whole' =>
               buffer' = <<>> /\ \E c \in 0..Count : \E r, X, Y :
                                   WholeOf(reads', delivered', arrived', c, r, X, Y)
    PROVE  WholeInv'
<1>1. PICK rds, del, n : rds = reads' /\ del = delivered' /\ n = arrived'
    OBVIOUS
<1>2. /\ \A k : Frames(k)' = Frames(k)
      /\ \A i : Text(i)' = Text(i)
      /\ Stream' = Stream /\ (Plainly' <=> Plainly) /\ All' = All
    BY Frozen, FrozenToo
<1>3. \A buf, a, e : FrameRead(buf, a, e)' = FrameRead(buf, a, e)
    BY <1>2 DEF FrameRead
<1>4. ASSUME NEW c, NEW r, NEW X, NEW Y, WholeOf(rds, del, n, c, r, X, Y)
      PROVE  WholeOf(rds, del, n, c, r, X, Y)'
    BY <1>2, <1>3, <1>4 DEF WholeOf
<1> QED BY <1>1, <1>2, <1>4 DEF WholeInv

\* A reader that has no frames.
LEMMA ReadNarrow ==
    ASSUME NarrowInv, NEW n \in (arrived + 1)..Len(Stream), Read(n)
    PROVE  ApartInv' /\ WholeInv'
<1>1. reader' = reader /\ sent' = sent /\ reader # "ws" /\ reads = <<>> /\ reads' = <<>> /\ arrived' = n
    BY DEF Read, Arrives, NarrowInv, FramingTypes
<1>2. WholeInv'
    BY <1>1, NextWhole
<1>3. ASSUME Plainly PROVE Exact(buffer', delivered', n)
    <2>1. Exact(buffer, delivered, arrived)
        BY <1>1, <1>3 DEF NarrowInv, FramingTypes, ApartInv, ApartOf
    <2>2. arrived \in 0..Len(Stream) /\ n \in arrived..Len(Stream)
        BY <1>3, StreamTyped DEF NarrowInv, FramingTypes, Plainly
    <2>3. LET c == Consume(buffer \o Chars(SubSeq(Stream, arrived + 1, n)))
          IN  Exact(c.rest, delivered \o c.out, n)
        BY <1>3, <2>1, <2>2, ExactNext
    <2> QED BY <2>3 DEF Read, Chunk
<1>4. ApartInv'
    BY <1>1, <1>3, NextApart DEF ApartOf
<1> QED BY <1>2, <1>4

LEMMA FrameApart ==
    ASSUME NarrowInv, NEW n \in (arrived + 1)..Len(Stream), FrameArrives(n)
    PROVE  ApartInv'
<1>1. /\ reader' = reader /\ sent' = sent /\ arrived' = n /\ buffer' = buffer /\ delivered' = delivered
      /\ reads' = Append(reads, [held |-> buffer, chunk |-> Chars(SubSeq(Stream, arrived + 1, n))])
      /\ apart' = (apart /\ reads = <<>>)
    BY DEF FrameArrives, Arrives, Chunk
<1>2. ASSUME Plainly, apart' PROVE ApartOf(reads', buffer', delivered', arrived')
    <2>1. reads = <<>> /\ apart
        BY <1>1, <1>2
    <2>2. Exact(buffer, delivered, arrived)
        BY <1>2, <2>1 DEF NarrowInv, ApartInv, ApartOf
    <2>3. arrived \in Nat /\ n \in Nat /\ arrived <= n /\ n <= Len(Stream) /\ arrived \in 0..n
        BY <1>2, StreamTyped DEF NarrowInv, FramingTypes, Plainly
    <2>4. Chars(SubSeq(Stream, arrived + 1, n)) = SubSeq(Stream, arrived + 1, n)
        BY <1>2, <2>3, ChunkIs
    <2>5. PICK e : e = FrameRead(buffer, arrived, n)
        OBVIOUS
    <2>6. reads' = <<e>>
        <3>1. reads' = Append(<<>>, e)
            BY <1>1, <2>1, <2>4, <2>5, Zenon DEF FrameRead
        <3> QED BY <3>1
    <2> QED BY <1>1, <2>2, <2>3, <2>5, <2>6 DEF ApartOf
<1> QED BY <1>1, <1>2, NextApart

LEMMA BlobApart ==
    ASSUME NarrowInv, NEW i \in DOMAIN reads, BlobRead(i)
    PROVE  ApartInv'
<1>1. /\ reader' = reader /\ sent' = sent /\ arrived' = arrived /\ apart' = apart
      /\ reads' = RemoveAt(reads, i)
      /\ buffer' = Consume(reads[i].held \o reads[i].chunk).rest
      /\ delivered' = delivered \o Consume(reads[i].held \o reads[i].chunk).out
    BY DEF BlobRead, Held
<1>2. ASSUME Plainly, apart' PROVE ApartOf(reads', buffer', delivered', arrived')
    <2>1. reads # <<>>
        OBVIOUS
    <2>2. PICK a \in 0..arrived : reads = <<FrameRead(buffer, a, arrived)>> /\ Exact(buffer, delivered, a)
        BY <1>1, <1>2, <2>1 DEF NarrowInv, ApartInv, ApartOf
    <2>3. PICK e : e = FrameRead(buffer, a, arrived)
        OBVIOUS
    <2>4. reads = <<e>> /\ i = 1 /\ reads[i] = e
        BY <2>2, <2>3
    <2>5. e.held = buffer /\ e.chunk = SubSeq(Stream, a + 1, arrived)
        BY <2>3 DEF FrameRead
    <2>6. a \in 0..Len(Stream) /\ arrived \in a..Len(Stream) /\ a \in Nat /\ arrived \in Nat
          /\ a <= arrived /\ arrived <= Len(Stream)
        BY <1>2, StreamTyped DEF NarrowInv, FramingTypes, Plainly
    <2>7. Chars(SubSeq(Stream, a + 1, arrived)) = SubSeq(Stream, a + 1, arrived)
        BY <1>2, <2>6, ChunkIs
    <2>8. LET c == Consume(buffer \o Chars(SubSeq(Stream, a + 1, arrived)))
          IN  Exact(c.rest, delivered \o c.out, arrived)
        BY <1>2, <2>2, <2>6, ExactNext
    <2>9. Exact(buffer', delivered', arrived)
        BY <1>1, <2>4, <2>5, <2>7, <2>8, Zenon
    <2>10. RemoveAt(<<e>>, 1) = <<>>
        <3>1. SubSeq(<<e>>, 1, 0) = <<>> /\ SubSeq(<<e>>, 2, 1) = <<>>
            BY SubSeqEmpty
        <3>2. Len(<<e>>) = 1 /\ 1 - 1 = 0 /\ 1 + 1 = 2 /\ <<>> \o <<>> = <<>>
            OBVIOUS
        <3> QED BY <3>1, <3>2, Zenon DEF RemoveAt
    <2> QED BY <1>1, <2>4, <2>9, <2>10 DEF ApartOf
<1> QED BY <1>1, <1>2, NextApart

-----------------------------------------------------------------------------
(* Whole frames.                                                            *)

LEMMA AppendIs ==
    ASSUME NEW r \in Nat, NEW F, NEW e
    PROVE  Append([j \in 1..r |-> F[j]], e) = [j \in 1..(r + 1) |-> IF j = r + 1 THEN e ELSE F[j]]
<1> DEFINE S == {F[j] : j \in 1..r} \cup {e}
           s == [j \in 1..r |-> F[j]]
           t == [j \in 1..(r + 1) |-> IF j = r + 1 THEN e ELSE F[j]]
<1>1. s \in [1..r -> S] /\ t \in [1..(r + 1) -> S] /\ e \in S
    OBVIOUS
<1>2. \A j \in 1..r : s[j] = F[j]
    OBVIOUS
<1>3. \A j \in 1..(r + 1) : t[j] = IF j = r + 1 THEN e ELSE F[j]
    OBVIOUS
<1> HIDE DEF S, s, t
<1>4. s \in Seq(S) /\ Len(s) = r /\ t \in Seq(S) /\ Len(t) = r + 1
    BY <1>1, IsSequence
<1>5. PICK u : u = Append(s, e)
    OBVIOUS
<1>6. /\ u \in Seq(S) /\ Len(u) = r + 1 /\ (\A j \in 1..r : u[j] = s[j]) /\ u[r + 1] = e
    BY <1>1, <1>4, <1>5, AppendProperties
<1>7. \A j \in 1..(r + 1) : u[j] = t[j]
    BY <1>2, <1>3, <1>6
<1>8. u = t
    BY <1>4, <1>6, <1>7, SeqEqual
<1> QED BY <1>5, <1>8 DEF s, t

\* The place in a sequence of what is at j once the i-th element is removed.
Before(i, j) == IF j < i THEN j ELSE j + 1

LEMMA BeforeIs ==
    ASSUME NEW r \in Nat, NEW i \in 1..r
    PROVE  /\ r - 1 \in Nat
           /\ \A j \in 1..(r - 1) : Before(i, j) \in 1..r /\ Before(i, j) # i
           /\ \A j, k \in 1..(r - 1) : j # k => Before(i, j) # Before(i, k)
           /\ \A k \in 1..r : k # i => \E j \in 1..(r - 1) : Before(i, j) = k
<1>1. \A j \in 1..(r - 1) : Before(i, j) \in 1..r /\ Before(i, j) # i
    BY DEF Before
<1>2. \A j, k \in 1..(r - 1) : j # k => Before(i, j) # Before(i, k)
    BY DEF Before
<1>3. ASSUME NEW k \in 1..r, k # i PROVE \E j \in 1..(r - 1) : Before(i, j) = k
    <2>1. CASE k < i
        BY <2>1 DEF Before
    <2>2. CASE ~(k < i)
        <3>1. k - 1 \in 1..(r - 1) /\ Before(i, k - 1) = k
            BY <1>3, <2>2 DEF Before
        <3> QED BY <3>1
    <2> QED BY <2>1, <2>2
<1> QED BY <1>1, <1>2, <1>3

LEMMA RemoveAtIs ==
    ASSUME NEW r \in Nat, NEW F, NEW i \in 1..r
    PROVE  RemoveAt([j \in 1..r |-> F[j]], i) = [j \in 1..(r - 1) |-> F[Before(i, j)]]
<1> DEFINE S == {F[j] : j \in 1..r}
           s == [j \in 1..r |-> F[j]]
           t == [j \in 1..(r - 1) |-> F[Before(i, j)]]
<1>0. r - 1 \in Nat /\ \A j \in 1..(r - 1) : Before(i, j) \in 1..r
    BY BeforeIs
<1>1. s \in [1..r -> S] /\ t \in [1..(r - 1) -> S]
    BY <1>0
<1>2. \A j \in 1..r : s[j] = F[j]
    OBVIOUS
<1>3. \A j \in 1..(r - 1) : t[j] = F[Before(i, j)]
    OBVIOUS
<1> HIDE DEF S, s, t
<1>4. s \in Seq(S) /\ Len(s) = r /\ t \in Seq(S) /\ Len(t) = r - 1
    BY <1>0, <1>1, IsSequence
<1>5. PICK u, v : u = SubSeq(s, 1, i - 1) /\ v = SubSeq(s, i + 1, r)
    OBVIOUS
<1>6. u \in Seq(S) /\ Len(u) = i - 1 /\ \A j \in 1..(i - 1) : u[j] = s[j]
    <2>1. 0 \in Nat /\ i - 1 \in Nat /\ 0 <= i - 1 /\ i - 1 <= r /\ 0 + 1 = 1
        OBVIOUS
    <2>2. SubSeq(s, 0 + 1, i - 1) = u
        BY <1>5, <2>1
    <2>3. /\ u \in Seq(S) /\ Len(u) = (i - 1) - 0
          /\ \A j \in 1..((i - 1) - 0) : u[j] = s[0 + j]
        BY <1>4, <2>1, <2>2, PartIs
    <2> QED BY <2>3
<1>7. v \in Seq(S) /\ Len(v) = r - i /\ \A j \in 1..(r - i) : v[j] = s[i + j]
    <2>1. i \in Nat /\ i <= r
        OBVIOUS
    <2> QED BY <1>4, <1>5, <2>1, PartIs
<1>8. PICK w : w = u \o v
    OBVIOUS
<1>9. /\ w \in Seq(S) /\ Len(w) = Len(u) + Len(v)
      /\ \A j \in 1..(Len(u) + Len(v)) : w[j] = IF j <= Len(u) THEN u[j] ELSE v[j - Len(u)]
    BY <1>6, <1>7, <1>8, ConcatProperties
<1>10. Len(u) + Len(v) = r - 1
    BY <1>6, <1>7
<1>11. ASSUME NEW j \in 1..(r - 1) PROVE w[j] = t[j]
    <2>1. CASE j < i
        <3>1. j \in 1..(i - 1) /\ j <= Len(u) /\ j \in 1..r
            BY <1>6, <2>1
        <3>2. Before(i, j) = j
            BY <2>1 DEF Before
        <3>3. w[j] = u[j]
            BY <1>9, <1>10, <3>1
        <3>4. u[j] = s[j]
            BY <1>6, <3>1
        <3>5. s[j] = F[j] /\ t[j] = F[Before(i, j)]
            BY <1>2, <1>3, <3>1, Zenon
        <3> QED BY <3>2, <3>3, <3>4, <3>5, Zenon
    <2>2. CASE ~(j < i)
        <3>1. /\ ~(j <= Len(u)) /\ j - Len(u) \in 1..(r - i) /\ i + (j - Len(u)) = j + 1 /\ j + 1 \in 1..r
            BY <1>6, <2>2
        <3>2. Before(i, j) = j + 1
            BY <2>2 DEF Before
        <3>3. w[j] = v[j - Len(u)]
            BY <1>9, <1>10, <3>1
        <3>4. v[j - Len(u)] = s[j + 1]
            BY <1>7, <3>1
        <3>5. s[j + 1] = F[j + 1] /\ t[j] = F[Before(i, j)]
            BY <1>2, <1>3, <3>1, Zenon
        <3> QED BY <3>2, <3>3, <3>4, <3>5, Zenon
    <2> QED BY <2>1, <2>2
<1>12. w = t
    BY <1>4, <1>9, <1>10, <1>11, SeqEqual
<1>13. RemoveAt(s, i) = w
    BY <1>4, <1>5, <1>8, Zenon DEF RemoveAt
<1> QED BY <1>12, <1>13 DEF s, t

\* One frame more, of the messages that arrive in it.
More(X, r, x) == [i \in 1..(r + 1) |-> IF i = r + 1 THEN x ELSE X[i]]

LEMMA MoreIs ==
    ASSUME NEW r \in Nat, NEW X, NEW x
    PROVE  /\ r + 1 \in Nat /\ r + 1 \in 1..(r + 1)
           /\ \A i \in 1..(r + 1) : i \in 1..r \/ i = r + 1
           /\ \A i \in 1..r : i \in 1..(r + 1) /\ i # r + 1
           /\ \A i \in 1..r : More(X, r, x)[i] = X[i]
           /\ More(X, r, x)[r + 1] = x
           /\ \A S : X \in [1..r -> S] /\ x \in S => More(X, r, x) \in [1..(r + 1) -> S]
<1>1. r + 1 \in Nat /\ r + 1 \in 1..(r + 1)
    OBVIOUS
<1>2. \A i \in 1..(r + 1) : i \in 1..r \/ i = r + 1
    OBVIOUS
<1>3. \A i \in 1..r : i \in 1..(r + 1) /\ i # r + 1
    OBVIOUS
<1>4. \A i \in 1..(r + 1) : More(X, r, x)[i] = IF i = r + 1 THEN x ELSE X[i]
    BY DEF More
<1>5. ASSUME NEW S, X \in [1..r -> S], x \in S PROVE More(X, r, x) \in [1..(r + 1) -> S]
    <2>1. \A i \in 1..(r + 1) : (IF i = r + 1 THEN x ELSE X[i]) \in S
        BY <1>2, <1>5
    <2> QED BY <2>1 DEF More
<1> QED BY <1>1, <1>2, <1>3, <1>4, <1>5

LEMMA UnreadMore ==
    ASSUME NEW r \in Nat, NEW X, NEW Y, NEW x, NEW y
    PROVE  Unread(More(X, r, x), More(Y, r, y), r + 1) = Unread(X, Y, r) \cup Part(x, y)
<1>1. PICK V, W : V = More(X, r, x) /\ W = More(Y, r, y)
    OBVIOUS
<1>2. /\ r + 1 \in 1..(r + 1)
      /\ \A i \in 1..(r + 1) : i \in 1..r \/ i = r + 1
      /\ \A i \in 1..r : i \in 1..(r + 1)
    BY MoreIs
<1>3. /\ \A i \in 1..r : Part(V[i], W[i]) = Part(X[i], Y[i])
      /\ Part(V[r + 1], W[r + 1]) = Part(x, y)
    BY <1>1, MoreIs
<1>4. UNION {Part(V[i], W[i]) : i \in 1..(r + 1)} = (UNION {Part(X[i], Y[i]) : i \in 1..r}) \cup Part(x, y)
    <2>1. ASSUME NEW m, m \in UNION {Part(V[i], W[i]) : i \in 1..(r + 1)}
          PROVE  m \in (UNION {Part(X[i], Y[i]) : i \in 1..r}) \cup Part(x, y)
        <3>1. PICK i \in 1..(r + 1) : m \in Part(V[i], W[i])
            BY <2>1
        <3>2. CASE i \in 1..r
            <4>1. m \in Part(X[i], Y[i])
                BY <1>3, <3>1, <3>2, Zenon
            <4> QED BY <3>2, <4>1, Zenon
        <3>3. CASE i = r + 1
            <4>1. m \in Part(x, y)
                BY <1>3, <3>1, <3>3, Zenon
            <4> QED BY <4>1, Zenon
        <3> QED BY <1>2, <3>2, <3>3
    <2>2. ASSUME NEW i \in 1..r PROVE Part(X[i], Y[i]) \subseteq UNION {Part(V[j], W[j]) : j \in 1..(r + 1)}
        <3>1. i \in 1..(r + 1) /\ Part(V[i], W[i]) = Part(X[i], Y[i])
            BY <1>2, <1>3
        <3> QED BY <3>1
    <2>3. Part(x, y) \subseteq UNION {Part(V[j], W[j]) : j \in 1..(r + 1)}
        BY <1>2, <1>3
    <2> QED BY <2>1, <2>2, <2>3, Zenon
<1>5. Unread(V, W, r + 1) = Unread(X, Y, r) \cup Part(x, y)
    BY <1>4, Zenon DEF Unread
<1> QED BY <1>1, <1>5, Zenon

LEMMA UnreadBelow ==
    ASSUME NEW r \in Nat, NEW c \in Nat, NEW n \in Nat, NEW X \in [1..r -> 0..n], NEW Y \in [1..r -> 0..c]
    PROVE  Unread(X, Y, r) \subseteq 1..c
<1>1. ASSUME NEW i \in 1..r PROVE Part(X[i], Y[i]) \subseteq 1..c
    <2>1. X[i] \in 0..n /\ Y[i] \in 0..c
        OBVIOUS
    <2> QED BY <2>1 DEF Part
<1> QED BY <1>1 DEF Unread

LEMMA FrameMore ==
    ASSUME Streaming, NEW c \in 0..Count, NEW k \in 0..Count, c <= k,
           NEW rds, NEW del, NEW n, NEW r, NEW X, NEW Y, WholeOf(rds, del, n, c, r, X, Y)
    PROVE  WholeOf(Append(rds, FrameRead(<<>>, Len(Frames(c)), Len(Frames(k)))), del, Len(Frames(k)), k,
                   r + 1, More(X, r, c), More(Y, r, k))
<1>1. /\ r \in Nat /\ X \in [1..r -> 0..Count] /\ Y \in [1..r -> 0..c]
      /\ \A i \in 1..r : X[i] <= Y[i]
      /\ \A i, j \in 1..r : i # j => Part(X[i], Y[i]) \cap Part(X[j], Y[j]) = {}
      /\ del \in Seq(All) /\ Len(del) = Cardinality((1..c) \ Unread(X, Y, r))
      /\ \A m \in (1..c) \ Unread(X, Y, r) : \E d \in 1..Len(del) : del[d] = Text(m)
      /\ rds = [i \in 1..r |-> FrameRead(<<>>, Len(Frames(X[i])), Len(Frames(Y[i])))]
    BY DEF WholeOf
<1>0. r \in Nat
    BY <1>1
<1>2. PICK V, W : V = More(X, r, c) /\ W = More(Y, r, k)
    OBVIOUS
<1>3. Count \in Nat /\ c \in Nat /\ k \in Nat
    BY StreamTyped
<1>4. /\ r + 1 \in Nat
      /\ \A i \in 1..(r + 1) : i \in 1..r \/ i = r + 1
      /\ \A i \in 1..r : i \in 1..(r + 1) /\ i # r + 1
      /\ \A i \in 1..r : V[i] = X[i]
      /\ \A i \in 1..r : W[i] = Y[i]
      /\ V[r + 1] = c /\ W[r + 1] = k
    <2>1. (\A i \in 1..r : V[i] = X[i]) /\ V[r + 1] = c
        <3>1. (\A i \in 1..r : More(X, r, c)[i] = X[i]) /\ More(X, r, c)[r + 1] = c
            BY <1>0, MoreIs
        <3> QED BY <1>2, <3>1, Zenon
    <2>2. (\A i \in 1..r : W[i] = Y[i]) /\ W[r + 1] = k
        <3>1. (\A i \in 1..r : More(Y, r, k)[i] = Y[i]) /\ More(Y, r, k)[r + 1] = k
            BY <1>0, MoreIs
        <3> QED BY <1>2, <3>1, Zenon
    <2>3. /\ r + 1 \in Nat
          /\ \A i \in 1..(r + 1) : i \in 1..r \/ i = r + 1
          /\ \A i \in 1..r : i \in 1..(r + 1) /\ i # r + 1
        BY <1>0, MoreIs
    <2> QED BY <2>1, <2>2, <2>3
<1>5. V \in [1..(r + 1) -> 0..Count] /\ W \in [1..(r + 1) -> 0..k]
    <2>1. Y \in [1..r -> 0..k] /\ k \in 0..k
        BY <1>1, <1>3
    <2> QED BY <1>1, <1>2, <2>1, MoreIs
<1>6. \A i \in 1..(r + 1) : V[i] <= W[i]
    BY <1>1, <1>4
<1>7. Unread(X, Y, r) \subseteq 1..c
    BY <1>1, <1>3, UnreadBelow
<1>8. \A i \in 1..r : Part(X[i], Y[i]) \cap Part(c, k) = {}
    <2>1. (1..c) \cap Part(c, k) = {}
        BY <1>3 DEF Part
    <2>2. \A i \in 1..r : Part(X[i], Y[i]) \subseteq Unread(X, Y, r)
        BY DEF Unread
    <2> QED BY <1>7, <2>1, <2>2
<1>9. \A i, j \in 1..(r + 1) : i # j => Part(V[i], W[i]) \cap Part(V[j], W[j]) = {}
    BY <1>1, <1>4, <1>8
<1>10. (1..k) \ Unread(V, W, r + 1) = (1..c) \ Unread(X, Y, r)
    <2>1. Unread(V, W, r + 1) = Unread(X, Y, r) \cup Part(c, k)
        <3>1. Unread(More(X, r, c), More(Y, r, k), r + 1) = Unread(X, Y, r) \cup Part(c, k)
            BY <1>1, UnreadMore
        <3> QED BY <1>2, <3>1, Zenon
    <2>2. 1..k = (1..c) \cup Part(c, k) /\ (1..c) \cap Part(c, k) = {}
        BY <1>3 DEF Part
    <2> QED BY <1>7, <2>1, <2>2
<1>11. Append(rds, FrameRead(<<>>, Len(Frames(c)), Len(Frames(k))))
           = [i \in 1..(r + 1) |-> FrameRead(<<>>, Len(Frames(V[i])), Len(Frames(W[i])))]
    <2> DEFINE F == [i \in 1..r |-> FrameRead(<<>>, Len(Frames(X[i])), Len(Frames(Y[i])))]
    <2>1. PICK e : e = FrameRead(<<>>, Len(Frames(c)), Len(Frames(k)))
        OBVIOUS
    <2>2. [i \in 1..r |-> F[i]] = F
        OBVIOUS
    <2>3. \A i \in 1..r : F[i] = FrameRead(<<>>, Len(Frames(V[i])), Len(Frames(W[i])))
        BY <1>4
    <2>4. rds = F
        BY <1>1
    <2> HIDE DEF F
    <2>5. Append(rds, e) = [i \in 1..(r + 1) |-> IF i = r + 1 THEN e ELSE F[i]]
        BY <1>1, <2>2, <2>4, AppendIs
    <2>6. \A i \in 1..(r + 1) : (IF i = r + 1 THEN e ELSE F[i])
                                    = FrameRead(<<>>, Len(Frames(V[i])), Len(Frames(W[i])))
        BY <1>4, <2>1, <2>3
    <2> QED BY <2>1, <2>5, <2>6
<1>12. WholeOf(Append(rds, FrameRead(<<>>, Len(Frames(c)), Len(Frames(k)))), del, Len(Frames(k)), k, r + 1, V, W)
    BY <1>1, <1>4, <1>5, <1>6, <1>9, <1>10, <1>11 DEF WholeOf
<1> QED BY <1>2, <1>12

LEMMA FrameWhole ==
    ASSUME NarrowInv, NEW n \in (arrived + 1)..Len(Stream), FrameArrives(n)
    PROVE  WholeInv'
<1>1. /\ reader' = reader /\ sent' = sent /\ arrived' = n /\ buffer' = buffer /\ delivered' = delivered
      /\ reads' = Append(reads, [held |-> buffer, chunk |-> Chars(SubSeq(Stream, arrived + 1, n))])
      /\ whole' = (whole /\ \E k \in 1..Count : n = Len(Frames(k)))
    BY DEF FrameArrives, Arrives, Chunk
<1>2. ASSUME Plainly, reader = "ws", whole'
      PROVE  buffer' = <<>> /\ \E c \in 0..Count : \E r, X, Y :
                                   WholeOf(reads', delivered', arrived', c, r, X, Y)
    <2>0. Streaming
        BY <1>2 DEF Plainly
    <2>1. whole /\ buffer = <<>>
        BY <1>1, <1>2 DEF NarrowInv, WholeInv
    <2>2. PICK c \in 0..Count : \E r, X, Y : WholeOf(reads, delivered, arrived, c, r, X, Y)
        BY <1>2, <2>1 DEF NarrowInv, WholeInv
    <2>3. PICK r, X, Y : WholeOf(reads, delivered, arrived, c, r, X, Y)
        BY <2>2
    <2>4. PICK k \in 1..Count : n = Len(Frames(k))
        BY <1>1, <1>2
    <2>5. arrived = Len(Frames(c))
        BY <2>3 DEF WholeOf
    <2>6. k \in 0..Count /\ c \in Nat /\ k \in Nat /\ arrived \in Nat /\ n \in Nat
          /\ arrived < n /\ n <= Len(Stream)
        BY <2>0, StreamTyped DEF NarrowInv, FramingTypes
    <2>7. c <= k
        <3>1. k <= c => Len(Frames(k)) <= Len(Frames(c))
            <4>1. k <= c => c \in k..Count
                BY <2>6
            <4> QED BY <2>0, <2>6, <4>1, FramesPrefix
        <3> QED BY <2>4, <2>5, <2>6, <3>1
    <2>8. Chars(SubSeq(Stream, arrived + 1, n)) = SubSeq(Stream, arrived + 1, n)
        BY <1>2, <2>6, ChunkIs
    <2>9. [held |-> buffer, chunk |-> Chars(SubSeq(Stream, arrived + 1, n))]
              = FrameRead(<<>>, Len(Frames(c)), Len(Frames(k)))
        BY <2>1, <2>4, <2>5, <2>8, Zenon DEF FrameRead
    <2>10. reads' = Append(reads, FrameRead(<<>>, Len(Frames(c)), Len(Frames(k))))
        BY <1>1, <2>9, Zenon
    <2>11. WholeOf(reads', delivered', arrived', k, r + 1, More(X, r, c), More(Y, r, k))
        <3>1. WholeOf(Append(reads, FrameRead(<<>>, Len(Frames(c)), Len(Frames(k)))), delivered, Len(Frames(k)), k,
                      r + 1, More(X, r, c), More(Y, r, k))
            BY <2>0, <2>3, <2>6, <2>7, FrameMore
        <3> QED BY <1>1, <2>4, <2>10, <3>1, Zenon
    <2> QED BY <1>1, <2>1, <2>6, <2>11, Zenon
<1> QED BY <1>1, <1>2, NextWhole

\* One frame less, whose messages are delivered.
Fewer(X, r, i) == [j \in 1..(r - 1) |-> X[Before(i, j)]]

LEMMA FewerIs ==
    ASSUME NEW r \in Nat, NEW X, NEW i \in 1..r
    PROVE  /\ \A j \in 1..(r - 1) : Fewer(X, r, i)[j] = X[Before(i, j)]
           /\ \A S : X \in [1..r -> S] => Fewer(X, r, i) \in [1..(r - 1) -> S]
<1>1. \A j \in 1..(r - 1) : Before(i, j) \in 1..r
    BY BeforeIs
<1> QED BY <1>1 DEF Fewer

Disjoint(X, Y, r) == \A j, k \in 1..r : j # k => Part(X[j], Y[j]) \cap Part(X[k], Y[k]) = {}

LEMMA UnreadFewer ==
    ASSUME NEW r \in Nat, NEW X, NEW Y, NEW i \in 1..r, Disjoint(X, Y, r)
    PROVE  Unread(Fewer(X, r, i), Fewer(Y, r, i), r - 1) = Unread(X, Y, r) \ Part(X[i], Y[i])
<1>1. PICK V, W : V = Fewer(X, r, i) /\ W = Fewer(Y, r, i)
    OBVIOUS
<1>2. \A j \in 1..(r - 1) : Part(V[j], W[j]) = Part(X[Before(i, j)], Y[Before(i, j)])
    <2>1. \A j \in 1..(r - 1) : Fewer(X, r, i)[j] = X[Before(i, j)]
        BY FewerIs
    <2>2. \A j \in 1..(r - 1) : Fewer(Y, r, i)[j] = Y[Before(i, j)]
        BY FewerIs
    <2> QED BY <1>1, <2>1, <2>2, Zenon
<1>3. /\ \A j \in 1..(r - 1) : Before(i, j) \in 1..r /\ Before(i, j) # i
      /\ \A k \in 1..r : k # i => \E j \in 1..(r - 1) : Before(i, j) = k
    BY BeforeIs
<1>4. ASSUME NEW m \in Unread(V, W, r - 1) PROVE m \in Unread(X, Y, r) \ Part(X[i], Y[i])
    <2>1. PICK j \in 1..(r - 1) : m \in Part(V[j], W[j])
        BY <1>4 DEF Unread
    <2>2. PICK k \in 1..r : k = Before(i, j) /\ k # i
        BY <1>3
    <2>3. m \in Part(X[k], Y[k])
        BY <1>2, <2>1, <2>2, Zenon
    <2>4. m \notin Part(X[i], Y[i])
        BY <2>2, <2>3 DEF Disjoint
    <2>5. m \in Unread(X, Y, r)
        BY <2>3, Zenon DEF Unread
    <2> QED BY <2>4, <2>5
<1>5. ASSUME NEW m \in Unread(X, Y, r), m \notin Part(X[i], Y[i]) PROVE m \in Unread(V, W, r - 1)
    <2>1. PICK k \in 1..r : m \in Part(X[k], Y[k])
        BY <1>5 DEF Unread
    <2>2. k # i
        BY <1>5, <2>1
    <2>3. PICK j \in 1..(r - 1) : Before(i, j) = k
        BY <1>3, <2>2
    <2>4. m \in Part(V[j], W[j])
        BY <1>2, <2>1, <2>3, Zenon
    <2> QED BY <2>4, Zenon DEF Unread
<1>6. Unread(V, W, r - 1) = Unread(X, Y, r) \ Part(X[i], Y[i])
    BY <1>4, <1>5
<1> QED BY <1>1, <1>6, Zenon

LEMMA MoreOf ==
    ASSUME NEW x \in Nat, NEW y \in Nat, x <= y, NEW A, IsFiniteSet(A),
           NEW B, B = Part(x, y), A \cap B = {}
    PROVE  Cardinality(A \cup B) = Cardinality(A) + (y - x)
<1>1. Cardinality(A) \in Nat
    BY FS_CardinalityType
<1>2. IsFiniteSet(B) /\ Cardinality(B) = y - x
    <2>1. x + 1 \in Int /\ y \in Int
        OBVIOUS
    <2>2. IsFiniteSet((x + 1)..y) /\ Cardinality((x + 1)..y) = IF x + 1 > y THEN 0 ELSE y - (x + 1) + 1
        BY <2>1, FS_Interval
    <2>3. (IF x + 1 > y THEN 0 ELSE y - (x + 1) + 1) = y - x
        OBVIOUS
    <2> QED BY <2>2, <2>3 DEF Part
<1>3. Cardinality(A \cup B) = Cardinality(A) + Cardinality(B) - Cardinality({})
    BY <1>1, <1>2, FS_Union
<1>4. Cardinality({}) = 0
    BY FS_EmptySet
<1> QED BY <1>1, <1>2, <1>3, <1>4

LEMMA SaidJoined ==
    ASSUME Streaming, NEW del \in Seq(All), NEW x \in Nat, NEW y \in x..Count
    PROVE  /\ del \o Said(x, y) \in Seq(All) /\ Len(del \o Said(x, y)) = Len(del) + (y - x)
           /\ \A d \in 1..Len(del) : d \in 1..(Len(del) + (y - x)) /\ (del \o Said(x, y))[d] = del[d]
           /\ \A m \in Part(x, y) : \E d \in 1..(Len(del) + (y - x)) : (del \o Said(x, y))[d] = Text(m)
<1>1. PICK s, w : s = Said(x, y) /\ w = del \o Said(x, y)
    OBVIOUS
<1>2. /\ s \in Seq(All) /\ Len(s) = y - x /\ y - x \in Nat
      /\ \A i \in 1..(y - x) : s[i] = Text(x + i)
    BY <1>1, SaidIs
<1>3. /\ w \in Seq(All) /\ Len(w) = Len(del) + Len(s)
      /\ \A i \in 1..(Len(del) + Len(s)) : w[i] = IF i <= Len(del) THEN del[i] ELSE s[i - Len(del)]
    BY <1>1, <1>2, ConcatProperties
<1>4. Len(del) \in Nat /\ y \in Nat
    BY LenProperties, StreamTyped
<1>5. \A d \in 1..Len(del) : d \in 1..(Len(del) + (y - x)) /\ w[d] = del[d]
    BY <1>2, <1>3, <1>4
<1>6. ASSUME NEW m \in Part(x, y) PROVE \E d \in 1..(Len(del) + (y - x)) : w[d] = Text(m)
    <2>1. m \in Nat /\ m - x \in 1..(y - x) /\ x + (m - x) = m
        BY <1>4 DEF Part
    <2>2. PICK d : d = Len(del) + (m - x)
        OBVIOUS
    <2>3. d \in 1..(Len(del) + (y - x)) /\ ~(d <= Len(del)) /\ d - Len(del) = m - x
        BY <1>2, <1>4, <2>1, <2>2
    <2>4. w[d] = s[m - x]
        BY <1>2, <1>3, <2>3
    <2>5. w[d] = Text(m)
        BY <1>2, <2>1, <2>4
    <2> QED BY <2>3, <2>5
<1> QED BY <1>1, <1>2, <1>3, <1>5, <1>6, Zenon

LEMMA BlobMore ==
    ASSUME Streaming, NEW c \in 0..Count, NEW rds, NEW del, NEW n, NEW r, NEW X, NEW Y,
           WholeOf(rds, del, n, c, r, X, Y), NEW i \in 1..r
    PROVE  WholeOf(RemoveAt(rds, i), del \o Said(X[i], Y[i]), n, c, r - 1, Fewer(X, r, i), Fewer(Y, r, i))
<1>1. /\ n = Len(Frames(c))
      /\ r \in Nat /\ X \in [1..r -> 0..Count] /\ Y \in [1..r -> 0..c]
      /\ \A j \in 1..r : X[j] <= Y[j]
      /\ \A j, k \in 1..r : j # k => Part(X[j], Y[j]) \cap Part(X[k], Y[k]) = {}
      /\ del \in Seq(All) /\ Len(del) = Cardinality((1..c) \ Unread(X, Y, r))
      /\ \A m \in (1..c) \ Unread(X, Y, r) : \E d \in 1..Len(del) : del[d] = Text(m)
      /\ rds = [j \in 1..r |-> FrameRead(<<>>, Len(Frames(X[j])), Len(Frames(Y[j])))]
    BY DEF WholeOf
<1>0. r \in Nat /\ i \in 1..r
    BY <1>1
<1>2. PICK V, W : V = Fewer(X, r, i) /\ W = Fewer(Y, r, i)
    OBVIOUS
<1>3. PICK x, y : x = X[i] /\ y = Y[i]
    OBVIOUS
<1>4. /\ Count \in Nat /\ c \in Nat /\ x \in Nat /\ y \in Nat /\ x <= y /\ y <= c /\ y \in x..Count
      /\ X[i] \in Nat /\ Y[i] \in Nat
    <2>1. x \in 0..Count /\ y \in 0..c /\ x <= y
        BY <1>1, <1>3
    <2> QED BY <1>3, <2>1, StreamTyped
<1>5. /\ \A j \in 1..(r - 1) : V[j] = X[Before(i, j)]
      /\ V \in [1..(r - 1) -> 0..Count]
    <2>1. \A j \in 1..(r - 1) : Fewer(X, r, i)[j] = X[Before(i, j)]
        BY <1>0, FewerIs
    <2>2. \A S : X \in [1..r -> S] => Fewer(X, r, i) \in [1..(r - 1) -> S]
        BY <1>0, FewerIs
    <2>3. X \in [1..r -> 0..Count]
        BY <1>1, Zenon
    <2>4. Fewer(X, r, i) \in [1..(r - 1) -> 0..Count]
        BY <2>2, <2>3, Zenon
    <2> QED BY <1>2, <2>1, <2>4, Zenon
<1>6. /\ \A j \in 1..(r - 1) : W[j] = Y[Before(i, j)]
      /\ W \in [1..(r - 1) -> 0..c]
    <2>1. \A j \in 1..(r - 1) : Fewer(Y, r, i)[j] = Y[Before(i, j)]
        BY <1>0, FewerIs
    <2>2. \A S : Y \in [1..r -> S] => Fewer(Y, r, i) \in [1..(r - 1) -> S]
        BY <1>0, FewerIs
    <2>3. Y \in [1..r -> 0..c]
        BY <1>1, Zenon
    <2>4. Fewer(Y, r, i) \in [1..(r - 1) -> 0..c]
        BY <2>2, <2>3, Zenon
    <2> QED BY <1>2, <2>1, <2>4, Zenon
<1>7. /\ r - 1 \in Nat
      /\ \A j \in 1..(r - 1) : Before(i, j) \in 1..r
      /\ \A j, k \in 1..(r - 1) : j # k => Before(i, j) # Before(i, k)
    BY <1>0, BeforeIs
<1>8. \A j \in 1..(r - 1) : V[j] <= W[j]
    <2> TAKE j \in 1..(r - 1)
    <2>1. PICK u \in 1..r : u = Before(i, j)
        BY <1>7, Zenon
    <2>2. V[j] = X[u] /\ W[j] = Y[u]
        BY <1>5, <1>6, <2>1, Zenon
    <2>3. X[u] <= Y[u]
        BY <1>1, Zenon
    <2> QED BY <2>2, <2>3, Zenon
<1>9. \A j, k \in 1..(r - 1) : j # k => Part(V[j], W[j]) \cap Part(V[k], W[k]) = {}
    <2> TAKE j, k \in 1..(r - 1)
    <2>1. PICK u \in 1..r, v \in 1..r : u = Before(i, j) /\ v = Before(i, k) /\ (j # k => u # v)
        BY <1>7, Zenon
    <2>2. u # v => Part(X[u], Y[u]) \cap Part(X[v], Y[v]) = {}
        BY <1>1, Zenon
    <2>3. V[j] = X[u] /\ W[j] = Y[u] /\ V[k] = X[v] /\ W[k] = Y[v]
        BY <1>5, <1>6, <2>1, Zenon
    <2> QED BY <2>1, <2>2, <2>3, Zenon
<1>10. Unread(V, W, r - 1) = Unread(X, Y, r) \ Part(x, y)
    <2>1. Unread(Fewer(X, r, i), Fewer(Y, r, i), r - 1) = Unread(X, Y, r) \ Part(X[i], Y[i])
        <3>1. Disjoint(X, Y, r)
            BY <1>1, Zenon DEF Disjoint
        <3> QED BY <1>0, <3>1, UnreadFewer
    <2> QED BY <1>2, <1>3, <2>1, Zenon
<1>11. Part(x, y) \subseteq Unread(X, Y, r) /\ Part(x, y) \subseteq 1..c
    <2>1. Part(X[i], Y[i]) \subseteq Unread(X, Y, r)
        BY Zenon DEF Unread
    <2>2. Part(x, y) \subseteq 1..c
        BY <1>4 DEF Part
    <2> QED BY <1>3, <2>1, <2>2, Zenon
<1>12. PICK A : A = (1..c) \ Unread(X, Y, r)
    OBVIOUS
<1>13. A \in SUBSET (1..c) /\ A \cap Part(x, y) = {} /\ (1..c) \ Unread(V, W, r - 1) = A \cup Part(x, y)
    BY <1>10, <1>11, <1>12
<1>14. PICK s : s = del \o Said(x, y)
    OBVIOUS
<1>15. /\ s \in Seq(All) /\ Len(s) = Len(del) + (y - x)
       /\ \A d \in 1..Len(del) : d \in 1..Len(s) /\ s[d] = del[d]
       /\ \A m \in Part(x, y) : \E d \in 1..Len(s) : s[d] = Text(m)
    <2>1. /\ s \in Seq(All) /\ Len(s) = Len(del) + (y - x)
          /\ \A d \in 1..Len(del) : d \in 1..(Len(del) + (y - x)) /\ s[d] = del[d]
          /\ \A m \in Part(x, y) : \E d \in 1..(Len(del) + (y - x)) : s[d] = Text(m)
        <3>1. del \in Seq(All) /\ x \in Nat /\ y \in x..Count
            BY <1>1, <1>4
        <3> HIDE DEF All, Said, Part, Text
        <3> QED BY <1>14, <3>1, SaidJoined
    <2> QED BY <2>1, Zenon
<1>16. Len(s) = Cardinality((1..c) \ Unread(V, W, r - 1))
    <2>1. Cardinality(A \cup Part(x, y)) = Cardinality(A) + (y - x)
        <3>1. c \in Nat /\ x \in Nat /\ y \in Nat /\ x <= y
            BY <1>4
        <3>2. IsFiniteSet(A) /\ A \cap Part(x, y) = {}
            <4>1. IsFiniteSet(1..c)
                BY <3>1, FS_Interval
            <4> QED BY <1>13, <4>1, FS_Subset
        <3>3. PICK B : B = Part(x, y)
            OBVIOUS
        <3>4. A \cap B = {}
            BY <3>2, <3>3, Zenon
        <3>5. Cardinality(A \cup B) = Cardinality(A) + (y - x)
            BY <3>1, <3>2, <3>3, <3>4, MoreOf
        <3> QED BY <3>3, <3>5, Zenon
    <2>2. Len(del) = Cardinality(A) /\ Len(s) = Len(del) + (y - x)
        BY <1>1, <1>12, <1>15, Zenon
    <2> QED BY <1>13, <2>1, <2>2, Zenon
<1>17. \A m \in (1..c) \ Unread(V, W, r - 1) : \E d \in 1..Len(s) : s[d] = Text(m)
    <2>1. \A m \in A : \E d \in 1..Len(del) : del[d] = Text(m)
        BY <1>1, <1>12, Zenon
    <2>2. \A m \in A : \E d \in 1..Len(s) : s[d] = Text(m)
        BY <1>15, <2>1, Zenon
    <2> QED BY <1>13, <1>15, <2>2, Zenon
<1>18. RemoveAt(rds, i)
           = [j \in 1..(r - 1) |-> FrameRead(<<>>, Len(Frames(V[j])), Len(Frames(W[j])))]
    <2> DEFINE F == [j \in 1..r |-> FrameRead(<<>>, Len(Frames(X[j])), Len(Frames(Y[j])))]
    <2>1. [j \in 1..r |-> F[j]] = F
        OBVIOUS
    <2>2. \A j \in 1..(r - 1) : F[Before(i, j)] = FrameRead(<<>>, Len(Frames(V[j])), Len(Frames(W[j])))
        BY <1>5, <1>6, <1>7
    <2>3. rds = F
        BY <1>1
    <2> HIDE DEF F
    <2>4. RemoveAt(rds, i) = [j \in 1..(r - 1) |-> F[Before(i, j)]]
        <3>1. RemoveAt([j \in 1..r |-> F[j]], i) = [j \in 1..(r - 1) |-> F[Before(i, j)]]
            BY <1>0, RemoveAtIs
        <3> QED BY <2>1, <2>3, <3>1, Zenon
    <2> QED BY <2>2, <2>4
<1>19. WholeOf(RemoveAt(rds, i), s, n, c, r - 1, V, W)
    BY <1>1, <1>5, <1>6, <1>7, <1>8, <1>9, <1>15, <1>16, <1>17, <1>18 DEF WholeOf
<1> QED BY <1>2, <1>3, <1>14, <1>19, Zenon

LEMMA BlobWhole ==
    ASSUME NarrowInv, NEW i \in DOMAIN reads, BlobRead(i)
    PROVE  WholeInv'
<1>1. /\ reader' = reader /\ sent' = sent /\ arrived' = arrived /\ whole' = whole
      /\ reads' = RemoveAt(reads, i)
      /\ buffer' = Consume(reads[i].held \o reads[i].chunk).rest
      /\ delivered' = delivered \o Consume(reads[i].held \o reads[i].chunk).out
    BY DEF BlobRead, Held
<1>2. ASSUME Plainly, reader = "ws", whole'
      PROVE  buffer' = <<>> /\ \E c \in 0..Count : \E r, X, Y :
                                   WholeOf(reads', delivered', arrived', c, r, X, Y)
    <2>0. Streaming
        BY <1>2 DEF Plainly
    <2>1. PICK c \in 0..Count : \E r, X, Y : WholeOf(reads, delivered, arrived, c, r, X, Y)
        BY <1>1, <1>2 DEF NarrowInv, WholeInv
    <2>2. PICK r, X, Y : WholeOf(reads, delivered, arrived, c, r, X, Y)
        BY <2>1
    <2>3. /\ r \in Nat /\ X \in [1..r -> 0..Count] /\ Y \in [1..r -> 0..c]
          /\ reads = [j \in 1..r |-> FrameRead(<<>>, Len(Frames(X[j])), Len(Frames(Y[j])))]
          /\ \A j \in 1..r : X[j] <= Y[j]
        BY <2>2 DEF WholeOf
    <2>4. i \in 1..r
        BY <2>3
    <2>5. PICK x, y : x = X[i] /\ y = Y[i]
        OBVIOUS
    <2>6. /\ x \in 0..Count /\ y \in x..Count /\ x \in Nat /\ y \in 0..Count
        <3>1. x \in 0..Count /\ y \in 0..c /\ x <= y
            BY <2>3, <2>4, <2>5
        <3> QED BY <2>0, <3>1, StreamTyped
    <2>7. /\ Len(Frames(x)) \in Nat /\ Len(Frames(y)) \in Nat /\ Len(Frames(x)) <= Len(Frames(y))
          /\ Len(Frames(y)) <= Len(Stream) /\ Len(Stream) \in Nat
        <3>1. Len(Frames(x)) <= Len(Frames(y))
            BY <2>0, <2>6, FramesPrefix
        <3>2. Count \in y..Count
            BY <2>0, <2>6, StreamTyped
        <3>3. Len(Frames(y)) <= Len(Stream)
            BY <2>0, <2>6, <3>2, FramesPrefix DEF Stream
        <3> QED BY <2>0, <2>6, <3>1, <3>3, FramesTyped, StreamTyped
    <2>8. reads[i].held \o reads[i].chunk = Rest(x, Len(Frames(y)))
        <3>1. PICK e : e = FrameRead(<<>>, Len(Frames(x)), Len(Frames(y)))
            OBVIOUS
        <3>2. reads[i] = e
            BY <2>3, <2>4, <2>5, <3>1
        <3>3. e.held = <<>> /\ e.chunk = Rest(x, Len(Frames(y)))
            BY <3>1 DEF FrameRead, Rest
        <3>4. Rest(x, Len(Frames(y))) \in Seq(Signs)
            BY <2>0, <2>6, <2>7, RestIs
        <3>5. <<>> \o Rest(x, Len(Frames(y))) = Rest(x, Len(Frames(y)))
            BY <3>4, ConcatEmptySeq
        <3> QED BY <3>2, <3>3, <3>5, Zenon
    <2>9. Consume(Rest(x, Len(Frames(y)))) = Taken(<<>>, Said(x, y))
        <3>1. Whole(y, Len(Frames(y))) /\ Rest(y, Len(Frames(y))) = <<>>
            BY <2>0, <2>6, WholeAll
        <3>2. Len(Frames(y)) \in Len(Frames(x))..Len(Stream)
            BY <2>7
        <3>3. Consume(Rest(x, Len(Frames(y)))) = Taken(Rest(y, Len(Frames(y))), Said(x, y))
            BY <1>2, <2>6, <3>1, <3>2, ConsumeTakes
        <3> QED BY <3>1, <3>3, Zenon
    <2>10. Taken(<<>>, Said(x, y)).rest = <<>> /\ Taken(<<>>, Said(x, y)).out = Said(x, y)
        BY DEF Taken
    <2>11. buffer' = <<>> /\ delivered' = delivered \o Said(x, y)
        BY <1>1, <2>8, <2>9, <2>10, Zenon
    <2>12. WholeOf(reads', delivered', arrived', c, r - 1, Fewer(X, r, i), Fewer(Y, r, i))
        <3>1. WholeOf(RemoveAt(reads, i), delivered \o Said(X[i], Y[i]), arrived, c, r - 1,
                      Fewer(X, r, i), Fewer(Y, r, i))
            BY <2>0, <2>2, <2>4, BlobMore
        <3> QED BY <1>1, <2>5, <2>11, <3>1, Zenon
    <2> QED BY <2>11, <2>12, Zenon
<1> QED BY <1>1, <1>2, NextWhole

LEMMA NextNarrow == NarrowInv /\ [FramingNext]_framingVars => NarrowInv'
<1> SUFFICES ASSUME NarrowInv, FramingNext \/ UNCHANGED framingVars PROVE NarrowInv'
    OBVIOUS
<1>1. FramingTypes'
    BY TypesStep DEF NarrowInv
<1>2. CASE \E n \in (arrived + 1)..Len(Stream) : Read(n)
    <2>1. ApartInv' /\ WholeInv'
        BY <1>2, ReadNarrow
    <2> QED BY <1>1, <2>1 DEF NarrowInv
<1>3. CASE \E n \in (arrived + 1)..Len(Stream) : FrameArrives(n)
    <2>1. PICK n \in (arrived + 1)..Len(Stream) : FrameArrives(n)
        BY <1>3
    <2>2. ApartInv' /\ WholeInv'
        BY <2>1, FrameApart, FrameWhole
    <2> QED BY <1>1, <2>2 DEF NarrowInv
<1>4. CASE \E i \in DOMAIN reads : BlobRead(i)
    <2>1. PICK i \in DOMAIN reads : BlobRead(i)
        BY <1>4
    <2>2. ApartInv' /\ WholeInv'
        BY <2>1, BlobApart, BlobWhole
    <2> QED BY <1>1, <2>2 DEF NarrowInv
<1>5. CASE UNCHANGED framingVars
    <2>1. /\ reader' = reader /\ sent' = sent /\ arrived' = arrived /\ buffer' = buffer /\ reads' = reads
          /\ delivered' = delivered /\ apart' = apart /\ whole' = whole
        BY <1>5 DEF framingVars
    <2>2. Plainly /\ apart' => ApartOf(reads', buffer', delivered', arrived')
        BY <2>1 DEF NarrowInv, ApartInv
    <2>3. Plainly /\ reader = "ws" /\ whole' =>
              buffer' = <<>> /\ \E c \in 0..Count : \E r, X, Y :
                                  WholeOf(reads', delivered', arrived', c, r, X, Y)
        BY <2>1 DEF NarrowInv, WholeInv
    <2>4. ApartInv' /\ WholeInv'
        BY <2>1, <2>2, <2>3, NextApart, NextWhole
    <2> QED BY <1>1, <2>4 DEF NarrowInv
<1> QED BY <1>2, <1>3, <1>4, <1>5 DEF FramingNext

-----------------------------------------------------------------------------
(* What the invariant says of what was delivered.                           *)

LEMMA ExactIs ==
    ASSUME Streaming, arrived \in 0..Len(Stream), Exact(buffer, delivered, arrived)
    PROVE  delivered = [i \in 1..Complete |-> Text(i)] /\ Complete \in 0..Count
<1>1. PICK k \in 0..Count : Whole(k, arrived) /\ delivered = Said(0, k)
    BY DEF Exact
<1>2. Complete = k
    BY <1>1, CompleteIs
<1>3. Said(0, k) = [i \in 1..k |-> Text(i)]
    <2>1. k \in Nat /\ k - 0 = k /\ \A i \in 1..k : 0 + i = i
        BY StreamTyped
    <2> QED BY <2>1 DEF Said
<1> QED BY <1>1, <1>2, <1>3, Zenon

LEMMA NarrowExact ==
    ASSUME NarrowInv, Plainly, apart, reads = <<>>
    PROVE  delivered = [i \in 1..Complete |-> Text(i)] /\ Complete \in 0..Count
<1>1. Exact(buffer, delivered, arrived)
    BY DEF NarrowInv, ApartInv, ApartOf
<1>2. Streaming /\ arrived \in 0..Len(Stream)
    BY DEF NarrowInv, FramingTypes
<1> QED BY <1>1, <1>2, ExactIs

LEMMA NarrowWhole ==
    ASSUME NarrowInv, Plainly, reader = "ws", whole, reads = <<>>
    PROVE  /\ Len(delivered) = Complete
           /\ \A i \in 1..Complete : Text(i) \in ToSet(delivered)
<1>0. Streaming /\ arrived \in 0..Len(Stream)
    BY DEF NarrowInv, FramingTypes
<1>1. PICK c \in 0..Count : \E r, X, Y : WholeOf(reads, delivered, arrived, c, r, X, Y)
    BY DEF NarrowInv, WholeInv
<1>2. PICK r, X, Y : WholeOf(reads, delivered, arrived, c, r, X, Y)
    BY <1>1
<1>3. /\ r \in Nat /\ arrived = Len(Frames(c))
      /\ reads = [j \in 1..r |-> FrameRead(<<>>, Len(Frames(X[j])), Len(Frames(Y[j])))]
      /\ delivered \in Seq(All) /\ Len(delivered) = Cardinality((1..c) \ Unread(X, Y, r))
      /\ \A m \in (1..c) \ Unread(X, Y, r) : \E d \in 1..Len(delivered) : delivered[d] = Text(m)
    BY <1>2 DEF WholeOf
<1>4. r = 0
    <2>1. reads = [j \in 1..r |-> FrameRead(<<>>, Len(Frames(X[j])), Len(Frames(Y[j])))]
        BY <1>3, Zenon
    <2>2. DOMAIN reads = 1..r
        BY <2>1
    <2>3. DOMAIN reads = {}
        OBVIOUS
    <2>4. 1..r = {} /\ r \in Nat
        BY <1>3, <2>2, <2>3, Zenon
    <2> QED BY <2>4
<1>5. Unread(X, Y, r) = {}
    BY <1>4 DEF Unread
<1>6. c \in Nat /\ (1..c) \ Unread(X, Y, r) = 1..c
    BY <1>0, <1>5, StreamTyped
<1>7. Cardinality(1..c) = c
    BY <1>6, FS_Interval
<1>8. Complete = c
    <2>1. Whole(c, arrived)
        BY <1>0, <1>3, WholeAll
    <2> QED BY <1>0, <2>1, CompleteIs
<1>9. DOMAIN delivered = 1..Len(delivered)
    BY <1>3
<1>10. \A m \in 1..c : Text(m) \in ToSet(delivered)
    BY <1>3, <1>6, <1>9 DEF ToSet
<1>11. Len(delivered) = c
    BY <1>3, <1>6, <1>7, Zenon
<1> QED BY <1>8, <1>10, <1>11, Zenon

LEMMA NarrowArrives == NarrowInv => NarrowArrive
<1> SUFFICES ASSUME NarrowInv PROVE NarrowArrive
    OBVIOUS
<1>0. Streaming /\ (reader # "ws" => reads = <<>> /\ apart)
    BY DEF NarrowInv, FramingTypes
<1>1. NativeExact
    <2>1. reader = "native" => Plainly /\ apart /\ reads = <<>>
        BY <1>0 DEF Plainly
    <2> QED BY <2>1, NarrowExact DEF NativeExact
<1>2. PlainInOrder
    <2>1. AllNarrow => Plainly
        BY <1>0 DEF Plainly
    <2> QED BY <2>1, NarrowExact DEF PlainInOrder
<1>3. WholeFramesOnce
    <2> SUFFICES ASSUME AllNarrow, whole, reads = <<>>
                 PROVE  /\ Len(delivered) = Complete
                        /\ \A i \in 1..Complete : Text(i) \in ToSet(delivered)
        BY DEF WholeFramesOnce
    <2>1. Plainly
        BY <1>0 DEF Plainly
    <2>2. CASE reader = "ws"
        BY <2>1, <2>2, NarrowWhole
    <2>3. CASE reader # "ws"
        <3>1. delivered = [i \in 1..Complete |-> Text(i)] /\ Complete \in 0..Count
            BY <1>0, <2>1, <2>3, NarrowExact
        <3>2. Complete \in Nat
            BY <1>0, <3>1, StreamTyped
        <3>3. DOMAIN delivered = 1..Complete /\ Len(delivered) = Complete
            BY <3>1, <3>2
        <3>4. \A i \in 1..Complete : delivered[i] = Text(i)
            BY <3>1
        <3> QED BY <3>3, <3>4 DEF ToSet
    <2> QED BY <2>2, <2>3
<1> QED BY <1>1, <1>2, <1>3 DEF NarrowArrive

\* Whatever is sent and wherever the stream is cut, the native reader passes on just the
\* messages that have arrived whole, in order; so do the others as long as every character
\* is of one byte and no websocket frame overtakes another, and frames that do, but end
\* with messages, still bring each of them once (the loops of NativeMessagingUpstreamTransport,
\* PipeUpstreamTransport and NatsUpstreamTransport).
THEOREM NarrowMessagesArrive == FramingSpec => []NarrowArrive
<1>1. FramingSpec => []NarrowInv
    BY InitNarrow, NextNarrow, PTL DEF FramingSpec
<1> QED BY <1>1, NarrowArrives, PTL

-----------------------------------------------------------------------------
(* What decoding a stream in chunks leaves of it.                           *)

\* A function that grows by at most one at a time.
Steps(pos, n) ==
    /\ pos \in [0..n -> Nat]
    /\ \A i \in 1..n : pos[i] = pos[i - 1] \/ pos[i] = pos[i - 1] + 1

LEMMA StepsMonotone ==
    ASSUME NEW n \in Nat, NEW pos, Steps(pos, n), NEW x \in 0..n, NEW y \in x..n
    PROVE  /\ pos[x] \in Nat /\ pos[y] \in Nat /\ pos[x] <= pos[y] /\ pos[y] <= pos[x] + (y - x)
<1> DEFINE T == {m \in Nat : x + m <= n => /\ pos[x] <= pos[x + m] /\ pos[x + m] <= pos[x] + m}
<1>0. \A i \in 0..n : pos[i] \in Nat
    BY DEF Steps
<1>1. 0 \in T
    <2>1. x + 0 = x /\ pos[x] \in Nat
        BY <1>0
    <2> QED BY <2>1
<1>2. ASSUME NEW m \in T PROVE m + 1 \in T
    <2> SUFFICES ASSUME x + (m + 1) <= n
                 PROVE  pos[x] <= pos[x + (m + 1)] /\ pos[x + (m + 1)] <= pos[x] + (m + 1)
        OBVIOUS
    <2>1. m \in Nat /\ x + m \in 0..n /\ x + (m + 1) \in 1..n /\ (x + (m + 1)) - 1 = x + m /\ x + m <= n
        OBVIOUS
    <2>2. pos[x] <= pos[x + m] /\ pos[x + m] <= pos[x] + m
        BY <2>1
    <2>3. pos[x + (m + 1)] = pos[x + m] \/ pos[x + (m + 1)] = pos[x + m] + 1
        BY <2>1 DEF Steps
    <2>4. pos[x] \in Nat /\ pos[x + m] \in Nat
        BY <1>0, <2>1
    <2> QED BY <2>1, <2>2, <2>3, <2>4
<1> HIDE DEF T
<1>3. Nat \subseteq T
    BY <1>1, <1>2, SetInduction
<1>4. y - x \in Nat /\ x + (y - x) = y /\ y \in 0..n /\ y <= n
    OBVIOUS
<1>5. pos[x] <= pos[y] /\ pos[y] <= pos[x] + (y - x)
    BY <1>3, <1>4 DEF T
<1> QED BY <1>0, <1>4, <1>5

\* It takes every value on its way.
LEMMA StepsMeet ==
    ASSUME NEW n \in Nat, NEW pos, Steps(pos, n), pos[0] = 0, NEW k \in 1..pos[n]
    PROVE  \E i \in 1..n : pos[i] = k /\ pos[i - 1] = k - 1
<1> DEFINE T == {m \in Nat : m <= n /\ k <= pos[m] => \E i \in 1..m : pos[i] = k /\ pos[i - 1] = k - 1}
<1>0. (\A i \in 0..n : pos[i] \in Nat) /\ k \in Nat /\ k >= 1 /\ k <= pos[n]
    BY DEF Steps
<1>1. 0 \in T
    BY <1>0
<1>2. ASSUME NEW m \in T PROVE m + 1 \in T
    <2> SUFFICES ASSUME m + 1 <= n, k <= pos[m + 1]
                 PROVE  \E i \in 1..(m + 1) : pos[i] = k /\ pos[i - 1] = k - 1
        OBVIOUS
    <2>1. m \in Nat /\ m \in 0..n /\ m + 1 \in 1..n /\ m + 1 \in 1..(m + 1) /\ (m + 1) - 1 = m /\ m <= n
        OBVIOUS
    <2>2. CASE k <= pos[m]
        <3>1. PICK i \in 1..m : pos[i] = k /\ pos[i - 1] = k - 1
            BY <2>1, <2>2
        <3>2. i \in 1..(m + 1)
            BY <2>1
        <3> QED BY <3>1, <3>2
    <2>3. CASE ~(k <= pos[m])
        <3>1. pos[m + 1] = pos[m] \/ pos[m + 1] = pos[m] + 1
            BY <2>1 DEF Steps
        <3>2. pos[m] \in Nat
            BY <1>0, <2>1
        <3>3. pos[m + 1] = k /\ pos[m] = k - 1
            BY <1>0, <2>3, <3>1, <3>2
        <3> QED BY <2>1, <3>3
    <2> QED BY <2>2, <2>3
<1> HIDE DEF T
<1>3. Nat \subseteq T
    BY <1>1, <1>2, SetInduction
<1>4. n \in T /\ n <= n
    BY <1>3
<1> QED BY <1>0, <1>4 DEF T

\* A character that stands for a byte.
IsChar(c, byte) ==
    IF byte.is \in {"lead", "tail"} THEN c.is \in {"wide", "replaced"} ELSE c = byte

\* A byte that shares its character with the byte before.
Shares(b, i) == i > 1 /\ b[i].is = "tail" /\ b[i - 1].is = "lead"

\* The characters d are the first n bytes of b, decoded in chunks of any size: pos[i] of
\* them for the first i bytes.
Reading(d, pos, b, n) ==
    /\ d \in Seq(Signs) /\ b \in Seq(Signs) /\ n \in 0..Len(b) /\ pos \in [0..n -> Nat]
    /\ pos[0] = 0 /\ pos[n] = Len(d)
    /\ \A i \in 1..n : \/ pos[i] = pos[i - 1] + 1 /\ IsChar(d[pos[i]], b[i])
                       \/ pos[i] = pos[i - 1] /\ Shares(b, i)

\* In one chunk.
Tight(pos, b, n) == \A i \in 1..n : Shares(b, i) => pos[i] = pos[i - 1]

LEMMA ReadingSteps ==
    ASSUME NEW d, NEW pos, NEW b, NEW n, Reading(d, pos, b, n)
    PROVE  /\ Steps(pos, n) /\ n \in Nat /\ n <= Len(b) /\ Len(b) \in Nat /\ Len(d) \in Nat
           /\ pos[0] = 0 /\ pos[n] = Len(d) /\ d \in Seq(Signs) /\ b \in Seq(Signs)
           /\ \A i \in 0..n : pos[i] \in Nat
<1>1. d \in Seq(Signs) /\ b \in Seq(Signs) /\ n \in 0..Len(b) /\ Len(b) \in Nat /\ Len(d) \in Nat
    BY LenProperties DEF Reading
<1>2. n \in Nat /\ n <= Len(b)
    BY <1>1
<1>3. Steps(pos, n)
    BY Zenon DEF Reading, Steps
<1> QED BY <1>1, <1>2, <1>3 DEF Reading

LEMMA ReadingByte ==
    ASSUME NEW d, NEW pos, NEW b, NEW n, Reading(d, pos, b, n), NEW i \in 1..n
    PROVE  \/ pos[i] = pos[i - 1] + 1 /\ IsChar(d[pos[i]], b[i])
           \/ pos[i] = pos[i - 1] /\ Shares(b, i)
BY Zenon DEF Reading

LEMMA ReadingMonotone ==
    ASSUME NEW d, NEW pos, NEW b, NEW n, Reading(d, pos, b, n), NEW x \in 0..n, NEW y \in x..n
    PROVE  /\ pos[x] \in Nat /\ pos[y] \in Nat /\ Len(d) \in Nat
           /\ pos[x] <= pos[y] /\ pos[y] <= pos[x] + (y - x) /\ pos[y] <= Len(d)
<1>1. Steps(pos, n) /\ n \in Nat /\ pos[n] = Len(d) /\ Len(d) \in Nat
    BY ReadingSteps
<1>2. pos[x] \in Nat /\ pos[y] \in Nat /\ pos[x] <= pos[y] /\ pos[y] <= pos[x] + (y - x)
    BY <1>1, StepsMonotone
<1>3. y \in 0..n /\ n \in y..n
    BY <1>1
<1>4. pos[y] <= pos[n]
    BY <1>1, <1>3, StepsMonotone
<1> QED BY <1>1, <1>2, <1>4

\* The byte of a character.
LEMMA ReadingMeets ==
    ASSUME NEW d, NEW pos, NEW b, NEW n, Reading(d, pos, b, n), NEW k \in 1..Len(d)
    PROVE  \E i \in 1..n : pos[i] = k /\ pos[i - 1] = k - 1 /\ IsChar(d[k], b[i])
<1>1. Steps(pos, n) /\ n \in Nat /\ pos[n] = Len(d) /\ pos[0] = 0 /\ \A i \in 0..n : pos[i] \in Nat
    BY ReadingSteps
<1>2. PICK i \in 1..n : pos[i] = k /\ pos[i - 1] = k - 1
    BY <1>1, StepsMeet
<1>3. pos[i] # pos[i - 1]
    BY <1>2
<1>4. IsChar(d[k], b[i])
    BY <1>2, <1>3 DEF Reading
<1> QED BY <1>2, <1>4

LEMMA ReadingNone ==
    ASSUME NEW b \in Seq(Signs), NEW pos, pos = [i \in 0..0 |-> 0]
    PROVE  Reading(<<>>, pos, b, 0) /\ Tight(pos, b, 0)
<1>1. Len(b) \in Nat /\ 0 \in 0..Len(b) /\ <<>> \in Seq(Signs) /\ Len(<<>>) = 0
    BY LenProperties
<1>2. pos \in [0..0 -> Nat] /\ pos[0] = 0
    OBVIOUS
<1> QED BY <1>1, <1>2 DEF Reading, Tight

\* A byte more.
LEMMA ReadingMore ==
    ASSUME NEW d, NEW pos, NEW b, NEW n, Reading(d, pos, b, n), n < Len(b), NEW e,
           \/ Shares(b, n + 1) /\ e = <<>>
           \/ ~Shares(b, n + 1) /\ \E c \in Signs : e = <<c>> /\ IsChar(c, b[n + 1])
    PROVE  \E q : /\ Reading(d \o e, q, b, n + 1)
                  /\ Tight(pos, b, n) => Tight(q, b, n + 1)
<1>1. /\ n \in Nat /\ n <= Len(b) /\ Len(b) \in Nat /\ Len(d) \in Nat
      /\ pos[0] = 0 /\ pos[n] = Len(d) /\ d \in Seq(Signs) /\ b \in Seq(Signs)
      /\ \A i \in 0..n : pos[i] \in Nat
    BY ReadingSteps
<1>2. PICK w : w = d \o e
    OBVIOUS
<1>3. /\ w \in Seq(Signs) /\ Len(w) \in Nat /\ \A k \in 1..Len(d) : w[k] = d[k]
      /\ \/ Shares(b, n + 1) /\ Len(w) = Len(d)
         \/ ~Shares(b, n + 1) /\ Len(w) = Len(d) + 1 /\ IsChar(w[Len(d) + 1], b[n + 1])
    <2>1. CASE Shares(b, n + 1) /\ e = <<>>
        <3>1. w = d
            BY <1>1, <1>2, <2>1, ConcatEmptySeq
        <3> QED BY <1>1, <2>1, <3>1
    <2>2. ASSUME ~Shares(b, n + 1), NEW c \in Signs, e = <<c>>, IsChar(c, b[n + 1])
          PROVE  /\ w \in Seq(Signs) /\ Len(w) = Len(d) + 1 /\ (\A k \in 1..Len(d) : w[k] = d[k])
                 /\ w[Len(d) + 1] = c
        BY <1>1, <1>2, <2>2, Followed
    <2> QED BY <1>1, <2>1, <2>2
<1> DEFINE q == [i \in 0..(n + 1) |-> IF i = n + 1 THEN Len(w) ELSE pos[i]]
<1>4. /\ q \in [0..(n + 1) -> Nat] /\ q[0] = 0 /\ q[n + 1] = Len(w)
      /\ \A i \in 0..n : q[i] = pos[i]
    <2>1. \A i \in 0..(n + 1) : i = n + 1 \/ i \in 0..n
        BY <1>1
    <2>2. 0 \in 0..(n + 1) /\ n + 1 \in 0..(n + 1) /\ \A i \in 0..n : i \in 0..(n + 1) /\ i # n + 1
        BY <1>1
    <2>3. 0 \in 0..n
        BY <1>1
    <2> QED BY <1>1, <1>3, <2>1, <2>2, <2>3
<1> HIDE DEF q
<1>5. n + 1 \in 0..Len(b) /\ (n + 1) - 1 = n /\ n \in 0..n /\ n \in Nat
    BY <1>1
<1>6. ASSUME NEW i \in 1..(n + 1)
      PROVE  \/ q[i] = q[i - 1] + 1 /\ IsChar(w[q[i]], b[i])
             \/ q[i] = q[i - 1] /\ Shares(b, i)
    <2>1. CASE i = n + 1
        <3>1. q[i] = Len(w) /\ q[i - 1] = Len(d)
            BY <1>1, <1>4, <1>5, <2>1
        <3> QED BY <1>3, <2>1, <3>1
    <2>2. CASE i # n + 1
        <3>1. i \in 1..n /\ i \in 0..n /\ i - 1 \in 0..n /\ n \in i..n
            BY <1>1, <2>2
        <3>2. q[i] = pos[i] /\ q[i - 1] = pos[i - 1]
            BY <1>4, <3>1
        <3>3. \/ pos[i] = pos[i - 1] + 1 /\ IsChar(d[pos[i]], b[i])
              \/ pos[i] = pos[i - 1] /\ Shares(b, i)
            BY <3>1 DEF Reading
        <3>4. ASSUME pos[i] = pos[i - 1] + 1 PROVE w[pos[i]] = d[pos[i]]
            <4>1. pos[i] \in Nat /\ pos[i] <= Len(d) /\ pos[i - 1] \in Nat
                BY <1>1, <3>1, ReadingMonotone
            <4>2. pos[i] \in 1..Len(d)
                BY <1>1, <3>4, <4>1
            <4> QED BY <1>3, <4>2
        <3> QED BY <3>2, <3>3, <3>4
    <2> QED BY <2>1, <2>2
<1>7. Reading(w, q, b, n + 1)
    BY <1>1, <1>3, <1>4, <1>5, <1>6 DEF Reading
<1>8. ASSUME Tight(pos, b, n) PROVE Tight(q, b, n + 1)
    <2> SUFFICES ASSUME NEW i \in 1..(n + 1), Shares(b, i) PROVE q[i] = q[i - 1]
        BY DEF Tight
    <2>1. CASE i = n + 1
        BY <1>1, <1>3, <1>4, <1>5, <2>1
    <2>2. CASE i # n + 1
        <3>1. i \in 1..n /\ i \in 0..n /\ i - 1 \in 0..n
            BY <1>1, <2>2
        <3> QED BY <1>4, <1>8, <3>1 DEF Tight
    <2> QED BY <2>1, <2>2
<1> QED BY <1>2, <1>7, <1>8, Zenon

\* A chunk by itself.
LEMMA DecodeReads ==
    ASSUME NEW b \in Seq(Signs)
    PROVE  \E pos : Reading(Decode(b), pos, b, Len(b)) /\ Tight(pos, b, Len(b))
<1> DEFINE follows(i) == i < Len(b) /\ b[i + 1].is = "tail"
           char(i) == CASE b[i].is = "lead" ->
                          <<[b[i] EXCEPT !.is = IF follows(i) THEN "wide" ELSE "replaced"]>>
                     [] b[i].is = "tail" ->
                          IF i > 1 /\ b[i - 1].is = "lead" THEN <<>>
                          ELSE <<[b[i] EXCEPT !.is = "replaced"]>>
                     [] OTHER -> <<b[i]>>
           F == [i \in DOMAIN b |-> char(i)]
           part(m) == FlattenSeq([i \in 1..m |-> F[i]])
           T == {m \in Nat : m <= Len(b) => \E pos : Reading(part(m), pos, b, m) /\ Tight(pos, b, m)}
<1>1. DOMAIN b = 1..Len(b) /\ Len(b) \in Nat /\ \A i \in 1..Len(b) : b[i] \in Signs
    BY LenProperties, ElementOfSeq
<1>2. Decode(b) = FlattenSeq(F)
    BY DEF Decode
<1>3. F = [i \in 1..Len(b) |-> F[i]] /\ \A i \in 1..Len(b) : F[i] = char(i)
    BY <1>1
<1>4. ASSUME NEW i \in 1..Len(b)
      PROVE  \/ Shares(b, i) /\ F[i] = <<>>
             \/ ~Shares(b, i) /\ \E c \in Signs : F[i] = <<c>> /\ IsChar(c, b[i])
    <2>1. b[i] \in Signs /\ F[i] = char(i)
        BY <1>1, <1>3
    <2>2. \A w \in {"wide", "replaced"} : /\ [b[i] EXCEPT !.is = w] \in Signs
                                          /\ [b[i] EXCEPT !.is = w].is = w
        BY <2>1 DEF Signs
    <2>3. CASE Shares(b, i)
        <3>1. char(i) = <<>>
            BY <2>3 DEF Shares
        <3> QED BY <2>1, <2>3, <3>1
    <2>4. CASE ~Shares(b, i) /\ b[i].is \in {"lead", "tail"}
        <3>1. \E w \in {"wide", "replaced"} : char(i) = <<[b[i] EXCEPT !.is = w]>>
            BY <2>4 DEF Shares
        <3> HIDE DEF char, F
        <3>2. PICK w \in {"wide", "replaced"} : F[i] = <<[b[i] EXCEPT !.is = w]>>
            BY <2>1, <3>1
        <3>3. PICK c \in Signs : c = [b[i] EXCEPT !.is = w] /\ c.is = w
            BY <2>2
        <3>4. F[i] = <<c>> /\ IsChar(c, b[i])
            BY <2>4, <3>2, <3>3 DEF IsChar
        <3> QED BY <2>4, <3>4
    <2>5. CASE ~(b[i].is \in {"lead", "tail"})
        <3>1. char(i) = <<b[i]>>
            BY <2>5
        <3>2. ~Shares(b, i) /\ IsChar(b[i], b[i])
            BY <2>5 DEF Shares, IsChar
        <3> HIDE DEF char, F
        <3> QED BY <2>1, <3>1, <3>2
    <2> QED BY <2>3, <2>4, <2>5
<1> HIDE DEF F, char
<1>5. 0 \in T
    <2>1. part(0) = <<>>
        BY FlattenNone
    <2>2. PICK pos : pos = [i \in 0..0 |-> 0]
        OBVIOUS
    <2>3. Reading(<<>>, pos, b, 0) /\ Tight(pos, b, 0)
        BY <2>2, ReadingNone
    <2> QED BY <2>1, <2>3
<1>6. ASSUME NEW m \in T PROVE m + 1 \in T
    <2> SUFFICES ASSUME m + 1 <= Len(b)
                 PROVE  \E pos : Reading(part(m + 1), pos, b, m + 1) /\ Tight(pos, b, m + 1)
        OBVIOUS
    <2>1. m \in Nat /\ m + 1 \in 1..Len(b) /\ m < Len(b) /\ m <= Len(b)
        BY <1>1
    <2>2. PICK pos : Reading(part(m), pos, b, m) /\ Tight(pos, b, m)
        BY <2>1
    <2>3. PICK u, e : u = part(m) /\ e = F[m + 1]
        OBVIOUS
    <2>4. \/ Shares(b, m + 1) /\ e = <<>>
          \/ ~Shares(b, m + 1) /\ \E c \in Signs : e = <<c>> /\ IsChar(c, b[m + 1])
        BY <1>4, <2>1, <2>3
    <2>5. \E q : Reading(u \o e, q, b, m + 1) /\ (Tight(pos, b, m) => Tight(q, b, m + 1))
        <3>1. Reading(u, pos, b, m)
            BY <2>2, <2>3
        <3> QED BY <2>1, <2>4, <3>1, ReadingMore
    <2>6. part(m + 1) = u \o e
        <3>1. e \in Seq(Signs)
            <4>1. CASE e = <<>>
                BY <4>1
            <4>2. ASSUME NEW c \in Signs, e = <<c>> PROVE e \in Seq(Signs)
                BY <4>2, OneElement
            <4> QED BY <2>4, <4>1, <4>2
        <3>2. F[m + 1] \in Seq(Signs)
            BY <2>3, <3>1
        <3>3. FlattenSeq([i \in 1..(m + 1) |-> F[i]]) = FlattenSeq([i \in 1..m |-> F[i]]) \o F[m + 1]
            BY <2>1, <3>2, FlattenOneMore
        <3> QED BY <2>3, <3>3, Zenon
    <2> HIDE DEF part
    <2> QED BY <2>2, <2>5, <2>6
<1> HIDE DEF T
<1>7. Nat \subseteq T
    BY <1>5, <1>6, SetInduction
<1>8. \E pos : Reading(part(Len(b)), pos, b, Len(b)) /\ Tight(pos, b, Len(b))
    BY <1>1, <1>7 DEF T
<1>9. part(Len(b)) = Decode(b)
    BY <1>2, <1>3, Zenon
<1> HIDE DEF part
<1> QED BY <1>8, <1>9

\* The places of the bytes of a sequence that are those of another from the a-th on.
IsPart(s, b, a, m) == s \in Seq(Signs) /\ Len(s) = m /\ \A k \in 1..m : s[k] = b[a + k]

LEMMA ReadingPart ==
    ASSUME NEW d, NEW pos, NEW b, NEW n, Reading(d, pos, b, n),
           NEW x \in 0..n, NEW y \in x..n, NEW s, IsPart(s, b, x, y - x),
           x < y => s[1].is # "tail"
    PROVE  \E q : /\ Reading(SubSeq(d, pos[x] + 1, pos[y]), q, s, y - x)
                  /\ \A i \in 0..(y - x) : q[i] = pos[x + i] - pos[x]
<1>1. /\ n \in Nat /\ n <= Len(b) /\ Len(b) \in Nat /\ Len(d) \in Nat
      /\ pos[n] = Len(d) /\ d \in Seq(Signs)
      /\ \A i \in 0..n : pos[i] \in Nat
    BY ReadingSteps
<1>2. pos[x] \in Nat /\ pos[y] \in Nat /\ pos[x] <= pos[y] /\ pos[y] <= Len(d)
    BY ReadingMonotone
<1>3. PICK m \in Nat : m = y - x /\ x + m = y /\ m \in 0..m /\ 0 \in 0..m /\ x + 0 = x /\ x \in Nat
    <2>1. y - x \in Nat /\ x + (y - x) = y /\ x \in Nat /\ x + 0 = x
        BY <1>1
    <2> QED BY <2>1
<1>4. PICK w, u, v : w = SubSeq(d, u + 1, v) /\ u = pos[x] /\ v = pos[y]
    OBVIOUS
<1>5. /\ w \in Seq(Signs) /\ Len(w) = pos[y] - pos[x]
      /\ \A j \in 1..(pos[y] - pos[x]) : w[j] = d[pos[x] + j]
    <2>1. u \in Nat /\ v \in Nat /\ u <= v /\ v <= Len(d) /\ d \in Seq(Signs)
        BY <1>1, <1>2, <1>4
    <2>2. w \in Seq(Signs) /\ Len(w) = v - u /\ \A j \in 1..(v - u) : w[j] = d[u + j]
        <3>1. /\ SubSeq(d, u + 1, v) \in Seq(Signs) /\ Len(SubSeq(d, u + 1, v)) = v - u
              /\ \A j \in 1..(v - u) : SubSeq(d, u + 1, v)[j] = d[u + j]
            BY <2>1, PartIs
        <3> QED BY <1>4, <3>1, Zenon
    <2> QED BY <1>4, <2>2
<1>6. s \in Seq(Signs) /\ Len(s) = m /\ \A k \in 1..m : s[k] = b[x + k]
    BY <1>3 DEF IsPart
<1> DEFINE q == [i \in 0..m |-> pos[x + i] - pos[x]]
<1>7. ASSUME NEW i \in 0..m
      PROVE  /\ x + i \in 0..n /\ pos[x + i] \in Nat /\ pos[x] <= pos[x + i] /\ pos[x + i] <= pos[y]
             /\ q[i] = pos[x + i] - pos[x] /\ q[i] \in Nat
    <2>1. x + i \in 0..n /\ x + i \in x..n /\ y \in (x + i)..n
        BY <1>1, <1>3
    <2>2. pos[x] <= pos[x + i] /\ pos[x + i] \in Nat /\ pos[x + i] <= pos[y]
        BY <2>1, ReadingMonotone
    <2>3. q[i] = pos[x + i] - pos[x]
        OBVIOUS
    <2> HIDE DEF q
    <2> QED BY <1>2, <2>1, <2>2, <2>3
<1>8. q \in [0..m -> Nat]
    BY <1>7
<1> HIDE DEF q
<1>9. q[0] = 0 /\ q[m] = Len(w)
    <2>1. q[0] = pos[x + 0] - pos[x] /\ q[m] = pos[x + m] - pos[x]
        BY <1>3, <1>7
    <2> QED BY <1>2, <1>3, <1>5, <2>1
<1>10. ASSUME NEW i \in 1..m
       PROVE  \/ q[i] = q[i - 1] + 1 /\ IsChar(w[q[i]], s[i])
              \/ q[i] = q[i - 1] /\ Shares(s, i)
    <2>1. /\ i \in 0..m /\ i - 1 \in 0..m /\ x + i \in 1..n /\ x + (i - 1) = (x + i) - 1
        BY <1>1, <1>3
    <2>2. PICK z \in 1..n : z = x + i /\ z - 1 = x + (i - 1)
        BY <2>1
    <2>3. q[i] = pos[z] - pos[x] /\ q[i - 1] = pos[z - 1] - pos[x] /\ s[i] = b[z]
          /\ pos[z] \in Nat /\ pos[z - 1] \in Nat /\ pos[z] <= pos[y] /\ pos[x] <= pos[z - 1]
        BY <1>6, <1>7, <2>1, <2>2
    <2>4. \/ pos[z] = pos[z - 1] + 1 /\ IsChar(d[pos[z]], b[z])
          \/ pos[z] = pos[z - 1] /\ Shares(b, z)
        BY DEF Reading
    <2>5. CASE pos[z] = pos[z - 1] + 1 /\ IsChar(d[pos[z]], b[z])
        <3>1. q[i] = q[i - 1] + 1 /\ q[i] \in 1..(pos[y] - pos[x]) /\ pos[x] + q[i] = pos[z]
            <4>1. PICK k, l, f, g : k = pos[z] /\ l = pos[z - 1] /\ f = pos[x] /\ g = pos[y]
                OBVIOUS
            <4>2. k \in Nat /\ l \in Nat /\ f \in Nat /\ g \in Nat /\ k = l + 1 /\ f <= l /\ k <= g
                BY <1>2, <2>3, <2>5, <4>1
            <4>3. k - f = (l - f) + 1 /\ k - f \in 1..(g - f) /\ f + (k - f) = k
                BY <4>2
            <4> QED BY <2>3, <4>1, <4>3
        <3> QED BY <1>5, <2>3, <2>5, <3>1
    <2>6. CASE pos[z] = pos[z - 1] /\ Shares(b, z)
        <3>1. q[i] = q[i - 1]
            BY <2>3, <2>6
        <3>2. s[i].is = "tail" /\ b[z - 1].is = "lead"
            BY <2>3, <2>6 DEF Shares
        <3>3. i # 1
            <4>1. x < y
                BY <1>3
            <4> QED BY <3>2, <4>1
        <3>4. i > 1 /\ i - 1 \in 1..m /\ s[i - 1] = b[z - 1]
            BY <1>6, <2>2, <3>3
        <3> QED BY <3>1, <3>2, <3>4 DEF Shares
    <2> QED BY <2>4, <2>5, <2>6
<1>11. Reading(w, q, s, m)
    <2>1. m \in 0..Len(s) /\ s \in Seq(Signs)
        BY <1>3, <1>6
    <2> QED BY <1>5, <1>8, <1>9, <1>10, <2>1 DEF Reading
<1> QED BY <1>3, <1>4, <1>7, <1>11, Zenon

\* One chunk after the other.
LEMMA ReadingJoined ==
    ASSUME NEW d, NEW pos, NEW b, NEW a, Reading(d, pos, b, a), NEW m \in Nat, a + m <= Len(b),
           NEW s, IsPart(s, b, a, m), NEW e, NEW nxt, Reading(e, nxt, s, m)
    PROVE  \E q : /\ Reading(d \o e, q, b, a + m)
                  /\ \A i \in 0..a : q[i] = pos[i]
<1>1. /\ a \in Nat /\ Len(b) \in Nat /\ Len(d) \in Nat /\ pos[0] = 0
      /\ pos[a] = Len(d) /\ d \in Seq(Signs) /\ b \in Seq(Signs)
      /\ \A i \in 0..a : pos[i] \in Nat
    BY ReadingSteps
<1>2. /\ Len(e) \in Nat /\ nxt[0] = 0 /\ nxt[m] = Len(e) /\ e \in Seq(Signs)
      /\ \A i \in 0..m : nxt[i] \in Nat
    BY ReadingSteps
<1>3. PICK w : w = d \o e
    OBVIOUS
<1>4. /\ w \in Seq(Signs) /\ Len(w) = Len(d) + Len(e)
      /\ \A k \in 1..(Len(d) + Len(e)) : w[k] = IF k <= Len(d) THEN d[k] ELSE e[k - Len(d)]
    BY <1>1, <1>2, <1>3, ConcatProperties
<1>5. PICK n \in Nat : n = a + m
    BY <1>1
<1> DEFINE q == [i \in 0..n |-> IF i <= a THEN pos[i] ELSE Len(d) + nxt[i - a]]
<1>6. ASSUME NEW i \in 0..a PROVE i \in 0..n /\ q[i] = pos[i] /\ q[i] \in Nat
    <2>1. i \in 0..n /\ i <= a
        BY <1>1, <1>5
    <2> QED BY <1>1, <2>1
<1>7. ASSUME NEW i \in 0..m PROVE a + i \in 0..n /\ q[a + i] = Len(d) + nxt[i] /\ q[a + i] \in Nat
    <2>1. a + i \in 0..n /\ (a + i) - a = i /\ Len(d) + nxt[i] \in Nat
        BY <1>1, <1>2, <1>5
    <2>2. CASE a + i <= a
        <3>1. i = 0 /\ a + i = a
            BY <1>1, <2>2
        <3>2. q[a + i] = pos[a] /\ nxt[i] = 0
            BY <1>2, <2>1, <2>2, <3>1
        <3> QED BY <1>1, <2>1, <3>2
    <2>3. CASE ~(a + i <= a)
        BY <2>1, <2>3
    <2> QED BY <2>2, <2>3
<1>8. \A i \in 0..n : i \in 0..a \/ \E j \in 1..m : i = a + j
    <2> TAKE i \in 0..n
    <2>1. CASE ~(i \in 0..a)
        <3>1. i - a \in 1..m /\ i = a + (i - a)
            BY <1>1, <1>5, <2>1
        <3> QED BY <3>1
    <2> QED BY <2>1
<1>9. q \in [0..n -> Nat]
    <2>1. \A i \in 0..n : q[i] \in Nat
        <3> HIDE DEF q
        <3> QED BY <1>6, <1>7, <1>8
    <2> QED BY <2>1
<1> HIDE DEF q
<1>10. q[0] = 0 /\ q[n] = Len(w)
    <2>1. 0 \in 0..a /\ m \in 0..m
        BY <1>1
    <2>2. q[0] = pos[0] /\ q[a + m] = Len(d) + nxt[m]
        BY <1>6, <1>7, <2>1
    <2> QED BY <1>1, <1>2, <1>4, <1>5, <2>2
<1>11. ASSUME NEW i \in 1..a
       PROVE  \/ q[i] = q[i - 1] + 1 /\ IsChar(w[q[i]], b[i])
              \/ q[i] = q[i - 1] /\ Shares(b, i)
    <2>1. i \in 0..a /\ i - 1 \in 0..a /\ a \in i..a
        BY <1>1
    <2>2. q[i] = pos[i] /\ q[i - 1] = pos[i - 1]
        BY <1>6, <2>1
    <2>3. \/ pos[i] = pos[i - 1] + 1 /\ IsChar(d[pos[i]], b[i])
          \/ pos[i] = pos[i - 1] /\ Shares(b, i)
        BY DEF Reading
    <2>4. ASSUME pos[i] = pos[i - 1] + 1 PROVE w[pos[i]] = d[pos[i]]
        <3>1. pos[i] \in Nat /\ pos[i] <= Len(d) /\ pos[i - 1] \in Nat
            BY <1>1, <2>1, ReadingMonotone
        <3>2. pos[i] \in 1..(Len(d) + Len(e)) /\ pos[i] <= Len(d)
            BY <1>1, <1>2, <2>4, <3>1
        <3> QED BY <1>4, <3>2
    <2> QED BY <2>2, <2>3, <2>4
<1>12. ASSUME NEW j \in 1..m
       PROVE  \/ q[a + j] = q[(a + j) - 1] + 1 /\ IsChar(w[q[a + j]], b[a + j])
              \/ q[a + j] = q[(a + j) - 1] /\ Shares(b, a + j)
    <2>1. j \in 0..m /\ j - 1 \in 0..m /\ (a + j) - 1 = a + (j - 1) /\ m \in j..m
        BY <1>1
    <2>2. q[a + j] = Len(d) + nxt[j] /\ q[(a + j) - 1] = Len(d) + nxt[j - 1]
        BY <1>7, <2>1
    <2>3. \/ nxt[j] = nxt[j - 1] + 1 /\ IsChar(e[nxt[j]], s[j])
          \/ nxt[j] = nxt[j - 1] /\ Shares(s, j)
        BY DEF Reading
    <2>4. s[j] = b[a + j] /\ (j > 1 => s[j - 1] = b[(a + j) - 1])
        <3>1. j > 1 => j - 1 \in 1..m
            OBVIOUS
        <3> QED BY <2>1, <3>1 DEF IsPart
    <2>5. CASE nxt[j] = nxt[j - 1] + 1 /\ IsChar(e[nxt[j]], s[j])
        <3>1. nxt[j] \in Nat /\ nxt[j] <= Len(e) /\ nxt[j - 1] \in Nat
            BY <1>2, <2>1, ReadingMonotone
        <3>2. PICK k, l, u : k = nxt[j] /\ l = nxt[j - 1] /\ u = Len(d)
            OBVIOUS
        <3>3. u + k = (u + l) + 1 /\ u + k \in 1..(u + Len(e)) /\ ~(u + k <= u) /\ (u + k) - u = k
            <4>1. k \in Nat /\ l \in Nat /\ u \in Nat /\ k = l + 1 /\ k <= Len(e) /\ Len(e) \in Nat
                BY <1>1, <1>2, <2>5, <3>1, <3>2
            <4> QED BY <4>1
        <3>4. w[u + k] = e[k]
            BY <1>4, <3>2, <3>3
        <3> QED BY <2>2, <2>4, <2>5, <3>2, <3>3, <3>4
    <2>6. CASE nxt[j] = nxt[j - 1] /\ Shares(s, j)
        <3>1. a + j > 1 /\ b[a + j].is = "tail" /\ b[(a + j) - 1].is = "lead"
            BY <1>1, <2>4, <2>6 DEF Shares
        <3> QED BY <2>2, <2>6, <3>1 DEF Shares
    <2> QED BY <2>3, <2>5, <2>6
<1>13. \A i \in 1..n : \/ q[i] = q[i - 1] + 1 /\ IsChar(w[q[i]], b[i])
                       \/ q[i] = q[i - 1] /\ Shares(b, i)
    <2> TAKE i \in 1..n
    <2>1. i \in 1..a \/ \E j \in 1..m : i = a + j
        <3>1. i \in 0..n
            BY <1>5
        <3>2. i \in 0..a => i \in 1..a
            BY <1>1
        <3> QED BY <1>8, <3>1, <3>2
    <2> QED BY <1>11, <1>12, <2>1
<1>14. Reading(w, q, b, n)
    <2>1. n \in 0..Len(b)
        BY <1>1, <1>5
    <2> QED BY <1>1, <1>4, <1>9, <1>10, <1>13, <2>1 DEF Reading
<1> QED BY <1>3, <1>5, <1>6, <1>14

\* No other reading has fewer characters than a tight one between two bytes.
LEMMA TightLeast ==
    ASSUME NEW d, NEW pos, NEW b, NEW n, Reading(d, pos, b, n),
           NEW e, NEW q, NEW m, Reading(e, q, b, m), Tight(q, b, m), n <= m,
           NEW x \in 0..n, NEW y \in x..n
    PROVE  q[y] - q[x] <= pos[y] - pos[x]
<1>1. /\ n \in Nat /\ m \in Nat /\ (\A i \in 0..n : pos[i] \in Nat) /\ (\A i \in 0..m : q[i] \in Nat)
    BY ReadingSteps
<1> DEFINE T == {k \in Nat : x + k <= n => q[x + k] + pos[x] <= pos[x + k] + q[x]}
<1>2. 0 \in T
    <2>1. x + 0 = x /\ pos[x] \in Nat /\ q[x] \in Nat
        BY <1>1
    <2> QED BY <2>1
<1>3. ASSUME NEW k \in T PROVE k + 1 \in T
    <2> SUFFICES ASSUME x + (k + 1) <= n
                 PROVE  q[x + (k + 1)] + pos[x] <= pos[x + (k + 1)] + q[x]
        OBVIOUS
    <2>1. PICK i \in 1..n : i = x + (k + 1) /\ i - 1 = x + k /\ x + k <= n /\ k \in Nat
        BY <1>1
    <2>2. i \in 1..m /\ i \in 0..n /\ i - 1 \in 0..n /\ i \in 0..m /\ i - 1 \in 0..m /\ x \in 0..m
        BY <1>1
    <2>3. /\ pos[i] \in Nat /\ pos[i - 1] \in Nat /\ q[i] \in Nat /\ q[i - 1] \in Nat
          /\ pos[x] \in Nat /\ q[x] \in Nat
        BY <1>1, <2>2
    <2>4. q[i - 1] + pos[x] <= pos[i - 1] + q[x]
        BY <2>1
    <2>5. \/ pos[i] = pos[i - 1] + 1
          \/ pos[i] = pos[i - 1] /\ Shares(b, i)
        BY DEF Reading
    <2>6. (q[i] = q[i - 1] + 1 \/ q[i] = q[i - 1]) /\ (Shares(b, i) => q[i] = q[i - 1])
        BY <2>2 DEF Reading, Tight
    <2>7. q[i] + pos[x] <= pos[i] + q[x]
        BY <2>3, <2>4, <2>5, <2>6
    <2> QED BY <2>1, <2>7
<1> HIDE DEF T
<1>4. Nat \subseteq T
    BY <1>2, <1>3, SetInduction
<1>5. y - x \in Nat /\ x + (y - x) = y /\ y <= n /\ y \in 0..n /\ y \in 0..m /\ x \in 0..m
    BY <1>1
<1>6. q[y] + pos[x] <= pos[y] + q[x]
    BY <1>4, <1>5 DEF T
<1>7. pos[x] \in Nat /\ pos[y] \in Nat /\ q[x] \in Nat /\ q[y] \in Nat
    BY <1>1, <1>5
<1> QED BY <1>6, <1>7

\* Tight readings of the same bytes are the same.
LEMMA TightSame ==
    ASSUME NEW d, NEW pos, NEW b, NEW n, Reading(d, pos, b, n), Tight(pos, b, n),
           NEW e, NEW q, NEW c, NEW m, Reading(e, q, c, m), Tight(q, c, m),
           n <= m, \A i \in 1..n : b[i] = c[i], NEW y \in 0..n
    PROVE  pos[y] = q[y]
<1>1. n \in Nat /\ m \in Nat /\ (\A i \in 0..n : pos[i] \in Nat) /\ pos[0] = 0 /\ q[0] = 0
    BY ReadingSteps
<1> DEFINE T == {k \in Nat : k <= n => pos[k] = q[k]}
<1>2. 0 \in T
    BY <1>1
<1>3. ASSUME NEW k \in T PROVE k + 1 \in T
    <2> SUFFICES ASSUME k + 1 <= n PROVE pos[k + 1] = q[k + 1]
        OBVIOUS
    <2>1. PICK i \in 1..n : i = k + 1 /\ i - 1 = k /\ k <= n /\ i \in 1..m /\ i - 1 \in 0..n
        BY <1>1
    <2>2. pos[i - 1] = q[i - 1] /\ pos[i - 1] \in Nat
        BY <1>1, <2>1
    <2>3. Shares(b, i) <=> Shares(c, i)
        <3>1. b[i] = c[i] /\ (i > 1 => b[i - 1] = c[i - 1])
            <4>1. i > 1 => i - 1 \in 1..n
                BY <1>1
            <4> QED BY <4>1
        <3> QED BY <3>1 DEF Shares
    <2>4. /\ pos[i] = pos[i - 1] + 1 \/ (pos[i] = pos[i - 1] /\ Shares(b, i))
          /\ Shares(b, i) => pos[i] = pos[i - 1]
        <3>1. pos[i] = pos[i - 1] + 1 \/ (pos[i] = pos[i - 1] /\ Shares(b, i))
            BY ReadingByte
        <3>2. Shares(b, i) => pos[i] = pos[i - 1]
            BY DEF Tight
        <3> QED BY <3>1, <3>2
    <2>5. /\ q[i] = q[i - 1] + 1 \/ (q[i] = q[i - 1] /\ Shares(c, i))
          /\ Shares(c, i) => q[i] = q[i - 1]
        <3>1. q[i] = q[i - 1] + 1 \/ (q[i] = q[i - 1] /\ Shares(c, i))
            BY <2>1, ReadingByte
        <3>2. Shares(c, i) => q[i] = q[i - 1]
            BY <2>1 DEF Tight
        <3> QED BY <3>1, <3>2
    <2>6. pos[i] = q[i]
        BY <2>2, <2>3, <2>4, <2>5
    <2> QED BY <2>1, <2>6
<1> HIDE DEF T
<1>4. Nat \subseteq T
    BY <1>2, <1>3, SetInduction
<1>5. y \in T /\ y <= n
    BY <1>1, <1>4
<1> QED BY <1>5 DEF T

-----------------------------------------------------------------------------
(* What is left of the characters.                                          *)

\* What a character, or a byte, adds to the characters of one byte.
Left(c) == IF c.is \in {"wide", "replaced", "lead", "tail"} THEN <<>> ELSE <<c>>

LEMMA KeptMore ==
    ASSUME NEW s \in Seq(Signs), NEW c \in Signs, c.is \notin {"lead", "tail"}
    PROVE  Kept(s \o <<c>>) = Kept(s) \o Left(c)
<1> DEFINE piece(a) == IF a.is \in {"wide", "replaced"} THEN <<>> ELSE <<a>>
           F == [k \in 1..(Len(s) + 1) |-> piece((s \o <<c>>)[k])]
<1>1. PICK w, n : w = s \o <<c>> /\ n = Len(s) /\ n \in Nat
    BY LenProperties
<1>2. w \in Seq(Signs) /\ Len(w) = n + 1 /\ (\A k \in 1..n : w[k] = s[k]) /\ w[n + 1] = c
    BY <1>1, Followed
<1>3. DOMAIN w = 1..(n + 1) /\ DOMAIN s = 1..n
    BY <1>1, <1>2, LenProperties
<1>4. \A k \in 1..(n + 1) : F[k] = piece(w[k])
    BY <1>1
<1>5. F[n + 1] = Left(c)
    <2>1. n + 1 \in 1..(n + 1)
        BY <1>1
    <2>2. F[n + 1] = piece(c)
        BY <1>2, <1>4, <2>1
    <2> QED BY <2>2 DEF Left
<1>6. Kept(w) = FlattenSeq([k \in 1..(n + 1) |-> F[k]])
    <2>1. [k \in DOMAIN w |-> piece(w[k])] = [k \in 1..(n + 1) |-> F[k]]
        BY <1>3, <1>4
    <2>2. Kept(w) = FlattenSeq([k \in DOMAIN w |-> piece(w[k])])
        BY DEF Kept
    <2> QED BY <2>1, <2>2
<1>7. Kept(s) = FlattenSeq([k \in 1..n |-> F[k]])
    <2>1. [k \in DOMAIN s |-> piece(s[k])] = [k \in 1..n |-> F[k]]
        <3>1. \A k \in 1..n : F[k] = piece(s[k])
            <4>1. \A k \in 1..n : k \in 1..(n + 1)
                BY <1>1
            <4> QED BY <1>2, <1>4, <4>1
        <3> QED BY <1>3, <3>1
    <2>2. Kept(s) = FlattenSeq([k \in DOMAIN s |-> piece(s[k])])
        BY DEF Kept
    <2> QED BY <2>1, <2>2
<1> HIDE DEF F
<1>8. F[n + 1] \in Seq(Signs)
    <2>1. Left(c) = <<>> \/ Left(c) = <<c>>
        BY DEF Left
    <2>2. <<>> \in Seq(Signs) /\ <<c>> \in Seq(Signs)
        BY OneElement
    <2> QED BY <1>5, <2>1, <2>2
<1>9. FlattenSeq([k \in 1..(n + 1) |-> F[k]]) = FlattenSeq([k \in 1..n |-> F[k]]) \o F[n + 1]
    BY <1>1, <1>8, FlattenOneMore
<1> QED BY <1>1, <1>5, <1>6, <1>7, <1>9

LEMMA KeptTyped ==
    ASSUME NEW s \in Seq(Signs)
    PROVE  Kept(s) \in Seq(Signs)
<1> DEFINE F == [k \in DOMAIN s |-> IF s[k].is \in {"wide", "replaced"} THEN <<>> ELSE <<s[k]>>]
<1>1. DOMAIN s = 1..Len(s) /\ Len(s) \in Nat /\ \A k \in 1..Len(s) : s[k] \in Signs
    BY LenProperties, ElementOfSeq
<1>2. \A k \in 1..Len(s) : F[k] \in Seq(Signs)
    <2> TAKE k \in 1..Len(s)
    <2>1. F[k] = <<>> \/ F[k] = <<s[k]>>
        BY <1>1
    <2>2. <<>> \in Seq(Signs) /\ <<s[k]>> \in Seq(Signs)
        BY <1>1, OneElement
    <2> QED BY <2>1, <2>2
<1>3. F = [k \in 1..Len(s) |-> F[k]]
    BY <1>1
<1>4. Kept(s) = FlattenSeq(F)
    BY DEF Kept
<1> HIDE DEF F
<1>5. FlattenSeq([k \in 1..Len(s) |-> F[k]]) \in Seq(Signs)
    BY <1>1, <1>2, FlattenTyped
<1> QED BY <1>3, <1>4, <1>5

\* What the first k characters leave.
LeftOf(d, k) == Kept(SubSeq(d, 1, k))

LEMMA LeftOfMore ==
    ASSUME NEW d, NEW pos, NEW b, NEW n, Reading(d, pos, b, n), NEW i \in 1..n
    PROVE  LeftOf(d, pos[i]) = LeftOf(d, pos[i - 1]) \o Left(b[i])
<1>1. d \in Seq(Signs) /\ n \in Nat /\ n <= Len(b) /\ Len(b) \in Nat /\ b \in Seq(Signs)
    BY ReadingSteps
<1>2. i \in 0..n /\ i - 1 \in 0..n /\ i \in (i - 1)..n /\ i \in 1..Len(b)
    BY <1>1
<1>3. PICK k, l : k = pos[i] /\ l = pos[i - 1]
    OBVIOUS
<1>4. k \in Nat /\ l \in Nat /\ l <= k /\ k <= Len(d) /\ Len(d) \in Nat
    BY <1>2, <1>3, ReadingMonotone
<1>5. /\ SubSeq(d, 1, l) \in Seq(Signs)
      /\ \A j \in 1..Len(d) : d[j] \in Signs
    <2>1. 0 \in Nat /\ 0 <= l /\ l <= Len(d) /\ 0 + 1 = 1
        BY <1>4
    <2>2. SubSeq(d, 0 + 1, l) \in Seq(Signs)
        BY <1>1, <1>4, <2>1, PartIs
    <2> QED BY <1>1, <2>1, <2>2, ElementOfSeq
<1>6. CASE k = l + 1 /\ IsChar(d[k], b[i])
    <2>1. k \in 1..Len(d) /\ 1 \in 1..Len(d) /\ k - 1 = l
        BY <1>4, <1>6
    <2>2. SubSeq(d, 1, k) = SubSeq(d, 1, l) \o <<d[k]>>
        BY <1>1, <2>1, SubSeqRecursiveSecond
    <2>3. d[k] \in Signs /\ b[i] \in Signs
        BY <1>1, <1>2, <1>5, <2>1, ElementOfSeq
    <2>4. CASE b[i].is \in {"lead", "tail"}
        <3>1. d[k].is \in {"wide", "replaced"}
            BY <1>6, <2>4 DEF IsChar
        <3>2. Kept(SubSeq(d, 1, k)) = Kept(SubSeq(d, 1, l)) \o Left(d[k])
            <4>1. d[k].is \notin {"lead", "tail"}
                BY <3>1
            <4> QED BY <1>5, <2>2, <2>3, <4>1, KeptMore
        <3>3. Left(d[k]) = <<>> /\ Left(b[i]) = <<>>
            BY <2>4, <3>1 DEF Left
        <3> QED BY <1>3, <3>2, <3>3 DEF LeftOf
    <2>5. CASE ~(b[i].is \in {"lead", "tail"})
        <3>1. d[k] = b[i]
            BY <1>6, <2>5 DEF IsChar
        <3>2. Kept(SubSeq(d, 1, k)) = Kept(SubSeq(d, 1, l)) \o Left(d[k])
            <4>1. d[k].is \notin {"lead", "tail"}
                BY <2>5, <3>1
            <4> QED BY <1>5, <2>2, <2>3, <4>1, KeptMore
        <3> QED BY <1>3, <3>1, <3>2 DEF LeftOf
    <2> QED BY <2>4, <2>5
<1>7. CASE k = l /\ Shares(b, i)
    <2>1. Left(b[i]) = <<>>
        BY <1>7 DEF Shares, Left
    <2>2. Kept(SubSeq(d, 1, l)) \in Seq(Signs)
        BY <1>5, KeptTyped
    <2>3. Kept(SubSeq(d, 1, l)) \o <<>> = Kept(SubSeq(d, 1, l))
        BY <2>2, ConcatEmptySeq
    <2> QED BY <1>3, <1>7, <2>1, <2>3 DEF LeftOf
<1>8. \/ k = l + 1 /\ IsChar(d[k], b[i])
      \/ k = l /\ Shares(b, i)
    BY <1>3, ReadingByte
<1> QED BY <1>6, <1>7, <1>8

\* Two readings of the same bytes differ only in characters that were cut.
LEMMA ReadingsAlike ==
    ASSUME NEW d, NEW pos, NEW b, NEW n, Reading(d, pos, b, n), NEW e, NEW q, Reading(e, q, b, n)
    PROVE  Alike(d, e)
<1>1. n \in Nat /\ pos[0] = 0 /\ q[0] = 0 /\ pos[n] = Len(d) /\ q[n] = Len(e)
      /\ d \in Seq(Signs) /\ e \in Seq(Signs)
    BY ReadingSteps
<1> DEFINE T == {k \in Nat : k <= n => LeftOf(d, pos[k]) = LeftOf(e, q[k])}
<1>2. 0 \in T
    <2>1. SubSeq(d, 1, 0) = <<>> /\ SubSeq(e, 1, 0) = <<>>
        BY SubSeqEmpty
    <2> QED BY <1>1, <2>1 DEF LeftOf
<1>3. ASSUME NEW k \in T PROVE k + 1 \in T
    <2> SUFFICES ASSUME k + 1 <= n PROVE LeftOf(d, pos[k + 1]) = LeftOf(e, q[k + 1])
        OBVIOUS
    <2>1. PICK i \in 1..n : i = k + 1 /\ i - 1 = k /\ k <= n
        BY <1>1
    <2>2. LeftOf(d, pos[i - 1]) = LeftOf(e, q[i - 1])
        BY <2>1
    <2>3. LeftOf(d, pos[i]) = LeftOf(d, pos[i - 1]) \o Left(b[i])
        BY LeftOfMore
    <2>4. LeftOf(e, q[i]) = LeftOf(e, q[i - 1]) \o Left(b[i])
        BY LeftOfMore
    <2> QED BY <2>1, <2>2, <2>3, <2>4
<1> HIDE DEF T
<1>4. Nat \subseteq T
    BY <1>2, <1>3, SetInduction
<1>5. LeftOf(d, Len(d)) = LeftOf(e, Len(e))
    <2>1. n \in T /\ n <= n
        BY <1>1, <1>4
    <2> QED BY <1>1, <2>1 DEF T
<1>6. SubSeq(d, 1, Len(d)) = d /\ SubSeq(e, 1, Len(e)) = e
    BY <1>1, SubSeqFull
<1> QED BY <1>5, <1>6 DEF LeftOf, Alike

\* Nothing is cut if every character is of one byte.
LEMMA ReadingPlain ==
    ASSUME NEW d, NEW pos, NEW b, Reading(d, pos, b, Len(b)),
           \A i \in 1..Len(b) : b[i].is \notin {"lead", "tail"}
    PROVE  d = b
<1>1. PICK n : n = Len(b)
    OBVIOUS
<1>2. /\ n \in Nat /\ pos[0] = 0 /\ pos[n] = Len(d) /\ d \in Seq(Signs) /\ b \in Seq(Signs)
      /\ \A i \in 0..n : pos[i] \in Nat
    BY <1>1, ReadingSteps
<1>3. ASSUME NEW i \in 1..n PROVE pos[i] = pos[i - 1] + 1 /\ d[pos[i]] = b[i]
    <2>1. \/ pos[i] = pos[i - 1] + 1 /\ IsChar(d[pos[i]], b[i])
          \/ pos[i] = pos[i - 1] /\ Shares(b, i)
        BY <1>1, ReadingByte
    <2>2. b[i].is \notin {"lead", "tail"}
        BY <1>1
    <2>3. ~Shares(b, i)
        BY <2>2 DEF Shares
    <2> QED BY <2>1, <2>2, <2>3 DEF IsChar
<1> DEFINE T == {k \in Nat : k <= n => pos[k] = k}
<1>4. 0 \in T
    BY <1>2
<1>5. ASSUME NEW k \in T PROVE k + 1 \in T
    <2> SUFFICES ASSUME k + 1 <= n PROVE pos[k + 1] = k + 1
        OBVIOUS
    <2>1. k + 1 \in 1..n /\ (k + 1) - 1 = k /\ k <= n
        BY <1>2
    <2> QED BY <1>3, <2>1
<1> HIDE DEF T
<1>6. Nat \subseteq T
    BY <1>4, <1>5, SetInduction
<1>7. \A i \in 0..n : pos[i] = i
    <2> TAKE i \in 0..n
    <2>1. i \in Nat /\ i <= n
        BY <1>2
    <2>2. i \in T
        BY <1>6, <2>1
    <2> QED BY <2>1, <2>2 DEF T
<1>8. Len(d) = n /\ \A i \in 1..n : d[i] = b[i]
    <2>1. n \in 0..n /\ \A i \in 1..n : i \in 0..n
        BY <1>2
    <2> QED BY <1>2, <1>3, <1>7, <2>1
<1> QED BY <1>1, <1>2, <1>8, SeqEqual

\* The bytes of a message.
IsPayload(s, n) ==
    /\ s \in Seq(Signs) /\ Len(s) = n /\ n \in Nat /\ n >= 2
    /\ s[1].is = "{" /\ s[n].is = "}"
    /\ \A k \in 2..(n - 1) : s[k].is \in {"narrow", "lead", "tail"}

\* A message is an object, wherever it was cut.
LEMMA ReadingObject ==
    ASSUME NEW d, NEW pos, NEW s, NEW n, Reading(d, pos, s, n), IsPayload(s, n)
    PROVE  Object(d)
<1>2. /\ n \in Nat /\ n >= 2 /\ pos[0] = 0 /\ pos[n] = Len(d) /\ d \in Seq(Signs)
      /\ Len(d) \in Nat /\ \A i \in 0..n : pos[i] \in Nat
    <2>1. n >= 2
        BY Zenon DEF IsPayload
    <2> QED BY <2>1, ReadingSteps
<1>1. s[1].is = "{" /\ s[n].is = "}" /\ \A k \in 2..(n - 1) : s[k].is \in {"narrow", "lead", "tail"}
    BY Zenon DEF IsPayload
<1>3. 1 \in 1..n /\ n \in 1..n /\ n - 1 \in 1..n /\ 1 \in 0..n /\ n - 1 \in 0..n
      /\ \A k \in 1..n : k = 1 \/ k = n \/ k \in 2..(n - 1)
    BY <1>2
<1>4. ASSUME NEW i \in {1, n} PROVE pos[i] = pos[i - 1] + 1 /\ d[pos[i]] = s[i]
    <2>1. s[i].is \in {"{", "}"} /\ i \in 1..n
        BY <1>1, <1>3
    <2>2. \/ pos[i] = pos[i - 1] + 1 /\ IsChar(d[pos[i]], s[i])
          \/ pos[i] = pos[i - 1] /\ Shares(s, i)
        BY <2>1, ReadingByte
    <2> QED BY <2>1, <2>2 DEF Shares, IsChar
<1>5. pos[1] = 1 /\ d[1].is = "{"
    <2>1. 1 - 1 = 0 /\ 0 + 1 = 1
        OBVIOUS
    <2>2. pos[1] = pos[0] + 1 /\ d[pos[1]] = s[1]
        BY <1>4, <2>1
    <2> QED BY <1>1, <1>2, <2>1, <2>2
<1>6. pos[n] = pos[n - 1] + 1 /\ d[Len(d)].is = "}"
    <2>1. pos[n] = pos[n - 1] + 1 /\ d[pos[n]] = s[n]
        BY <1>4
    <2> QED BY <1>1, <1>2, <2>1
<1>7. Len(d) >= 2
    <2>1. 1 \in 0..n /\ n - 1 \in 1..n
        BY <1>3
    <2>2. pos[1] <= pos[n - 1] /\ pos[n - 1] \in Nat
        BY <2>1, ReadingMonotone
    <2>3. PICK k : k = pos[n - 1]
        OBVIOUS
    <2>4. 1 <= k /\ k \in Nat /\ Len(d) = k + 1
        BY <1>2, <1>5, <1>6, <2>2, <2>3
    <2> QED BY <2>4
<1>8. ASSUME NEW k \in 2..(Len(d) - 1) PROVE d[k].is \in {"narrow", "wide", "replaced"}
    <2>1. k \in 1..Len(d)
        BY <1>2
    <2>2. PICK i \in 1..n : pos[i] = k /\ IsChar(d[k], s[i])
        BY <2>1, ReadingMeets
    <2>3. i # 1 /\ i # n
        <3>1. k # 1 /\ k # Len(d)
            BY <1>2
        <3> QED BY <1>2, <1>5, <2>2, <3>1
    <2>4. s[i].is \in {"narrow", "lead", "tail"}
        BY <1>1, <1>3, <2>3
    <2> QED BY <2>2, <2>4 DEF IsChar
<1> QED BY <1>2, <1>5, <1>6, <1>7, <1>8 DEF Object

-----------------------------------------------------------------------------
(* Parsing a message that was cut too late.                                 *)

LEMMA GreatestExists ==
    ASSUME NEW n \in Nat, NEW I, I \subseteq 1..n, I # {}
    PROVE  \E x \in I : \A y \in I : x >= y
<1> DEFINE T == {m \in Nat : \A J \in SUBSET (1..m) : J # {} => \E x \in J : \A y \in J : x >= y}
<1>1. 0 \in T
    <2>1. \A J \in SUBSET (1..0) : J = {}
        OBVIOUS
    <2> QED BY <2>1
<1>2. ASSUME NEW m \in T PROVE m + 1 \in T
    <2> SUFFICES ASSUME NEW J \in SUBSET (1..(m + 1)), J # {} PROVE \E x \in J : \A y \in J : x >= y
        OBVIOUS
    <2>1. m \in Nat /\ \A y \in 1..(m + 1) : m + 1 >= y /\ (y # m + 1 => y \in 1..m)
        OBVIOUS
    <2>2. CASE m + 1 \in J
        BY <2>1, <2>2
    <2>3. CASE m + 1 \notin J
        <3>1. J \subseteq 1..m
            BY <2>1, <2>3
        <3> QED BY <3>1
    <2> QED BY <2>2, <2>3
<1> HIDE DEF T
<1>3. n \in T
    BY <1>1, <1>2, SetInduction
<1> QED BY <1>3 DEF T

LEMMA ParsedSpaced ==
    ASSUME NEW t, Object(t), NEW b \in Seq(Signs), Len(t) <= Len(b),
           \A k \in 1..Len(t) : b[k] = t[k],
           \A k \in (Len(t) + 1)..Len(b) : b[k].is \in {"cr", "lf"}
    PROVE  Parsed(b) = <<t>>
<1> DEFINE space(c) == c.is \in {"cr", "lf"}
<1>1. t \in Seq(Signs) /\ Len(t) \in Nat /\ Len(t) >= 2 /\ Len(b) \in Nat
    BY LenProperties DEF Object
<1>2. {i \in 1..Len(b) : ~space(b[i])} = 1..Len(t)
    <2>1. ASSUME NEW i \in 1..Len(t) PROVE i \in 1..Len(b) /\ ~space(b[i])
        <3>1. i = 1 \/ i = Len(t) \/ i \in 2..(Len(t) - 1)
            BY <1>1
        <3>2. ~space(t[i])
            BY <3>1 DEF Object
        <3> QED BY <1>1, <3>2
    <2>2. ASSUME NEW i \in 1..Len(b), ~space(b[i]) PROVE i \in 1..Len(t)
        <3>1. i \notin (Len(t) + 1)..Len(b)
            BY <2>2
        <3> QED BY <1>1, <3>1
    <2> QED BY <2>1, <2>2
<1>3. Min(1..Len(t)) = 1 /\ Max(1..Len(t)) = Len(t) /\ 1..Len(t) # {}
    BY <1>1, ExtremesOf
<1>4. SelectLastInSeq(b, LAMBDA c : ~space(c)) = Len(t)
    BY <1>2, <1>3, Zenon DEF SelectLastInSeq
<1>5. SelectInSeq(b, LAMBDA c : ~space(c)) = 1
    BY <1>2, <1>3, Zenon DEF SelectInSeq
<1>6. SubSeq(b, 1, Len(t)) = t
    <2>1. PICK s : s = SubSeq(b, 0 + 1, Len(t))
        OBVIOUS
    <2>2. 0 \in Nat /\ 0 <= Len(t) /\ Len(t) - 0 = Len(t) /\ 0 + 1 = 1 /\ \A k \in 1..Len(t) : 0 + k = k
        BY <1>1
    <2>3. /\ s \in Seq(Signs) /\ Len(s) = Len(t) - 0
          /\ \A j \in 1..(Len(t) - 0) : s[j] = b[0 + j]
        BY <1>1, <2>1, <2>2, PartIs
    <2>4. s = t
        BY <1>1, <2>2, <2>3, SeqEqual
    <2> QED BY <2>1, <2>2, <2>4
<1>7. Parsed(b) = IF /\ 1 # 0 /\ 1 < Len(t)
                     /\ SubSeq(b, 1, Len(t))[1].is = "{"
                     /\ SubSeq(b, 1, Len(t))[Len(SubSeq(b, 1, Len(t)))].is = "}"
                     /\ \A k \in 2..(Len(SubSeq(b, 1, Len(t))) - 1) :
                          SubSeq(b, 1, Len(t))[k].is \in {"narrow", "wide", "replaced"}
                  THEN <<SubSeq(b, 1, Len(t))>> ELSE <<>>
    BY <1>4, <1>5, Zenon DEF Parsed
<1>8. 1 < Len(t)
    BY <1>1
<1>9. /\ t[1].is = "{" /\ t[Len(t)].is = "}"
      /\ \A k \in 2..(Len(t) - 1) : t[k].is \in {"narrow", "wide", "replaced"}
    BY Zenon DEF Object
<1>10. 1 # 0
    OBVIOUS
<1> QED BY <1>6, <1>7, <1>8, <1>9, <1>10, Zenon

\* The beginning of another frame is in it.
Broken(b, n, m) == b \in Seq(Signs) /\ Len(b) = n /\ m \in 1..n /\ b[1].is = "{" /\ b[m].is = "MSG"

LEMMA ParsedNothing ==
    ASSUME NEW b, NEW n \in Nat, NEW m, Broken(b, n, m)
    PROVE  Parsed(b) = <<>>
<1> DEFINE space(c) == c.is \in {"cr", "lf"}
           I == {i \in 1..Len(b) : ~space(b[i])}
<1>0. b \in Seq(Signs) /\ Len(b) = n /\ m \in 1..n /\ b[1].is = "{" /\ b[m].is = "MSG"
    BY DEF Broken
<1>1. m \in Nat /\ m <= n /\ 1 <= m /\ 1 <= n /\ 1 \in 1..n
    <2>1. m \in 1..n
        BY <1>0
    <2> QED BY <2>1
<1>2. m # 1 /\ 2 <= m
    <2>1. m # 1
        BY <1>0
    <2> QED BY <1>1, <2>1
<1>3. 1 \in I /\ m \in I /\ I \subseteq 1..n
    BY <1>0, <1>1
<1>4. I \subseteq Nat /\ \A y \in I : 1 <= y
    <2> HIDE DEF I
    <2> QED BY <1>3
<1>5. SelectInSeq(b, LAMBDA c : ~space(c)) = 1
    <2>1. Min(I) = 1 /\ I # {}
        <3> HIDE DEF I
        <3> QED BY <1>3, <1>4, LeastOf
    <2> QED BY <2>1, Zenon DEF SelectInSeq
<1>6. PICK z \in I : z = Max(I) /\ \A y \in I : z >= y
    <2> HIDE DEF I
    <2>1. \E x \in I : \A y \in I : x >= y
        BY <1>3, GreatestExists
    <2> QED BY <2>1, Zenon DEF Max
<1>7. SelectLastInSeq(b, LAMBDA c : ~space(c)) = z
    <2>1. I # {}
        BY <1>3
    <2> QED BY <1>6, <2>1, Zenon DEF SelectLastInSeq
<1>8. z \in Nat /\ z <= n /\ m <= z
    <2> HIDE DEF I
    <2>1. z \in 1..n /\ z >= m
        BY <1>3, <1>6
    <2> QED BY <1>1, <2>1
<1> DEFINE o == SubSeq(b, 1, z)
<1>9. Len(o) = z /\ o[m].is = "MSG"
    <2> HIDE DEF I
    <2>1. 0 \in Nat /\ 0 <= z /\ z - 0 = z /\ 0 + 1 = 1 /\ 0 + m = m /\ m \in 1..(z - 0)
        BY <1>1, <1>8
    <2>2. b \in Seq(Signs) /\ z <= Len(b)
        BY <1>0, <1>8
    <2>3. /\ Len(SubSeq(b, 0 + 1, z)) = z - 0
          /\ \A j \in 1..(z - 0) : SubSeq(b, 0 + 1, z)[j] = b[0 + j]
        BY <1>8, <2>1, <2>2, PartIs
    <2>4. Len(SubSeq(b, 0 + 1, z)) = z - 0 /\ SubSeq(b, 0 + 1, z)[m] = b[0 + m]
        BY <2>1, <2>3, Zenon
    <2> QED BY <1>0, <2>1, <2>4
<1>10. Parsed(b) = IF /\ 1 # 0 /\ 1 < z
                      /\ o[1].is = "{" /\ o[Len(o)].is = "}"
                      /\ \A k \in 2..(Len(o) - 1) : o[k].is \in {"narrow", "wide", "replaced"}
                   THEN <<o>> ELSE <<>>
    BY <1>5, <1>7, Zenon DEF Parsed
<1> HIDE DEF o, I
<1>11. m = z \/ m \in 2..(z - 1)
    BY <1>1, <1>2, <1>8
<1> QED BY <1>9, <1>10, <1>11

LEMMA ParsedEmpty == Parsed(<<>>) = <<>>
<1> DEFINE space(c) == c.is \in {"cr", "lf"}
<1>1. {i \in 1..Len(<<>>) : ~space(<<>>[i])} = {}
    OBVIOUS
<1>2. SelectInSeq(<<>>, LAMBDA c : ~space(c)) = 0
    BY <1>1, Zenon DEF SelectInSeq
<1> QED BY <1>2, Zenon DEF Parsed

-----------------------------------------------------------------------------
(* Where the frames are among the characters.                               *)

\* The first n bytes of the stream, decoded in chunks.
Reads(d, pos, n) == Streaming /\ Reading(d, pos, Stream, n)

\* Where the j-th frame ends.
End(pos, j) == pos[Len(Frames(j))]

LEMMA EndIs ==
    ASSUME NEW d, NEW pos, NEW n, Reads(d, pos, n), NEW j \in 0..Count, Len(Frames(j)) <= n
    PROVE  /\ Len(Frames(j)) \in 0..n /\ Len(Frames(j)) \in Nat /\ n \in Nat
           /\ End(pos, j) \in Nat /\ End(pos, j) <= Len(d) /\ Len(d) \in Nat
           /\ d \in Seq(Signs) /\ Streaming
<1>1. Streaming /\ Reading(d, pos, Stream, n)
    BY DEF Reads
<1>2. n \in Nat /\ d \in Seq(Signs) /\ Len(d) \in Nat
    BY <1>1, ReadingSteps
<1>3. Len(Frames(j)) \in Nat
    BY <1>1, FramesTyped
<1>4. Len(Frames(j)) \in 0..n /\ n \in Len(Frames(j))..n
    BY <1>2, <1>3
<1>5. pos[Len(Frames(j))] \in Nat /\ pos[Len(Frames(j))] <= Len(d)
    BY <1>1, <1>4, ReadingMonotone
<1> QED BY <1>1, <1>2, <1>3, <1>4, <1>5 DEF End

LEMMA EndMonotone ==
    ASSUME NEW d, NEW pos, NEW n, Reads(d, pos, n), NEW i \in 0..Count, NEW j \in i..Count,
           Len(Frames(j)) <= n
    PROVE  Len(Frames(i)) <= n /\ End(pos, i) <= End(pos, j)
<1>1. Streaming /\ Reading(d, pos, Stream, n) /\ Count \in Nat
    BY StreamTyped DEF Reads
<1>2. j \in 0..Count
    BY <1>1
<1>3. Len(Frames(i)) \in Nat /\ Len(Frames(j)) \in Nat /\ Len(Frames(i)) <= Len(Frames(j)) /\ n \in Nat
    BY <1>1, <1>2, FramesTyped, FramesPrefix, ReadingSteps
<1>4. Len(Frames(i)) \in 0..n /\ Len(Frames(j)) \in Len(Frames(i))..n
    BY <1>3
<1>5. pos[Len(Frames(i))] <= pos[Len(Frames(j))]
    BY <1>1, <1>4, ReadingMonotone
<1> QED BY <1>3, <1>5 DEF End

\* Every byte is of a frame.
LEMMA FrameOf ==
    ASSUME Streaming, NEW x \in 1..Len(Stream)
    PROVE  \E k \in Nat : /\ k < Count /\ k \in 0..Count /\ Len(Frames(k)) \in Nat /\ Len(Frames(k)) < x
                          /\ x - Len(Frames(k)) \in 1..Len(Frame(k + 1))
                          /\ Stream[x] = Frame(k + 1)[x - Len(Frames(k))]
<1>1. Len(Stream) \in Nat /\ Count \in Nat
    BY StreamTyped
<1>2. PICK y \in 0..Len(Stream) : y = x - 1
    BY <1>1
<1>3. PICK k \in 0..Count : Whole(k, y)
    BY WholeExists
<1>4. k < Count
    <2>1. CASE k = Count
        <3>1. Len(Stream) <= y
            BY <1>3, <2>1 DEF Whole, Stream
        <3> QED BY <1>1, <1>2, <3>1
    <2> QED BY <1>1, <2>1
<1>5. /\ Len(Frames(k)) \in Nat /\ Len(Frames(k + 1)) \in Nat
      /\ Len(Frame(k + 1)) \in Nat
      /\ Len(Frames(k + 1)) = Len(Frames(k)) + Len(Frame(k + 1))
      /\ \A j \in 1..Len(Frame(k + 1)) : Stream[Len(Frames(k)) + j] = Frame(k + 1)[j]
    BY <1>1, <1>4, StreamFrame
<1>6. Len(Frames(k)) <= y /\ y < Len(Frames(k + 1))
    BY <1>3, <1>4 DEF Whole
<1>7. PICK l, m : l = Len(Frames(k)) /\ m = Len(Frame(k + 1))
    OBVIOUS
<1>8. x - l \in 1..m /\ l + (x - l) = x /\ l < x /\ l \in Nat
    BY <1>1, <1>2, <1>5, <1>6, <1>7
<1>9. Stream[l + (x - l)] = Frame(k + 1)[x - l]
    BY <1>5, <1>7, <1>8
<1>10. k \in Nat
    BY <1>1
<1> QED BY <1>4, <1>7, <1>8, <1>9, <1>10, Zenon

\* A character of one byte.
LEMMA FrameChar ==
    ASSUME NEW d, NEW pos, NEW n, Reads(d, pos, n), NEW j \in Nat, j < Count,
           NEW k \in 1..Len(Frame(j + 1)), Len(Frames(j)) + k <= n,
           Frame(j + 1)[k].is \notin {"lead", "tail"}
    PROVE  /\ pos[Len(Frames(j)) + k] = pos[Len(Frames(j)) + k - 1] + 1
           /\ d[pos[Len(Frames(j)) + k]] = Frame(j + 1)[k]
<1>1. Streaming /\ Reading(d, pos, Stream, n) /\ n \in Nat
    BY ReadingSteps DEF Reads
<1>2. Len(Frames(j)) \in Nat /\ Stream[Len(Frames(j)) + k] = Frame(j + 1)[k] /\ Len(Frame(j + 1)) \in Nat
    BY <1>1, StreamFrame
<1>3. PICK x : x = Len(Frames(j)) + k
    OBVIOUS
<1>4. x \in 1..n
    BY <1>1, <1>2, <1>3
<1>5. \/ pos[x] = pos[x - 1] + 1 /\ IsChar(d[pos[x]], Stream[x])
      \/ pos[x] = pos[x - 1] /\ Shares(Stream, x)
    BY <1>1, <1>4, ReadingByte
<1>6. Stream[x].is \notin {"lead", "tail"} /\ Stream[x] = Frame(j + 1)[k]
    BY <1>2, <1>3
<1>7. ~Shares(Stream, x)
    BY <1>6 DEF Shares
<1>8. pos[x] = pos[x - 1] + 1 /\ d[pos[x]] = Stream[x]
    BY <1>5, <1>6, <1>7 DEF IsChar
<1> QED BY <1>3, <1>6, <1>8

\* A part by its length.
LEMMA PartAt ==
    ASSUME NEW S, NEW s \in Seq(S), NEW a \in Nat, NEW m \in Nat, a + m <= Len(s)
    PROVE  /\ SubSeq(s, a + 1, a + m) \in Seq(S) /\ Len(SubSeq(s, a + 1, a + m)) = m
           /\ \A k \in 1..m : SubSeq(s, a + 1, a + m)[k] = s[a + k]
<1>1. PICK n \in Nat : n = a + m /\ a <= n /\ n - a = m
    OBVIOUS
<1>2. n <= Len(s)
    BY <1>1
<1>3. /\ SubSeq(s, a + 1, n) \in Seq(S) /\ Len(SubSeq(s, a + 1, n)) = n - a
      /\ \A k \in 1..(n - a) : SubSeq(s, a + 1, n)[k] = s[a + k]
    BY <1>1, <1>2, PartIs
<1> QED BY <1>1, <1>3, Zenon

\* A part of a part.
LEMMA PartOfPart ==
    ASSUME NEW S, NEW s \in Seq(S), NEW a \in Nat, NEW n \in Nat, a <= n, n <= Len(s),
           NEW x \in Nat, NEW y \in Nat, x <= y, a + y <= n
    PROVE  SubSeq(SubSeq(s, a + 1, n), x + 1, y) = SubSeq(s, a + x + 1, a + y)
<1>1. PICK t : t = SubSeq(s, a + 1, n)
    OBVIOUS
<1>2. t \in Seq(S) /\ Len(t) = n - a /\ \A j \in 1..(n - a) : t[j] = s[a + j]
    <2>1. /\ SubSeq(s, a + 1, n) \in Seq(S) /\ Len(SubSeq(s, a + 1, n)) = n - a
          /\ \A j \in 1..(n - a) : SubSeq(s, a + 1, n)[j] = s[a + j]
        BY PartIs
    <2> QED BY <1>1, <2>1, Zenon
<1>3. y <= Len(t)
    BY <1>2
<1>4. PICK u : u = SubSeq(t, x + 1, y)
    OBVIOUS
<1>5. u \in Seq(S) /\ Len(u) = y - x /\ \A j \in 1..(y - x) : u[j] = t[x + j]
    <2>1. /\ SubSeq(t, x + 1, y) \in Seq(S) /\ Len(SubSeq(t, x + 1, y)) = y - x
          /\ \A j \in 1..(y - x) : SubSeq(t, x + 1, y)[j] = t[x + j]
        BY <1>2, <1>3, PartIs
    <2> QED BY <1>4, <2>1, Zenon
<1>6. PICK c \in Nat, e \in Nat : c = a + x /\ e = a + y /\ c <= e /\ e - c = y - x
    OBVIOUS
<1>7. Len(s) \in Nat
    BY LenProperties
<1>8. e <= Len(s)
    BY <1>6, <1>7
<1>9. PICK v : v = SubSeq(s, c + 1, e)
    OBVIOUS
<1>10. v \in Seq(S) /\ Len(v) = e - c /\ \A j \in 1..(e - c) : v[j] = s[c + j]
    <2>1. /\ SubSeq(s, c + 1, e) \in Seq(S) /\ Len(SubSeq(s, c + 1, e)) = e - c
          /\ \A j \in 1..(e - c) : SubSeq(s, c + 1, e)[j] = s[c + j]
        BY <1>6, <1>8, PartIs
    <2> QED BY <1>9, <2>1, Zenon
<1>11. ASSUME NEW j \in 1..(y - x) PROVE u[j] = v[j]
    <2>1. x + j \in 1..(n - a) /\ a + (x + j) = c + j
        BY <1>6
    <2> QED BY <1>2, <1>5, <1>6, <1>10, <2>1
<1>12. u = v
    BY <1>5, <1>6, <1>10, <1>11, SeqEqual
<1> QED BY <1>1, <1>4, <1>6, <1>9, <1>12, Zenon

-----------------------------------------------------------------------------
(* The lines of NATS.                                                       *)

Nats == reader \in {"tcp", "ws"}

\* The frame f of a message s of p bytes.
Around(f, s, p) ==
    /\ p \in Nat /\ p >= 2 /\ Len(f) = p + 6
    /\ f[1].is = "MSG" /\ f[2].is = "size" /\ f[2].of = p /\ f[3].is = "cr" /\ f[4].is = "lf"
    /\ \A k \in 5..(p + 4) : f[k] = s[k - 4] /\ k - 4 \in 1..p
    /\ f[p + 5].is = "cr" /\ f[p + 6].is = "lf"
    /\ \A k \in 1..(p + 6) : k \in {1, 2, 3, 4, p + 5, p + 6} \/ k \in 5..(p + 4)
    /\ \A k \in 1..p : s[k].is \in {"{", "}", "narrow", "lead", "tail", "wide", "replaced"}

LEMMA NatsFrameIs ==
    ASSUME Streaming, Nats, NEW j \in Nat, j < Count, NEW p, p = Len(Payload(j + 1)),
           NEW f, f = Frame(j + 1)
    PROVE  Around(f, Payload(j + 1), p)
<1>1. j + 1 \in 1..Count
    BY StreamTyped
<1>2. PICK s : s = Payload(j + 1)
    OBVIOUS
<1>3. p = Len(s) /\ p \in Nat /\ p >= 2
      /\ \A k \in 1..p : s[k].is \in {"{", "}", "narrow", "lead", "tail", "wide", "replaced"}
    BY <1>1, <1>2, PayloadBytes DEF Bytes
<1>4. NatsFrame(f, s)
    BY <1>1, <1>2, FrameIs DEF Nats
<1>5. /\ Len(f) = p + 6 /\ NatsShape(f, s) /\ f[p + 5].is = "cr" /\ f[p + 6].is = "lf"
    BY <1>3, <1>4 DEF NatsFrame
<1>6. /\ 1 <= Len(f) /\ 2 <= Len(f) /\ 3 <= Len(f) /\ 4 <= Len(f)
      /\ \A k \in 5..(p + 4) : k <= Len(f) /\ k - 4 \in 1..p
      /\ \A k \in 1..(p + 6) : k \in {1, 2, 3, 4, p + 5, p + 6} \/ k \in 5..(p + 4)
    <2>1. p \in Nat /\ Len(f) = p + 6
        BY <1>3, <1>5
    <2>2. \A k \in 1..(p + 6) : k \in {1, 2, 3, 4, p + 5, p + 6} \/ k \in 5..(p + 4)
        <3> TAKE k \in 1..(p + 6)
        <3>1. \/ k = 1 \/ k = 2 \/ k = 3 \/ k = 4 \/ k = p + 5 \/ k = p + 6
              \/ k \in 5..(p + 4)
            BY <2>1
        <3> QED BY <3>1
    <2> QED BY <2>1, <2>2
<1>7. f[1].is = "MSG" /\ f[3].is = "cr" /\ f[4].is = "lf" /\ f[2].is = "size" /\ f[2].of = p
    BY <1>3, <1>5, <1>6 DEF NatsShape, HeadShape
<1>8. \A k \in 5..(p + 4) : f[k] = s[k - 4]
    BY <1>3, <1>5, <1>6, Zenon DEF NatsShape
<1>9. Around(f, s, p)
    BY <1>3, <1>5, <1>6, <1>7, <1>8, Zenon DEF Around
<1> QED BY <1>2, <1>9

\* A line before a message has a character for each byte.
LEMMA LineChars ==
    ASSUME NEW d, NEW pos, NEW n, Reads(d, pos, n), Nats, NEW j \in Nat, j < Count,
           NEW h \in 1..4, Len(Frames(j)) + h <= n
    PROVE  /\ pos[Len(Frames(j)) + h] = End(pos, j) + h
           /\ d[End(pos, j) + h] = Frame(j + 1)[h]
<1>1. Streaming
    BY DEF Reads
<1>2. PICK l, p, f : l = Len(Frames(j)) /\ p = Len(Payload(j + 1)) /\ f = Frame(j + 1)
    OBVIOUS
<1>3. p \in Nat /\ Len(f) = p + 6 /\ f[1].is = "MSG" /\ f[2].is = "size" /\ f[3].is = "cr" /\ f[4].is = "lf"
    <2>1. Around(f, Payload(j + 1), p)
        BY <1>1, <1>2, NatsFrameIs
    <2> QED BY <2>1, Zenon DEF Around
<1>4. j \in 0..Count /\ l \in Nat /\ n \in Nat /\ l + h <= n
    <2>1. j \in 0..Count
        BY <1>1, StreamTyped
    <2> QED BY <1>1, <1>2, <2>1, FramesTyped, ReadingSteps DEF Reads
<1>5. pos[l] = End(pos, j) /\ End(pos, j) \in Nat
    BY <1>2, <1>4, EndIs DEF End
<1>6. ASSUME NEW k \in 1..4, l + k <= n
      PROVE  pos[l + k] = pos[l + k - 1] + 1 /\ d[pos[l + k]] = f[k]
    <2>1. k \in 1..Len(f) /\ f[k].is \notin {"lead", "tail"}
        BY <1>3
    <2> QED BY <1>2, <1>6, <2>1, FrameChar
<1>7. /\ 1 \in 1..4 /\ 2 \in 1..4 /\ 3 \in 1..4 /\ 4 \in 1..4
      /\ l + 1 - 1 = l /\ l + 2 - 1 = l + 1 /\ l + 3 - 1 = l + 2 /\ l + 4 - 1 = l + 3
      /\ l + 1 <= n
      /\ h >= 2 => l + 2 <= n
      /\ h >= 3 => l + 3 <= n
      /\ h >= 4 => l + 4 <= n
    BY <1>4
<1>8. pos[l + 1] = End(pos, j) + 1
    BY <1>5, <1>6, <1>7
<1>9. h >= 2 => pos[l + 2] = End(pos, j) + 2
    <2>1. h >= 2 => pos[l + 2] = pos[l + 1] + 1
        BY <1>6, <1>7
    <2> QED BY <1>5, <1>8, <2>1
<1>10. h >= 3 => pos[l + 3] = End(pos, j) + 3
    <2>1. h >= 3 => pos[l + 3] = pos[l + 2] + 1 /\ h >= 2
        BY <1>6, <1>7
    <2> QED BY <1>5, <1>9, <2>1
<1>11. h >= 4 => pos[l + 4] = End(pos, j) + 4
    <2>1. h >= 4 => pos[l + 4] = pos[l + 3] + 1 /\ h >= 3
        BY <1>6, <1>7
    <2> QED BY <1>5, <1>10, <2>1
<1>12. pos[l + h] = End(pos, j) + h
    <2>1. h = 1 \/ h = 2 \/ h = 3 \/ h = 4
        OBVIOUS
    <2> QED BY <1>8, <1>9, <1>10, <1>11, <2>1
<1>13. d[pos[l + h]] = f[h]
    BY <1>4, <1>6
<1> QED BY <1>2, <1>12, <1>13

\* It has arrived if its characters have.
LEMMA LineArrived ==
    ASSUME NEW d, NEW pos, NEW n, Reads(d, pos, n), NEW j \in 0..Count, Len(Frames(j)) <= n,
           NEW h \in Nat, End(pos, j) + h <= Len(d)
    PROVE  Len(Frames(j)) + h <= n
<1>1. PICK l, e, N : l = Len(Frames(j)) /\ e = End(pos, j) /\ N = Len(d)
    OBVIOUS
<1>2. l \in 0..n /\ l \in Nat /\ n \in Nat /\ e \in Nat /\ N \in Nat /\ e = pos[l] /\ N = pos[n]
    BY <1>1, EndIs, ReadingSteps DEF Reads, End
<1>3. n \in l..n
    BY <1>2
<1>4. pos[n] <= pos[l] + (n - l)
    BY <1>2, <1>3, ReadingMonotone DEF Reads
<1> QED BY <1>1, <1>2, <1>4

\* The buffer from the beginning of a frame.
LEMMA LineHead ==
    ASSUME NEW d, NEW pos, NEW n, Reads(d, pos, n), Nats, NEW j \in Nat, j < Count, Len(Frames(j)) <= n,
           NEW b, b = SubSeq(d, End(pos, j) + 1, Len(d))
    PROVE  /\ b \in Seq(Signs) /\ Len(b) \in Nat /\ Len(b) = Len(d) - End(pos, j)
           /\ \A k \in 1..Len(b) : b[k] = d[End(pos, j) + k]
           /\ HeadShape(b, Payload(j + 1))
<1>0. Streaming
    BY DEF Reads
<1>1. j \in 0..Count
    BY <1>0, StreamTyped
<1>2. End(pos, j) \in Nat /\ End(pos, j) <= Len(d) /\ Len(d) \in Nat /\ d \in Seq(Signs)
    BY <1>1, EndIs
<1>3. PICK e \in Nat, N \in Nat : e = End(pos, j) /\ N = Len(d) /\ e <= N
    BY <1>2
<1>4. b \in Seq(Signs) /\ Len(b) = N - e /\ \A k \in 1..(N - e) : b[k] = d[e + k]
    <2>1. /\ SubSeq(d, e + 1, N) \in Seq(Signs) /\ Len(SubSeq(d, e + 1, N)) = N - e
          /\ \A k \in 1..(N - e) : SubSeq(d, e + 1, N)[k] = d[e + k]
        <3>1. e \in Nat /\ N \in Nat /\ e <= N /\ N <= Len(d) /\ d \in Seq(Signs)
            BY <1>2, <1>3
        <3> QED BY <3>1, PartIs
    <2>2. SubSeq(d, e + 1, N) = b
        BY <1>3
    <2> QED BY <2>1, <2>2
<1>5. ASSUME NEW h \in 1..4, h <= Len(b) PROVE b[h] = Frame(j + 1)[h]
    <2>1. h \in Nat /\ h \in 1..(N - e) /\ e + h <= N
        BY <1>3, <1>4, <1>5
    <2>2. Len(Frames(j)) + h <= n
        BY <1>1, <1>3, <2>1, LineArrived
    <2>3. d[e + h] = Frame(j + 1)[h]
        <3>1. d[End(pos, j) + h] = Frame(j + 1)[h]
            BY <2>2, LineChars
        <3> QED BY <1>3, <3>1
    <2> QED BY <1>4, <2>1, <2>3
<1>6. PICK f, p : f = Frame(j + 1) /\ p = Len(Payload(j + 1))
    OBVIOUS
<1>7. /\ f[1].is = "MSG" /\ f[3].is = "cr" /\ f[4].is = "lf" /\ f[2].is = "size" /\ f[2].of = p
    <2>1. Around(f, Payload(j + 1), p)
        BY <1>0, <1>6, NatsFrameIs
    <2> QED BY <2>1, Zenon DEF Around
<1>8. 1 \in 1..4 /\ 2 \in 1..4 /\ 3 \in 1..4 /\ 4 \in 1..4
    OBVIOUS
<1>9. HeadShape(b, Payload(j + 1))
    BY <1>5, <1>6, <1>7, <1>8 DEF HeadShape
<1>10. N - e \in Nat
    BY <1>3
<1> QED BY <1>3, <1>4, <1>9, <1>10, Zenon

\* Where the signs of a line are.
LEMMA SignOf ==
    ASSUME Streaming, Nats, NEW x \in 1..Len(Stream)
    PROVE  \E k \in Nat : /\ k < Count
                          /\ Stream[x].is = "MSG" => x = Len(Frames(k)) + 1
                          /\ Stream[x].is = "lf" => x = Len(Frames(k)) + 4 \/ x = Len(Frames(k + 1))
<1>1. PICK k \in Nat : /\ k < Count /\ k \in 0..Count /\ Len(Frames(k)) \in Nat /\ Len(Frames(k)) < x
                       /\ x - Len(Frames(k)) \in 1..Len(Frame(k + 1))
                       /\ Stream[x] = Frame(k + 1)[x - Len(Frames(k))]
    BY FrameOf
<1>2. PICK p, f, l, m : /\ p = Len(Payload(k + 1)) /\ f = Frame(k + 1) /\ l = Len(Frames(k))
                        /\ m = x - Len(Frames(k))
    OBVIOUS
<1>3. /\ p \in Nat /\ Len(f) = p + 6
      /\ f[1].is = "MSG" /\ f[3].is = "cr" /\ f[4].is = "lf" /\ f[2].is = "size"
      /\ \A i \in 5..(p + 4) : f[i] = Payload(k + 1)[i - 4] /\ i - 4 \in 1..p
      /\ f[p + 5].is = "cr" /\ f[p + 6].is = "lf"
      /\ \A i \in 1..(p + 6) : i \in {1, 2, 3, 4, p + 5, p + 6} \/ i \in 5..(p + 4)
      /\ \A i \in 1..p : Payload(k + 1)[i].is \in {"{", "}", "narrow", "lead", "tail", "wide", "replaced"}
    <2>1. Around(f, Payload(k + 1), p)
        BY <1>1, <1>2, NatsFrameIs
    <2> QED BY <2>1, Zenon DEF Around
<1>4. Len(Frames(k + 1)) = l + (p + 6) /\ l \in Nat /\ x \in Int
    <2>1. Len(Frames(k + 1)) = Len(Frames(k)) + Len(Frame(k + 1))
        BY <1>1, StreamFrame
    <2>2. x \in Int
        BY StreamTyped
    <2> QED BY <1>1, <1>2, <1>3, <2>1, <2>2
<1>5. m \in 1..(p + 6) /\ Stream[x] = f[m] /\ x = l + m
    <2>1. x = l + (x - l)
        BY <1>4
    <2> QED BY <1>1, <1>2, <1>3, <2>1
<1>6. ASSUME m \in 5..(p + 4) PROVE f[m].is \notin {"MSG", "lf"}
    <2>1. m - 4 \in 1..p /\ f[m] = Payload(k + 1)[m - 4]
        BY <1>3, <1>6
    <2> QED BY <1>3, <2>1
<1>7. ASSUME f[m].is = "MSG" PROVE m = 1
    <2>1. m \in {1, 2, 3, 4, p + 5, p + 6}
        BY <1>3, <1>5, <1>6, <1>7
    <2> QED BY <1>3, <1>7, <2>1
<1>8. ASSUME f[m].is = "lf" PROVE m = 4 \/ m = p + 6
    <2>1. m \in {1, 2, 3, 4, p + 5, p + 6}
        BY <1>3, <1>5, <1>6, <1>8
    <2> QED BY <1>3, <1>8, <2>1
<1>9. /\ Stream[x].is = "MSG" => x = Len(Frames(k)) + 1
      /\ Stream[x].is = "lf" => x = Len(Frames(k)) + 4 \/ x = Len(Frames(k + 1))
    BY <1>2, <1>4, <1>5, <1>7, <1>8
<1> QED BY <1>1, <1>9

LEMMA SignAt ==
    ASSUME NEW d, NEW pos, NEW n, Reads(d, pos, n), Nats, NEW x \in 1..Len(d)
    PROVE  /\ d[x].is = "MSG" => \E k \in 0..Count : Len(Frames(k)) <= n /\ x = End(pos, k) + 1
           /\ d[x].is = "lf" =>
                \E k \in Nat : /\ k < Count
                               /\ \/ Len(Frames(k)) + 4 <= n /\ x = End(pos, k) + 4
                                  \/ Len(Frames(k + 1)) <= n /\ x = End(pos, k + 1)
<1>1. Streaming /\ Reading(d, pos, Stream, n)
    BY DEF Reads
<1>2. PICK i \in 1..n : pos[i] = x /\ IsChar(d[x], Stream[i])
    BY <1>1, ReadingMeets
<1>3. n \in Nat /\ n <= Len(Stream) /\ Len(Stream) \in Nat /\ Count \in Nat
    BY <1>1, ReadingSteps, StreamTyped
<1>4. i \in 1..Len(Stream) /\ i <= n /\ i \in Nat
    BY <1>3
<1>5. PICK k \in Nat : /\ k < Count
                       /\ Stream[i].is = "MSG" => i = Len(Frames(k)) + 1
                       /\ Stream[i].is = "lf" => i = Len(Frames(k)) + 4 \/ i = Len(Frames(k + 1))
    BY <1>1, <1>4, SignOf
<1>6. d[x].is \in {"MSG", "lf"} => d[x] = Stream[i]
    BY <1>2 DEF IsChar
<1>7. k \in 0..Count /\ Len(Frames(k)) \in Nat
    <2>1. k \in 0..Count
        BY <1>3, <1>5
    <2> QED BY <1>1, <2>1, FramesTyped
<1>8. ASSUME d[x].is = "MSG"
      PROVE  \E j \in 0..Count : Len(Frames(j)) <= n /\ x = End(pos, j) + 1
    <2>1. i = Len(Frames(k)) + 1
        BY <1>5, <1>6, <1>8
    <2>2. Len(Frames(k)) + 1 <= n /\ Len(Frames(k)) <= n /\ 1 \in 1..4
        BY <1>3, <1>4, <1>7, <2>1
    <2>3. pos[Len(Frames(k)) + 1] = End(pos, k) + 1
        BY <1>5, <2>2, LineChars
    <2> QED BY <1>2, <1>7, <2>1, <2>2, <2>3
<1>9. ASSUME d[x].is = "lf"
      PROVE  \/ Len(Frames(k)) + 4 <= n /\ x = End(pos, k) + 4
             \/ Len(Frames(k + 1)) <= n /\ x = End(pos, k + 1)
    <2>1. i = Len(Frames(k)) + 4 \/ i = Len(Frames(k + 1))
        BY <1>5, <1>6, <1>9
    <2>2. CASE i = Len(Frames(k)) + 4
        <3>1. Len(Frames(k)) + 4 <= n /\ 4 \in 1..4
            BY <1>4, <2>2
        <3>2. pos[Len(Frames(k)) + 4] = End(pos, k) + 4
            BY <1>5, <3>1, LineChars
        <3> QED BY <1>2, <2>2, <3>1, <3>2
    <2>3. CASE i = Len(Frames(k + 1))
        BY <1>2, <1>4, <2>3 DEF End
    <2> QED BY <2>1, <2>2, <2>3
<1>10. d[x].is = "lf" =>
         \E j \in Nat : /\ j < Count
                        /\ \/ Len(Frames(j)) + 4 <= n /\ x = End(pos, j) + 4
                           \/ Len(Frames(j + 1)) <= n /\ x = End(pos, j + 1)
    BY <1>5, <1>9
<1> QED BY <1>8, <1>10

\* Where a message's characters are, and the end of its line.
EndsLine(d, pos, n, l, p, a, z) ==
    /\ l + 4 <= n /\ l + 4 + p <= n /\ pos[l + 4] = a + 4 /\ pos[l + 4 + p] = z - 2
    /\ a + 4 <= z - 2 /\ z <= a + p + 6 /\ d[z].is = "lf" /\ d[z - 1].is = "cr"

LEMMA LineEnd ==
    ASSUME NEW d, NEW pos, NEW n, Reads(d, pos, n), Nats, NEW j \in Nat, j < Count,
           Len(Frames(j + 1)) <= n, NEW p, p = Len(Payload(j + 1))
    PROVE  EndsLine(d, pos, n, Len(Frames(j)), p, End(pos, j), End(pos, j + 1))
<1>1. Streaming /\ Reading(d, pos, Stream, n)
    BY DEF Reads
<1>2. PICK l, f : l = Len(Frames(j)) /\ f = Frame(j + 1)
    OBVIOUS
<1>3. /\ p \in Nat /\ p >= 2 /\ Len(f) = p + 6
      /\ f[p + 5].is = "cr" /\ f[p + 6].is = "lf"
    <2>1. Around(f, Payload(j + 1), p)
        BY <1>1, <1>2, NatsFrameIs
    <2> QED BY <2>1, Zenon DEF Around
<1>4. Len(Frames(j + 1)) = l + (p + 6) /\ l \in Nat /\ n \in Nat /\ l + (p + 6) <= n
    <2>1. Len(Frames(j + 1)) = l + Len(f) /\ l \in Nat
        BY <1>1, <1>2, StreamFrame
    <2>2. n \in Nat
        BY <1>1, ReadingSteps
    <2> QED BY <1>3, <2>1, <2>2
<1>5. /\ l + 4 <= n /\ l + 4 + p <= n /\ l \in 0..n /\ l + 4 \in 0..n /\ l + 4 + p \in 0..n
      /\ l + 4 + p \in (l + 4)..n /\ l + (p + 5) <= n /\ 4 \in 1..4
      /\ l + (p + 5) - 1 = l + 4 + p /\ l + (p + 6) - 1 = l + (p + 5)
      /\ p + 5 \in 1..(p + 6) /\ p + 6 \in 1..(p + 6)
      /\ (l + 4 + p) - (l + 4) = p
    <2>1. p \in Nat /\ l \in Nat /\ n \in Nat /\ l + (p + 6) <= n
        BY <1>3, <1>4
    <2> QED BY <2>1
<1>6. pos[l + 4] = End(pos, j) + 4
    BY <1>2, <1>5, LineChars
<1>7. pos[l + (p + 5)] = pos[l + 4 + p] + 1 /\ d[pos[l + (p + 5)]] = f[p + 5]
    <2>1. f[p + 5].is \notin {"lead", "tail"} /\ p + 5 \in 1..Len(f)
        BY <1>3, <1>5
    <2>2. pos[l + (p + 5)] = pos[l + (p + 5) - 1] + 1 /\ d[pos[l + (p + 5)]] = f[p + 5]
        BY <1>2, <1>5, <2>1, FrameChar
    <2> QED BY <1>5, <2>2
<1>8. pos[l + (p + 6)] = pos[l + (p + 5)] + 1 /\ d[pos[l + (p + 6)]] = f[p + 6]
    <2>1. f[p + 6].is \notin {"lead", "tail"} /\ p + 6 \in 1..Len(f)
        BY <1>3, <1>5
    <2>2. pos[l + (p + 6)] = pos[l + (p + 6) - 1] + 1 /\ d[pos[l + (p + 6)]] = f[p + 6]
        BY <1>2, <1>4, <2>1, FrameChar
    <2> QED BY <1>5, <2>2
<1>9. /\ pos[l + 4] \in Nat /\ pos[l + 4 + p] \in Nat
      /\ pos[l + 4] <= pos[l + 4 + p] /\ pos[l + 4 + p] <= pos[l + 4] + p
    BY <1>1, <1>5, ReadingMonotone
<1>10. PICK a, b, c, e : /\ a = End(pos, j) /\ b = pos[l + 4 + p] /\ c = End(pos, j + 1)
                         /\ e = pos[l + (p + 5)]
    OBVIOUS
<1>11. a \in Nat
    <2>1. j \in 0..Count /\ Len(Frames(j)) <= n
        BY <1>1, <1>2, <1>4, <1>5, StreamTyped
    <2> QED BY <1>10, <2>1, EndIs
<1>12. c = pos[l + (p + 6)]
    BY <1>4, <1>10 DEF End
<1>13. /\ b \in Nat /\ e = b + 1 /\ c = b + 2 /\ a + 4 <= b /\ b <= a + 4 + p
       /\ d[c] = f[p + 6] /\ d[e] = f[p + 5] /\ pos[l + 4] = a + 4
    BY <1>6, <1>7, <1>8, <1>9, <1>10, <1>12
<1>14. e = c - 1 /\ b = c - 2 /\ a + 4 <= c - 2 /\ c <= a + p + 6
    BY <1>3, <1>11, <1>13
<1>15. EndsLine(d, pos, n, l, p, a, c)
    BY <1>3, <1>5, <1>10, <1>13, <1>14, Zenon DEF EndsLine
<1> QED BY <1>2, <1>10, <1>15, Zenon

-----------------------------------------------------------------------------
(* The characters of a message.                                             *)

IsBody(o, j, p) ==
    /\ Object(o) /\ Alike(o, Text(j))
    /\ Len(Text(j)) \in Nat /\ Len(Text(j)) <= Len(o) /\ Len(o) <= p
    /\ "wide" \notin ToSet(sent[j]) => o = Text(j) /\ Len(o) = p

\* They are an object, the same but for characters that were cut, and no fewer.
LEMMA BodyIs ==
    ASSUME NEW d, NEW pos, NEW n, Reads(d, pos, n), NEW j \in 1..Count, NEW x \in Nat, NEW p \in Nat,
           IsPart(Payload(j), Stream, x, p), x + p <= n
    PROVE  \E o : /\ o = SubSeq(d, pos[x] + 1, pos[x + p])
                  /\ IsBody(o, j, p) /\ Len(o) = pos[x + p] - pos[x]
<1> SUFFICES ASSUME NEW o, o = SubSeq(d, pos[x] + 1, pos[x + p])
             PROVE  IsBody(o, j, p) /\ Len(o) = pos[x + p] - pos[x]
    OBVIOUS
<1>1. Streaming /\ Reading(d, pos, Stream, n)
    BY DEF Reads
<1>0. PICK s : s = Payload(j)
    OBVIOUS
<1>2. /\ s \in Seq(Signs) /\ Len(s) = p /\ p >= 2 /\ s[1] = Sign("{") /\ s[p] = Sign("}")
      /\ \A k \in 2..(p - 1) : /\ s[k].is \in {"narrow", "lead", "tail"}
                               /\ "wide" \notin ToSet(sent[j]) => s[k].is = "narrow"
    <2>1. Len(s) = p
        BY <1>0 DEF IsPart
    <2> QED BY <1>0, <1>1, <2>1, PayloadIs
<1>21. p >= 2
    BY <1>2
<1>3. s[1].is = "{" /\ s[p].is = "}"
    BY <1>2, SignIs, Zenon
<1>4. IsPayload(s, p)
    BY <1>2, <1>3 DEF IsPayload
<1>5. n \in Nat
    BY <1>1, ReadingSteps
<1>6. PICK y : y = x + p
    OBVIOUS
<1>7. x \in 0..n /\ y \in x..n /\ y \in Nat /\ y - x = p /\ x <= y
    BY <1>5, <1>6
<1>8. IsPart(s, Stream, x, y - x)
    BY <1>0, <1>7
<1>9. PICK q : Reading(o, q, s, p)
    <2>1. x < y => s[1].is # "tail"
        BY <1>3
    <2>2. \E q : /\ Reading(SubSeq(d, pos[x] + 1, pos[y]), q, s, y - x)
                 /\ \A i \in 0..(y - x) : q[i] = pos[x + i] - pos[x]
        BY <1>1, <1>7, <1>8, <2>1, ReadingPart, SMTT(30)
    <2> QED BY <1>6, <1>7, <2>2, Zenon
<1>10. Object(o)
    BY <1>4, <1>9, ReadingObject
<1>11. PICK r : Reading(Text(j), r, s, p) /\ Tight(r, s, p)
    BY <1>0, <1>2, DecodeReads DEF Text
<1>12. Alike(o, Text(j))
    BY <1>9, <1>11, ReadingsAlike
<1>13. /\ Len(o) \in Nat /\ q[0] = 0 /\ q[p] = Len(o)
    BY <1>9, ReadingSteps, Zenon
<1>14. /\ Len(Text(j)) \in Nat /\ r[0] = 0 /\ r[p] = Len(Text(j))
    BY <1>11, ReadingSteps, Zenon
<1>15. Len(Text(j)) <= Len(o)
    <2>1. p <= p /\ 0 \in 0..p /\ p \in 0..p
        OBVIOUS
    <2>2. r[p] - r[0] <= q[p] - q[0]
        BY <1>9, <1>11, <2>1, TightLeast
    <2>3. PICK u, v : u = Len(Text(j)) /\ v = Len(o)
        OBVIOUS
    <2>4. u \in Nat /\ v \in Nat /\ u - 0 <= v - 0
        BY <1>13, <1>14, <2>2, <2>3, Zenon
    <2>5. u <= v
        BY <2>4
    <2> QED BY <2>3, <2>5
<1>16. pos[x] \in Nat /\ pos[y] \in Nat /\ pos[x] <= pos[y] /\ pos[y] <= pos[x] + p
       /\ pos[y] <= Len(d) /\ d \in Seq(Signs) /\ Len(d) \in Nat
    <2>1. /\ pos[x] \in Nat /\ pos[y] \in Nat /\ pos[x] <= pos[y] /\ pos[y] <= pos[x] + (y - x)
          /\ pos[y] <= Len(d)
        BY <1>1, <1>7, ReadingMonotone
    <2> QED BY <1>1, <1>7, <2>1, ReadingSteps
<1>17. Len(o) = pos[y] - pos[x] /\ Len(o) <= p
    <2>1. PICK a \in Nat, c \in Nat : a = pos[x] /\ c = pos[y] /\ a <= c /\ c <= Len(d) /\ c <= a + p
        BY <1>16
    <2>2. d \in Seq(Signs) /\ a \in Nat /\ c \in Nat /\ a <= c /\ c <= Len(d)
        BY <1>16, <2>1
    <2>3. Len(SubSeq(d, a + 1, c)) = c - a
        BY <2>2, PartIs
    <2>4. Len(o) = c - a
        BY <1>6, <2>1, <2>3, Zenon
    <2>5. c - a <= p
        <3>1. a \in Nat /\ c \in Nat /\ c <= a + p
            BY <2>1
        <3> QED BY <3>1
    <2> QED BY <2>1, <2>4, <2>5
<1>18. ASSUME "wide" \notin ToSet(sent[j]) PROVE o = Text(j) /\ Len(o) = p
    <2>1. \A k \in 1..p : s[k].is \notin {"lead", "tail"}
        <3> TAKE k \in 1..p
        <3>1. k = 1 \/ k = p \/ k \in 2..(p - 1)
            BY <1>21
        <3> QED BY <1>2, <1>3, <1>18, <3>1
    <2>2. o = s
        BY <1>2, <1>9, <2>1, ReadingPlain
    <2>3. Text(j) = s
        BY <1>0, <1>1, <1>18, TextIs
    <2> QED BY <1>2, <2>2, <2>3
<1> QED BY <1>6, <1>10, <1>12, <1>14, <1>15, <1>17, <1>18, Zenon DEF IsBody

-----------------------------------------------------------------------------
(* The characters of the frames if each is decoded in one chunk.            *)

Fewest(m) == Len(Decode(Frames(m)))

LEMMA FewestOf ==
    ASSUME Streaming
    PROVE  \E q : /\ Reading(Decode(Stream), q, Stream, Len(Stream)) /\ Tight(q, Stream, Len(Stream))
                  /\ \A m \in 0..Count : Fewest(m) = q[Len(Frames(m))]
<1>1. Stream \in Seq(Signs) /\ Len(Stream) \in Nat /\ Count \in Nat
    BY StreamTyped
<1>2. PICK q : Reading(Decode(Stream), q, Stream, Len(Stream)) /\ Tight(q, Stream, Len(Stream))
    BY <1>1, DecodeReads
<1>3. ASSUME NEW m \in 0..Count PROVE Fewest(m) = q[Len(Frames(m))]
    <2>1. PICK s, l : s = Frames(m) /\ l = Len(Frames(m))
        OBVIOUS
    <2>2. s \in Seq(Signs) /\ l \in Nat /\ l = Len(s)
        BY <2>1, FramesTyped
    <2>3. Count \in m..Count /\ Count \in 0..Count
        BY <1>1
    <2>4. l <= Len(Stream) /\ \A i \in 1..l : s[i] = Stream[i]
        BY <2>1, <2>3, FramesPrefix DEF Stream
    <2>5. PICK r : Reading(Decode(s), r, s, l) /\ Tight(r, s, l)
        BY <2>2, DecodeReads
    <2>6. l \in 0..l
        BY <2>2
    <2>7. r[l] = q[l]
        BY <1>2, <2>4, <2>5, <2>6, TightSame
    <2>8. r[l] = Len(Decode(s))
        BY <2>5, ReadingSteps
    <2> QED BY <2>1, <2>7, <2>8 DEF Fewest
<1> QED BY <1>2, <1>3

\* No chunks have fewer, of any frames.
LEMMA FewestLeast ==
    ASSUME NEW d, NEW pos, NEW n, Reads(d, pos, n), NEW i \in 0..Count, NEW j \in i..Count,
           Len(Frames(j)) <= n
    PROVE  /\ Fewest(i) \in Nat /\ Fewest(j) \in Nat
           /\ Fewest(j) - Fewest(i) <= End(pos, j) - End(pos, i)
<1>1. Streaming /\ Reading(d, pos, Stream, n) /\ Count \in Nat
    BY StreamTyped DEF Reads
<1>2. PICK q : /\ Reading(Decode(Stream), q, Stream, Len(Stream)) /\ Tight(q, Stream, Len(Stream))
               /\ \A m \in 0..Count : Fewest(m) = q[Len(Frames(m))]
    BY <1>1, FewestOf
<1>3. PICK x, y : x = Len(Frames(i)) /\ y = Len(Frames(j))
    OBVIOUS
<1>4. j \in 0..Count
    BY <1>1
<1>5. x \in Nat /\ y \in Nat /\ x <= y /\ n \in Nat /\ n <= Len(Stream) /\ Len(Stream) \in Nat /\ y <= n
    BY <1>1, <1>3, <1>4, FramesTyped, FramesPrefix, ReadingSteps
<1>6. x \in 0..n /\ y \in x..n /\ x \in 0..Len(Stream) /\ y \in 0..Len(Stream)
    BY <1>5
<1>7. q[y] - q[x] <= pos[y] - pos[x]
    BY <1>1, <1>2, <1>5, <1>6, TightLeast
<1>8. q[x] \in Nat /\ q[y] \in Nat
    BY <1>2, <1>6, ReadingSteps
<1> QED BY <1>2, <1>3, <1>4, <1>7, <1>8 DEF End

\* A frame of NATS has a line and a line's end around its message.
LEMMA FewestGrows ==
    ASSUME Streaming, Nats, NEW i \in 0..Count, NEW j \in i..Count, i # j
    PROVE  Fewest(i) \in Nat /\ Fewest(j) \in Nat /\ Fewest(i) + 6 <= Fewest(j)
<1>1. Stream \in Seq(Signs) /\ Len(Stream) \in Nat /\ Count \in Nat
    BY StreamTyped
<1>2. PICK q : /\ Reading(Decode(Stream), q, Stream, Len(Stream))
               /\ \A m \in 0..Count : Fewest(m) = q[Len(Frames(m))]
    BY FewestOf
<1>3. PICK n : n = Len(Stream)
    OBVIOUS
<1>4. Reads(Decode(Stream), q, n)
    BY <1>2, <1>3 DEF Reads
<1>5. i \in Nat /\ j \in Nat /\ i < Count /\ i + 1 \in 0..Count /\ j \in (i + 1)..Count /\ j \in 0..Count
    BY <1>1
<1>6. Len(Frames(j)) <= n
    <2>1. Count \in j..Count
        BY <1>1, <1>5
    <2> QED BY <1>3, <1>5, <2>1, FramesPrefix DEF Stream
<1>7. Len(Frames(i + 1)) <= n /\ End(q, i + 1) <= End(q, j)
    BY <1>4, <1>5, <1>6, EndMonotone
<1>8. End(q, i) + 4 <= End(q, i + 1) - 2
    <2>1. PICK l, p : l = Len(Frames(i)) /\ p = Len(Payload(i + 1))
        OBVIOUS
    <2>2. EndsLine(Decode(Stream), q, n, l, p, End(q, i), End(q, i + 1))
        BY <1>4, <1>5, <1>7, <2>1, LineEnd
    <2> QED BY <2>2, Zenon DEF EndsLine
<1>9. Len(Frames(i)) <= n
    <2>1. i + 1 \in i..Count
        BY <1>1, <1>5
    <2> QED BY <1>4, <1>7, <2>1, EndMonotone
<1>10. End(q, i) \in Nat /\ End(q, i + 1) \in Nat /\ End(q, j) \in Nat
    BY <1>4, <1>5, <1>6, <1>7, <1>9, EndIs
<1>11. Fewest(i) = End(q, i) /\ Fewest(j) = End(q, j)
    BY <1>2, <1>5 DEF End
<1> QED BY <1>7, <1>8, <1>10, <1>11

-----------------------------------------------------------------------------
(* A frame of NATS that is cut off the buffer, with the characters that its  *)
(* size counts too many.                                                    *)

\* A frame of which there are as many characters as it has bytes has arrived.
LEMMA FrameArrived ==
    ASSUME NEW d, NEW pos, NEW n, Reads(d, pos, n), Nats, NEW j \in Nat, j < Count, Len(Frames(j)) <= n,
           NEW p, p = Len(Payload(j + 1)), Len(d) - End(pos, j) >= p + 6
    PROVE  Len(Frames(j + 1)) <= n /\ p \in Nat
<1>1. Streaming /\ j \in 0..Count
    BY StreamTyped DEF Reads
<1>2. PICK a, l, N : a = End(pos, j) /\ l = Len(Frames(j)) /\ N = Len(d)
    OBVIOUS
<1>3. a \in Nat /\ N \in Nat /\ l \in Nat /\ n \in Nat
    BY <1>1, <1>2, EndIs
<1>4. PICK f : f = Frame(j + 1)
    OBVIOUS
<1>5. p \in Nat /\ Len(f) = p + 6
    <2>1. Around(f, Payload(j + 1), p)
        BY <1>1, <1>4, NatsFrameIs
    <2> QED BY <2>1, Zenon DEF Around
<1>6. a + (p + 6) <= N /\ p + 6 \in Nat
    <2>1. N - a >= p + 6
        BY <1>2
    <2> QED BY <1>3, <1>5, <2>1
<1>7. l + (p + 6) <= n
    BY <1>1, <1>2, <1>6, LineArrived
<1>8. Len(Frames(j + 1)) = l + Len(f)
    BY <1>1, <1>2, <1>4, StreamFrame
<1> QED BY <1>5, <1>7, <1>8

\* The frame after the j-th has arrived.
Taking(d, pos, n, j, p) ==
    /\ Reads(d, pos, n) /\ Nats /\ j \in Nat /\ j < Count /\ Len(Frames(j)) <= n
    /\ Len(Frames(j + 1)) <= n /\ p = Len(Payload(j + 1))

\* The frame's message o is the a + 5-th to the z - 2-th of the characters d.
Spans(d, j, p, a, z, o) ==
    /\ p \in Nat /\ p >= 2 /\ a \in Nat /\ z \in Nat /\ Len(d) \in Nat
    /\ a + 6 <= z /\ z <= a + p + 6 /\ z <= Len(d)
    /\ d \in Seq(Signs) /\ o = SubSeq(d, a + 4 + 1, z - 2)
    /\ Object(o) /\ Alike(o, Text(j + 1)) /\ Len(o) = z - a - 6
    /\ Len(Text(j + 1)) \in Nat /\ Len(Text(j + 1)) <= z - a - 6
    /\ "wide" \notin ToSet(sent[j + 1]) => o = Text(j + 1) /\ z = a + p + 6
    /\ d[z].is = "lf" /\ d[z - 1].is = "cr"
    /\ z + 1 <= Len(d) => d[z + 1].is = "MSG"

LEMMA FrameSpans ==
    ASSUME NEW d, NEW pos, NEW n, NEW j, NEW p, Taking(d, pos, n, j, p)
    PROVE  \E o : Spans(d, j, p, End(pos, j), End(pos, j + 1), o)
<1>1. /\ Reads(d, pos, n) /\ Nats /\ j \in Nat /\ j < Count /\ Len(Frames(j)) <= n
      /\ p = Len(Payload(j + 1))
    BY Zenon DEF Taking
<1>2. Streaming /\ Reading(d, pos, Stream, n) /\ Count \in Nat
    BY <1>1, StreamTyped DEF Reads
<1>3. j \in 0..Count /\ j + 1 \in 0..Count /\ j + 1 \in 1..Count /\ j + 1 \in Nat
    BY <1>1, <1>2
<1>4. PICK a, z, l, N : a = End(pos, j) /\ z = End(pos, j + 1) /\ l = Len(Frames(j)) /\ N = Len(d)
    OBVIOUS
<1>5. a \in Nat /\ N \in Nat /\ a <= N /\ l \in Nat /\ n \in Nat /\ d \in Seq(Signs)
    BY <1>1, <1>3, <1>4, EndIs
<1>6. PICK f : f = Frame(j + 1)
    OBVIOUS
<1>7. Around(f, Payload(j + 1), p)
    BY <1>1, <1>2, <1>6, NatsFrameIs
<1>8. p \in Nat /\ p >= 2 /\ Len(f) = p + 6
    BY <1>7, Zenon DEF Around
<1>11. Len(Frames(j + 1)) <= n
    BY Zenon DEF Taking
<1>12. /\ l + 4 <= n /\ l + 4 + p <= n
       /\ pos[l + 4] = a + 4 /\ pos[l + 4 + p] = z - 2
       /\ a + 4 <= z - 2 /\ z <= a + p + 6
       /\ d[z].is = "lf" /\ d[z - 1].is = "cr"
    <2>1. EndsLine(d, pos, n, Len(Frames(j)), p, End(pos, j), End(pos, j + 1))
        BY <1>1, <1>11, LineEnd
    <2>2. EndsLine(d, pos, n, l, p, a, z)
        BY <1>4, <2>1, Zenon
    <2> QED BY <2>2, Zenon DEF EndsLine
<1>13. z \in Nat /\ z <= N
    BY <1>1, <1>3, <1>4, <1>11, EndIs
<1>14. PICK x \in Nat : x = l + 4
    BY <1>5
<1>15. IsPart(Payload(j + 1), Stream, x, p)
    <2>1. Payload(j + 1) \in Seq(Signs)
        BY <1>2, <1>3, PayloadIs
    <2>2. ASSUME NEW k \in 1..p PROVE Payload(j + 1)[k] = Stream[x + k]
        <3>1. k + 4 \in 5..(p + 4) /\ (k + 4) - 4 = k /\ k + 4 \in 1..Len(f) /\ l + (k + 4) = x + k
            BY <1>5, <1>8, <1>14
        <3>2. f[k + 4] = Payload(j + 1)[(k + 4) - 4]
            BY <1>7, <3>1, Zenon DEF Around
        <3>3. Stream[l + (k + 4)] = f[k + 4]
            BY <1>1, <1>2, <1>4, <1>6, <3>1, StreamFrame
        <3> QED BY <3>1, <3>2, <3>3
    <2> QED BY <1>1, <2>1, <2>2 DEF IsPart
<1>16. PICK o : o = SubSeq(d, a + 4 + 1, z - 2)
    OBVIOUS
<1>17. o = SubSeq(d, pos[x] + 1, pos[x + p]) /\ x + p <= n
    BY <1>12, <1>14, <1>16, Zenon
<1>18. IsBody(o, j + 1, p) /\ Len(o) = pos[x + p] - pos[x]
    <2>1. Reads(d, pos, n) /\ j + 1 \in 1..Count /\ p \in Nat
        BY <1>1, <1>3, <1>8
    <2>2. x + p <= n
        BY <1>17
    <2>3. o = SubSeq(d, pos[x] + 1, pos[x + p])
        BY <1>17
    <2>4. PICK m \in 1..Count : m = j + 1
        BY <2>1
    <2>5. IsPart(Payload(m), Stream, x, p)
        BY <1>15, <2>4
    <2>6. \E v : /\ v = SubSeq(d, pos[x] + 1, pos[x + p])
                 /\ IsBody(v, m, p) /\ Len(v) = pos[x + p] - pos[x]
        BY <2>1, <2>2, <2>5, BodyIs
    <2> QED BY <2>3, <2>4, <2>6, Zenon
<1>19. Len(o) = (z - 2) - (a + 4)
    BY <1>12, <1>14, <1>18, Zenon
<1>20. (z - 2) - (a + 4) = z - a - 6 /\ a + 6 <= z /\ ((z - 2) - (a + 4) = p => z = a + p + 6)
    BY <1>5, <1>8, <1>12, <1>13
<1>21. ASSUME z + 1 <= N PROVE d[z + 1].is = "MSG"
    <2>1. CASE j + 1 < Count
        <3>1. Len(Frames(j + 1)) + 1 <= n
            <4>1. 1 \in Nat /\ End(pos, j + 1) + 1 <= Len(d)
                BY <1>4, <1>21
            <4> QED BY <1>1, <1>3, <1>11, <4>1, LineArrived
        <3>2. 1 \in 1..4
            OBVIOUS
        <3>3. d[End(pos, j + 1) + 1] = Frame((j + 1) + 1)[1]
            BY <1>1, <1>3, <2>1, <3>1, <3>2, LineChars
        <3>4. PICK g, s : g = Frame((j + 1) + 1) /\ s = Len(Payload((j + 1) + 1))
            OBVIOUS
        <3>5. Around(g, Payload((j + 1) + 1), s)
            BY <1>1, <1>2, <1>3, <2>1, <3>4, NatsFrameIs
        <3>6. g[1].is = "MSG"
            BY <3>5, Zenon DEF Around
        <3> QED BY <1>4, <3>3, <3>4, <3>6
    <2>2. CASE ~(j + 1 < Count)
        <3>1. j + 1 = Count
            BY <1>1, <1>2, <2>2
        <3>2. n = Len(Frames(j + 1))
            <4>1. n <= Len(Stream) /\ Len(Stream) \in Nat
                BY <1>2, ReadingSteps
            <4>2. Len(Stream) = Len(Frames(j + 1))
                BY <3>1 DEF Stream
            <4> QED BY <1>5, <1>11, <4>1, <4>2
        <3>3. z = N
            BY <1>2, <1>4, <3>2, ReadingSteps DEF End
        <3> QED BY <1>13, <1>21, <3>3
    <2> QED BY <2>1, <2>2
<1>22. Spans(d, j, p, a, z, o)
    <2>1. Len(Text(j + 1)) <= z - a - 6 /\ Len(o) = z - a - 6
        BY <1>18, <1>19, <1>20, Zenon DEF IsBody
    <2>2. "wide" \notin ToSet(sent[j + 1]) => o = Text(j + 1) /\ z = a + p + 6
        BY <1>18, <1>19, <1>20, Zenon DEF IsBody
    <2> QED BY <1>4, <1>5, <1>8, <1>12, <1>13, <1>16, <1>18, <1>20, <1>21, <2>1, <2>2, Zenon DEF Spans, IsBody
<1> QED BY <1>4, <1>22, Zenon

\* Up to two characters too many are the line's end, more are of the next frame.
LEMMA FrameParsed ==
    ASSUME NEW d, NEW j, NEW p, NEW a, NEW z, NEW o, Spans(d, j, p, a, z, o), a + p + 6 <= Len(d)
    PROVE  Parsed(SubSeq(d, a + 4 + 1, a + 4 + p)) = IF a + p + 4 <= z THEN <<o>> ELSE <<>>
<1>1. /\ p \in Nat /\ p >= 2 /\ a \in Nat /\ z \in Nat /\ Len(d) \in Nat
      /\ a + 6 <= z /\ z <= a + p + 6 /\ a + p + 6 <= Len(d)
    BY Zenon DEF Spans
<1>2. /\ d \in Seq(Signs) /\ o = SubSeq(d, a + 4 + 1, z - 2)
      /\ Object(o) /\ Len(o) = z - a - 6
    BY Zenon DEF Spans
<1>3. /\ d[z].is = "lf" /\ d[z - 1].is = "cr"
      /\ z + 1 <= Len(d) => d[z + 1].is = "MSG"
    BY Zenon DEF Spans
<1>4. PICK m \in Nat, x \in Nat, N \in Nat : m = z - a - 6 /\ x = a + 4 /\ N = Len(d)
    <2>1. z - a - 6 \in Nat /\ a + 4 \in Nat
        BY <1>1
    <2> QED BY <1>1, <2>1, Zenon
<1>5. m <= p /\ z = x + m + 2 /\ z - 2 = x + m /\ x + p + 2 <= N /\ x + m <= N /\ x + p <= N
      /\ (a + p + 4 <= z <=> p <= m + 2) /\ z - 1 = x + m + 1
    BY <1>1, <1>4
<1>6. PICK b : b = SubSeq(d, x + 1, x + p)
    OBVIOUS
<1>7. b \in Seq(Signs) /\ Len(b) = p /\ \A k \in 1..p : b[k] = d[x + k]
    <2>1. d \in Seq(Signs) /\ x \in Nat /\ p \in Nat /\ x + p <= Len(d)
        BY <1>1, <1>2, <1>4, <1>5
    <2>2. /\ SubSeq(d, x + 1, x + p) \in Seq(Signs) /\ Len(SubSeq(d, x + 1, x + p)) = p
          /\ \A k \in 1..p : SubSeq(d, x + 1, x + p)[k] = d[x + k]
        BY <2>1, PartAt
    <2> QED BY <1>6, <2>2, Zenon
<1>8. Len(o) = m /\ m >= 2 /\ \A k \in 1..m : o[k] = d[x + k]
    <2>1. d \in Seq(Signs) /\ x \in Nat /\ m \in Nat /\ x + m <= Len(d)
        BY <1>2, <1>4, <1>5
    <2>2. \A k \in 1..m : SubSeq(d, x + 1, x + m)[k] = d[x + k]
        BY <2>1, PartAt
    <2>3. o = SubSeq(d, x + 1, x + m)
        BY <1>2, <1>4, <1>5, Zenon
    <2>4. Len(o) >= 2
        BY <1>2, Zenon DEF Object
    <2>5. Len(o) = m
        BY <1>2, <1>4, Zenon
    <2>6. m >= 2
        BY <2>4, <2>5
    <2> QED BY <2>2, <2>3, <2>5, <2>6, Zenon
<1>9. \A k \in 1..m : k \in 1..p /\ b[k] = o[k]
    <2>1. \A k \in 1..m : k \in 1..p
        BY <1>1, <1>5
    <2> QED BY <1>7, <1>8, <2>1, Zenon
<1>10. ASSUME p <= m + 2 PROVE Parsed(b) = <<o>>
    <2>1. ASSUME NEW k \in (m + 1)..p PROVE b[k].is \in {"cr", "lf"}
        <3>1. k \in 1..p /\ (x + k = z \/ x + k = z - 1)
            <4>1. k = m + 1 \/ k = m + 2
                BY <1>1, <1>10
            <4>2. k \in 1..p
                BY <1>1
            <4> QED BY <1>5, <4>1, <4>2
        <3>2. b[k] = d[x + k]
            BY <1>7, <3>1
        <3> QED BY <1>3, <3>1, <3>2
    <2>2. Len(o) <= Len(b)
        BY <1>5, <1>7, <1>8
    <2>3. \A k \in 1..Len(o) : b[k] = o[k]
        BY <1>8, <1>9, Zenon
    <2>4. \A k \in (Len(o) + 1)..Len(b) : b[k].is \in {"cr", "lf"}
        BY <1>7, <1>8, <2>1, Zenon
    <2> QED BY <1>2, <1>7, <2>2, <2>3, <2>4, ParsedSpaced
<1>11. ASSUME ~(p <= m + 2) PROVE Parsed(b) = <<>>
    <2>1. PICK i \in 1..p : i = m + 3 /\ x + i = z + 1 /\ z + 1 <= N
        BY <1>1, <1>5, <1>11
    <2>2. b[i].is = "MSG"
        BY <1>3, <1>4, <1>7, <2>1
    <2>3. b[1].is = "{"
        <3>1. 1 \in 1..m
            BY <1>8
        <3> QED BY <1>2, <1>9, <3>1, Zenon DEF Object
    <2>4. Broken(b, p, i)
        BY <1>7, <2>2, <2>3 DEF Broken
    <2> QED BY <1>1, <2>4, ParsedNothing
<1>12. a + 4 + 1 = x + 1 /\ a + 4 + p = x + p
    BY <1>1, <1>4
<1> QED BY <1>5, <1>6, <1>10, <1>11, <1>12, Zenon

LEMMA TurnIs ==
    ASSUME NEW b, NEW o
    PROVE  /\ ~Cut(b).is => Turn(Taken(b, o)) = Taken(b, o)
           /\ Cut(b).is => Turn(Taken(b, o)) = Taken(SubSeq(b, Cut(b).next, Len(b)), o \o Message(b, Cut(b)))
<1>1. Taken(b, o).rest = b /\ Taken(b, o).out = o
    BY DEF Taken
<1> QED BY <1>1, Zenon DEF Turn, Taken

\* Where the frame is not cut off the buffer.
LEMMA FrameCut ==
    ASSUME NEW d, NEW pos, NEW n, Reads(d, pos, n), Nats, NEW j \in Nat, j < Count, Len(Frames(j)) <= n
    PROVE  \E p, b :
             /\ p \in Nat /\ p = Len(Payload(j + 1)) /\ b = SubSeq(d, End(pos, j) + 1, Len(d))
             /\ Cut(b) = IF Len(b) >= p + 6 THEN CutAt(Payload(j + 1), 5, p + 7) ELSE NoCut
             /\ Len(b) \in Nat /\ Len(b) = Len(d) - End(pos, j)
<1>0. Streaming /\ j + 1 \in 1..Count
    BY StreamTyped DEF Reads
<1>1. PICK p, b : p = Len(Payload(j + 1)) /\ b = SubSeq(d, End(pos, j) + 1, Len(d))
    OBVIOUS
<1>2. /\ b \in Seq(Signs) /\ Len(b) \in Nat /\ Len(b) = Len(d) - End(pos, j)
      /\ HeadShape(b, Payload(j + 1))
    BY <1>1, LineHead, ZenonT(40)
<1>3. Bytes(Payload(j + 1)) /\ p \in Nat
    BY <1>0, <1>1, PayloadBytes DEF Bytes
<1>4. /\ Len(b) >= p + 6 => NatsCut(b) = CutAt(Payload(j + 1), 5, p + 7)
      /\ Len(b) < p + 6 => NatsCut(b) = NoCut
    BY <1>1, <1>2, <1>3, HeadCuts
<1>5. NatsCut(b) = IF Len(b) >= p + 6 THEN CutAt(Payload(j + 1), 5, p + 7) ELSE NoCut
    BY <1>2, <1>3, <1>4
<1>6. Cut(b) = NatsCut(b)
    BY DEF Cut, Nats
<1> QED BY <1>1, <1>2, <1>3, <1>5, <1>6

-----------------------------------------------------------------------------
(* A buffer that begins within a frame: what is left of a line is skipped.   *)

LEMMA LeastExists ==
    ASSUME NEW n \in Nat, NEW I, I \subseteq 1..n, I # {}
    PROVE  \E x \in I : \A y \in I : x <= y
<1> DEFINE T == {m \in Nat : \A J \in SUBSET (1..m) : J # {} => \E x \in J : \A y \in J : x <= y}
<1>1. 0 \in T
    <2>1. \A J \in SUBSET (1..0) : J = {}
        OBVIOUS
    <2> QED BY <2>1
<1>2. ASSUME NEW m \in T PROVE m + 1 \in T
    <2> SUFFICES ASSUME NEW J \in SUBSET (1..(m + 1)), J # {} PROVE \E x \in J : \A y \in J : x <= y
        OBVIOUS
    <2>1. m \in Nat /\ m + 1 <= m + 1 /\ \A y \in 1..(m + 1) : y \in 1..m \/ y = m + 1
        OBVIOUS
    <2>2. CASE J \cap 1..m # {}
        <3>1. J \cap 1..m \in SUBSET (1..m)
            OBVIOUS
        <3>2. PICK x \in J \cap 1..m : \A y \in J \cap 1..m : x <= y
            BY <2>2, <3>1
        <3>3. x <= m + 1 /\ x \in J
            BY <2>1, <3>2
        <3> QED BY <2>1, <3>2, <3>3
    <2>3. CASE J \cap 1..m = {}
        <3>1. \A y \in J : y = m + 1
            BY <2>1, <2>3
        <3> QED BY <2>1, <3>1
    <2> QED BY <2>2, <2>3
<1> HIDE DEF T
<1>3. n \in T
    BY <1>1, <1>2, SetInduction
<1> QED BY <1>3 DEF T

\* A line ends at d[x].
Breaks(d, x) == d[x].is = "lf" /\ d[x - 1].is = "cr"

\* x is the end of the first line that ends after d[P + 1].
FirstBreak(d, P, x) ==
    /\ x \in (P + 2)..Len(d) /\ Breaks(d, x)
    /\ \A y \in (P + 2)..Len(d) : Breaks(d, y) => x <= y

SkipTo(next) == [is |-> TRUE, from |-> 1, to |-> 0, next |-> next]

LEMMA LineCut ==
    ASSUME NEW d, NEW pos, NEW n, Reads(d, pos, n), Nats, NEW P \in Nat, P <= Len(d),
           \A k \in 0..Count : Len(Frames(k)) <= n => P # End(pos, k)
    PROVE  \/ /\ Cut(SubSeq(d, P + 1, Len(d))) = NoCut
              /\ \A x \in (P + 2)..Len(d) : ~Breaks(d, x)
           \/ \E x \in Nat : /\ FirstBreak(d, P, x)
                             /\ Cut(SubSeq(d, P + 1, Len(d))) = SkipTo(x - P + 1)
<1>1. d \in Seq(Signs) /\ Len(d) \in Nat
    BY ReadingSteps DEF Reads
<1>2. PICK b, N : b = SubSeq(d, P + 1, Len(d)) /\ N = Len(d) /\ P <= N /\ N \in Nat
    BY <1>1
<1>3. b \in Seq(Signs) /\ Len(b) = N - P /\ \A i \in 1..(N - P) : b[i] = d[P + i]
    <2>1. /\ SubSeq(d, P + 1, N) \in Seq(Signs) /\ Len(SubSeq(d, P + 1, N)) = N - P
          /\ \A i \in 1..(N - P) : SubSeq(d, P + 1, N)[i] = d[P + i]
        BY <1>1, <1>2, PartIs
    <2>2. SubSeq(d, P + 1, N) = b
        BY <1>2
    <2> QED BY <2>1, <2>2
<1>4. PICK m \in Nat : m = Len(b) /\ m = N - P
    <2>1. N - P \in Nat
        BY <1>2
    <2> QED BY <1>3, <2>1
<1> DEFINE ends == {i \in 1..(Len(b) - 1) : b[i].is = "cr" /\ b[i + 1].is = "lf"}
           lf == 1 + CHOOSE i \in ends : \A j \in ends : i <= j
<1>5. ASSUME NEW i \in 1..(m - 1)
      PROVE  /\ P + i + 1 \in (P + 2)..N /\ P + i + 1 \in Nat
             /\ i \in ends <=> Breaks(d, P + i + 1)
    <2>1. /\ i \in 1..(N - P) /\ i + 1 \in 1..(N - P) /\ P + (i + 1) = P + i + 1
          /\ P + i + 1 - 1 = P + i /\ P + i + 1 \in (P + 2)..N /\ P + i + 1 \in Nat
        BY <1>2, <1>4
    <2>2. b[i] = d[P + i] /\ b[i + 1] = d[P + i + 1]
        BY <1>3, <2>1
    <2>3. Breaks(d, P + i + 1) <=> d[P + i + 1].is = "lf" /\ d[P + i].is = "cr"
        BY <2>1 DEF Breaks
    <2>4. i \in 1..(Len(b) - 1)
        BY <1>4
    <2> QED BY <2>1, <2>2, <2>3, <2>4
<1>6. ASSUME NEW x \in (P + 2)..N
      PROVE  x - P - 1 \in 1..(m - 1) /\ x = P + (x - P - 1) + 1
    BY <1>2, <1>4
<1>7. ends \subseteq 1..(m - 1)
    BY <1>4
<1>8. CASE ends = {}
    <2>1. NatsCut(b) = NoCut
        BY <1>8, Zenon DEF NatsCut
    <2>2. Cut(b) = NoCut
        BY <2>1 DEF Cut, Nats
    <2>3. ASSUME NEW x \in (P + 2)..N PROVE ~Breaks(d, x)
        <3>1. PICK i : i = x - P - 1
            OBVIOUS
        <3>2. i \in 1..(m - 1) /\ x = P + i + 1 /\ i \notin ends
            BY <1>6, <1>8, <3>1
        <3> HIDE DEF ends
        <3> QED BY <1>5, <3>2
    <2> QED BY <1>2, <2>2, <2>3
<1>9. CASE ends # {}
    <2>1. PICK i \in ends : \A y \in ends : i <= y
        <3> HIDE DEF ends
        <3>1. ends \subseteq 1..m
            BY <1>4, <1>7
        <3> QED BY <1>9, <3>1, LeastExists
    <2>2. i \in 1..(m - 1) /\ i \in Nat
        <3> HIDE DEF ends
        <3> QED BY <1>7, <2>1
    <2>3. lf = i + 1
        <3>1. ends \subseteq Nat
            <4> HIDE DEF ends
            <4> QED BY <1>7
        <3>2. (CHOOSE y \in ends : \A z \in ends : y <= z) = i
            <4> HIDE DEF ends
            <4> QED BY <2>1, <3>1, LeastOf
        <3>3. lf = 1 + i
            BY <3>2, Zenon
        <3> HIDE DEF lf
        <3> QED BY <2>2, <3>3
    <2>4. b[1].is # "MSG"
        <3>1. P + 1 \in 1..Len(d) /\ 1 \in 1..(N - P) /\ b[1] = d[P + 1]
            <4>1. P + 1 \in 1..N /\ 1 \in 1..(N - P)
                BY <1>2, <1>4, <2>2
            <4> QED BY <1>2, <1>3, <4>1
        <3>2. ASSUME d[P + 1].is = "MSG" PROVE FALSE
            <4>1. PICK k \in 0..Count : Len(Frames(k)) <= n /\ P + 1 = End(pos, k) + 1
                BY <3>1, <3>2, SignAt
            <4>2. End(pos, k) \in Nat
                BY <4>1, EndIs
            <4>3. P = End(pos, k)
                BY <4>1, <4>2
            <4> QED BY <4>1, <4>3
        <3> QED BY <3>1, <3>2
    <2>5. NatsCut(b) = SkipTo(lf + 1)
        BY <1>9, <2>4, Zenon DEF NatsCut, SkipTo
    <2> HIDE DEF lf, ends
    <2>6. PICK x \in Nat : x = P + i + 1 /\ x \in (P + 2)..N
        BY <1>5, <2>2
    <2>7. Breaks(d, x)
        BY <1>5, <2>1, <2>2, <2>6
    <2>8. ASSUME NEW y \in (P + 2)..N, Breaks(d, y) PROVE x <= y
        <3>1. PICK k : k = y - P - 1
            OBVIOUS
        <3>2. k \in 1..(m - 1) /\ y = P + k + 1
            BY <1>6, <3>1
        <3>3. k \in ends
            BY <1>5, <2>8, <3>2
        <3>4. i <= k
            BY <2>1, <3>3
        <3> QED BY <2>2, <2>6, <3>2, <3>4
    <2>9. FirstBreak(d, P, x)
        BY <1>2, <2>6, <2>7, <2>8 DEF FirstBreak
    <2>10. lf + 1 = x - P + 1
        BY <2>2, <2>3, <2>6
    <2>11. Cut(b) = SkipTo(x - P + 1)
        BY <2>5, <2>10 DEF Cut, Nats
    <2> QED BY <1>2, <2>9, <2>11
<1> QED BY <1>8, <1>9

-----------------------------------------------------------------------------
(* What NATS has delivered, and what it still will.                         *)

\* Messages of the first j, in their order.
InOrder(del, j) ==
    /\ del \in Seq(Seq(Signs))
    /\ \E place \in [1..Len(del) -> 1..j] :
         /\ \A x, y \in 1..Len(del) : x < y => place[x] < place[y]
         /\ \A x \in 1..Len(del) : Alike(del[x], Text(place[x]))

LEMMA InOrderNone == ASSUME NEW j PROVE InOrder(<<>>, j)
<1>1. <<>> \in Seq(Seq(Signs)) /\ Len(<<>>) = 0 /\ 1..0 = {}
    OBVIOUS
<1>2. PICK place : place = [x \in 1..0 |-> 1]
    OBVIOUS
<1>3. place \in [1..0 -> 1..j]
    BY <1>1, <1>2
<1> QED BY <1>1, <1>3 DEF InOrder

LEMMA InOrderWider ==
    ASSUME NEW del, NEW j \in Nat, NEW k \in Nat, j <= k, InOrder(del, j)
    PROVE  InOrder(del, k)
<1>1. PICK place \in [1..Len(del) -> 1..j] :
         /\ \A x, y \in 1..Len(del) : x < y => place[x] < place[y]
         /\ \A x \in 1..Len(del) : Alike(del[x], Text(place[x]))
    BY DEF InOrder
<1>2. 1..j \subseteq 1..k
    OBVIOUS
<1>3. place \in [1..Len(del) -> 1..k]
    BY <1>2
<1> QED BY <1>1, <1>3 DEF InOrder

LEMMA InOrderMore ==
    ASSUME NEW del, NEW j \in Nat, InOrder(del, j), NEW o \in Seq(Signs), Alike(o, Text(j + 1))
    PROVE  /\ InOrder(del \o <<o>>, j + 1)
           /\ \A t : t \in ToSet(del) \/ t = o => t \in ToSet(del \o <<o>>)
<1>1. PICK place \in [1..Len(del) -> 1..j] :
         /\ \A x, y \in 1..Len(del) : x < y => place[x] < place[y]
         /\ \A x \in 1..Len(del) : Alike(del[x], Text(place[x]))
    BY DEF InOrder
<1>2. PICK w, m : w = del \o <<o>> /\ m = Len(del)
    OBVIOUS
<1>3. /\ del \in Seq(Seq(Signs)) /\ m \in Nat /\ w \in Seq(Seq(Signs)) /\ Len(w) = m + 1
      /\ (\A x \in 1..m : w[x] = del[x]) /\ w[m + 1] = o
    <2>1. del \in Seq(Seq(Signs))
        BY DEF InOrder
    <2> QED BY <1>2, <2>1, Followed
<1>4. \A x \in 1..(m + 1) : x \in 1..m \/ x = m + 1
    BY <1>3
<1> DEFINE q == [x \in 1..(m + 1) |-> IF x = m + 1 THEN j + 1 ELSE place[x]]
<1>5. \A x \in 1..m : q[x] = place[x] /\ place[x] \in 1..j /\ x \in 1..(m + 1) /\ x # m + 1
    <2>1. \A x \in 1..m : x \in 1..(m + 1) /\ x # m + 1
        BY <1>3
    <2> QED BY <1>2, <2>1
<1>6. q[m + 1] = j + 1 /\ m + 1 \in 1..(m + 1)
    BY <1>3
<1>7. q \in [1..(m + 1) -> 1..(j + 1)]
    <2>1. 1..j \subseteq 1..(j + 1) /\ j + 1 \in 1..(j + 1)
        OBVIOUS
    <2>2. \A x \in 1..(m + 1) : q[x] \in 1..(j + 1)
        BY <1>4, <1>5, <1>6, <2>1
    <2> QED BY <2>2
<1> HIDE DEF q
<1>8. ASSUME NEW x \in 1..(m + 1), NEW y \in 1..(m + 1), x < y PROVE q[x] < q[y]
    <2>1. x \in 1..m
        BY <1>3, <1>8
    <2>2. CASE y \in 1..m
        BY <1>1, <1>2, <1>5, <1>8, <2>1, <2>2
    <2>3. CASE y = m + 1
        <3>1. q[x] \in 1..j /\ q[y] = j + 1
            BY <1>5, <1>6, <2>1, <2>3
        <3> QED BY <3>1
    <2> QED BY <1>4, <2>2, <2>3
<1>9. ASSUME NEW x \in 1..(m + 1) PROVE Alike(w[x], Text(q[x]))
    <2>1. CASE x \in 1..m
        BY <1>1, <1>2, <1>3, <1>5, <2>1
    <2>2. CASE x = m + 1
        BY <1>3, <1>6, <2>2
    <2> QED BY <1>4, <2>1, <2>2
<1>10. InOrder(w, j + 1)
    BY <1>3, <1>7, <1>8, <1>9 DEF InOrder
<1>11. ASSUME NEW t, t \in ToSet(del) \/ t = o PROVE t \in ToSet(w)
    <2>1. DOMAIN w = 1..(m + 1) /\ DOMAIN del = 1..m
        BY <1>2, <1>3
    <2>2. CASE t = o
        BY <1>3, <1>6, <2>1, <2>2 DEF ToSet
    <2>3. CASE t \in ToSet(del)
        <3>1. PICK x \in 1..m : t = del[x]
            BY <2>1, <2>3 DEF ToSet
        <3> QED BY <1>3, <1>5, <2>1, <3>1 DEF ToSet
    <2> QED BY <1>11, <2>2, <2>3
<1> QED BY <1>2, <1>10, <1>11

\* The rest of the buffer is so far from the end of the j-th frame that the i-th message,
\* which is spared, is not harmed.
Ahead(pos, j, P, i) ==
    \/ i = j + 1 /\ P = End(pos, j)
    \/ (P - End(pos, j)) + 2 <= Fewest(i - 1) - Fewest(j)

\* The buffer begins after the P-th character. Of the first j messages those that are
\* spared were delivered, of the others they will be.
NatsAt(d, pos, n, del, j, P) ==
    /\ j \in 0..Count /\ Len(Frames(j)) <= n /\ P \in Nat /\ End(pos, j) <= P /\ P <= Len(d)
    /\ InOrder(del, j)
    /\ \A i \in 1..j : Spared(i) => Text(i) \in ToSet(del)
    /\ \A i \in (j + 1)..Count : Spared(i) => Ahead(pos, j, P, i)

LEMMA SparedIs ==
    ASSUME NEW i, Spared(i)
    PROVE  /\ "wide" \notin ToSet(sent[i])
           /\ \A j \in 1..(i - 1) : "wide" \in ToSet(sent[j]) =>
                 Len(Payload(j)) - Len(Text(j)) + 2 <= Fewest(i - 1) - Fewest(j)
BY DEF Spared, Fewest

\* Frames further on are far enough.
LEMMA AheadNear ==
    ASSUME NEW d, NEW pos, NEW n, Reads(d, pos, n), Nats, NEW k \in 0..Count, Len(Frames(k)) <= n,
           NEW P \in Nat, P <= End(pos, k) + 4, NEW i \in (k + 1)..Count, i # k + 1
    PROVE  Ahead(pos, k, P, i)
<1>1. Streaming /\ Count \in Nat
    BY StreamTyped DEF Reads
<1>2. End(pos, k) \in Nat
    BY EndIs
<1>3. k \in Nat /\ i \in Nat /\ i - 1 \in k..Count /\ k # i - 1
    BY <1>1
<1>4. Fewest(k) \in Nat /\ Fewest(i - 1) \in Nat /\ Fewest(k) + 6 <= Fewest(i - 1)
    BY <1>1, <1>3, FewestGrows
<1>5. (P - End(pos, k)) + 2 <= Fewest(i - 1) - Fewest(k)
    BY <1>2, <1>4
<1> QED BY <1>5 DEF Ahead

\* What is ahead of a spared message.
LEMMA AheadIs ==
    ASSUME NEW d, NEW pos, NEW n, Reads(d, pos, n), NEW j \in 0..Count, NEW i \in (j + 1)..Count,
           Len(Frames(i - 1)) <= n, NEW P \in Nat, Ahead(pos, j, P, i)
    PROVE  (i = j + 1 /\ P = End(pos, j)) \/ P + 2 <= End(pos, i - 1)
<1>1. Count \in Nat
    BY StreamTyped DEF Reads
<1>2. i - 1 \in j..Count /\ i - 1 \in 0..Count
    BY <1>1
<1>3. /\ Fewest(j) \in Nat /\ Fewest(i - 1) \in Nat
      /\ Fewest(i - 1) - Fewest(j) <= End(pos, i - 1) - End(pos, j)
    BY <1>2, FewestLeast
<1>4. Len(Frames(j)) <= n
    BY <1>2, EndMonotone
<1>5. End(pos, j) \in Nat /\ End(pos, i - 1) \in Nat
    BY <1>2, <1>4, EndIs
<1> QED BY <1>3, <1>5 DEF Ahead

LEMMA EndGrows ==
    ASSUME NEW d, NEW pos, NEW n, Reads(d, pos, n), Nats, NEW j \in 0..Count, NEW k \in j..Count,
           j # k, Len(Frames(k)) <= n
    PROVE  End(pos, j) + 6 <= End(pos, k)
<1>1. Streaming /\ Count \in Nat
    BY StreamTyped DEF Reads
<1>2. k \in 0..Count
    BY <1>1
<1>3. /\ Fewest(j) \in Nat /\ Fewest(k) \in Nat /\ Fewest(j) + 6 <= Fewest(k)
      /\ Fewest(k) - Fewest(j) <= End(pos, k) - End(pos, j)
    BY <1>1, FewestGrows, FewestLeast
<1>4. Len(Frames(j)) <= n
    BY EndMonotone
<1>5. End(pos, j) \in Nat /\ End(pos, k) \in Nat
    BY <1>2, <1>4, EndIs
<1> QED BY <1>3, <1>5

-----------------------------------------------------------------------------
(* A turn of NATS' loop.                                                    *)

\* A buffer that begins with a frame begins after all the frames before it.
LEMMA Restart ==
    ASSUME NEW d, NEW pos, NEW n, Reads(d, pos, n), Nats, NEW del, NEW j, NEW P, NatsAt(d, pos, n, del, j, P),
           NEW k \in 0..Count, Len(Frames(k)) <= n, P = End(pos, k)
    PROVE  NatsAt(d, pos, n, del, k, P)
<1>1. /\ j \in 0..Count /\ Len(Frames(j)) <= n /\ P \in Nat /\ End(pos, j) <= P /\ P <= Len(d)
      /\ InOrder(del, j)
    BY Zenon DEF NatsAt
<1>2. /\ \A i \in 1..j : Spared(i) => Text(i) \in ToSet(del)
      /\ \A i \in (j + 1)..Count : Spared(i) => Ahead(pos, j, P, i)
    BY Zenon DEF NatsAt
<1>3. Count \in Nat
    BY StreamTyped DEF Reads
<1>4. j <= k
    <2>1. ASSUME k < j PROVE FALSE
        <3>1. j \in k..Count /\ j # k
            BY <1>1, <1>3, <2>1
        <3>2. End(pos, k) + 6 <= End(pos, j)
            BY <1>1, <3>1, EndGrows
        <3>3. End(pos, j) \in Nat
            BY <1>1, EndIs
        <3> QED BY <1>1, <3>2, <3>3
    <2> QED BY <1>1, <1>3, <2>1
<1>5. InOrder(del, k)
    BY <1>1, <1>3, <1>4, InOrderWider
<1>6. ASSUME NEW i \in 1..k, Spared(i) PROVE Text(i) \in ToSet(del)
    <2>1. CASE i <= j
        <3>1. i \in 1..j
            BY <1>1, <2>1
        <3> QED BY <1>2, <1>6, <3>1
    <2>2. ASSUME ~(i <= j) PROVE FALSE
        <3>1. i \in (j + 1)..Count /\ i - 1 \in 0..Count /\ k \in (i - 1)..Count /\ k \in j..Count /\ k # j
            BY <1>1, <1>3, <2>2
        <3>2. Len(Frames(i - 1)) <= n /\ End(pos, i - 1) <= End(pos, k)
            BY <3>1, EndMonotone
        <3>3. Ahead(pos, j, P, i)
            BY <1>2, <1>6, <3>1
        <3>4. (i = j + 1 /\ P = End(pos, j)) \/ P + 2 <= End(pos, i - 1)
            BY <1>1, <3>1, <3>2, <3>3, AheadIs
        <3>5. End(pos, j) + 6 <= End(pos, k)
            BY <1>1, <3>1, EndGrows
        <3>6. End(pos, j) \in Nat /\ End(pos, i - 1) \in Nat
            BY <1>1, <3>1, <3>2, EndIs
        <3> QED BY <1>1, <3>2, <3>4, <3>5, <3>6
    <2> QED BY <2>1, <2>2
<1>7. ASSUME NEW i \in (k + 1)..Count, Spared(i) PROVE Ahead(pos, k, P, i)
    <2>1. CASE i = k + 1
        BY <2>1 DEF Ahead
    <2>2. CASE i # k + 1
        <3>1. P <= End(pos, k) + 4
            BY <1>1
        <3> QED BY <1>1, <2>2, <3>1, AheadNear
    <2> QED BY <2>1, <2>2
<1>8. End(pos, k) <= P
    BY <1>1
<1> QED BY <1>1, <1>5, <1>6, <1>7, <1>8 DEF NatsAt

\* A turn that takes something off the buffer b, which begins after the P-th character.
Advances(d, pos, n, del, P, b) ==
    /\ Cut(b).is /\ Message(b, Cut(b)) \in Seq(Seq(Signs))
    /\ \E k, Q : /\ P < Q /\ SubSeq(b, Cut(b).next, Len(b)) = SubSeq(d, Q + 1, Len(d))
                 /\ NatsAt(d, pos, n, del \o Message(b, Cut(b)), k, Q)

\* Of the messages after the j-th none that is spared has arrived.
Stuck(n, j) == \A i \in (j + 1)..Count : Spared(i) => n < Len(Frames(i))

\* What follows a frame that was cut off, with characters too many.
LEMMA StartAhead ==
    ASSUME NEW d, NEW pos, NEW n, NEW j, NEW p, Taking(d, pos, n, j, p),
           NEW o, Spans(d, j, p, End(pos, j), End(pos, j + 1), o), End(pos, j) + p + 6 <= Len(d),
           NEW i \in (j + 2)..Count, Spared(i)
    PROVE  Ahead(pos, j + 1, End(pos, j) + p + 6, i)
<1>1. Reads(d, pos, n) /\ Nats /\ j \in Nat /\ j < Count /\ Len(Frames(j + 1)) <= n /\ p = Len(Payload(j + 1))
    BY Zenon DEF Taking
<1>2. Count \in Nat
    BY <1>1, StreamTyped DEF Reads
<1>3. PICK a, z, Q : a = End(pos, j) /\ z = End(pos, j + 1) /\ Q = a + p + 6
    OBVIOUS
<1>4. /\ p \in Nat /\ a \in Nat /\ z \in Nat /\ z <= Q
      /\ Len(Text(j + 1)) \in Nat /\ Len(Text(j + 1)) <= z - a - 6
      /\ "wide" \notin ToSet(sent[j + 1]) => z = Q
    <2>1. Spans(d, j, p, a, z, o)
        BY <1>3
    <2> QED BY <1>3, <2>1, Zenon DEF Spans
<1>5. Q \in Nat /\ Q = a + p + 6
    <2>1. p \in Nat /\ a \in Nat /\ Q = a + p + 6
        BY <1>3, <1>4, Zenon
    <2> HIDE <1>3, <1>4
    <2> QED BY <2>1
<1>6. CASE "wide" \in ToSet(sent[j + 1])
    <2>1. j + 1 \in 1..(i - 1)
        BY <1>1, <1>2
    <2>2. p - Len(Text(j + 1)) + 2 <= Fewest(i - 1) - Fewest(j + 1)
        BY <1>1, <1>6, <2>1, SparedIs
    <2>3. j + 1 \in 0..Count /\ i - 1 \in (j + 1)..Count
        BY <1>1, <1>2
    <2>4. Fewest(j + 1) \in Nat /\ Fewest(i - 1) \in Nat
        <3>1. CASE j + 1 = i - 1
            BY <1>1, <2>3, <3>1, FewestLeast
        <3>2. CASE j + 1 # i - 1
            BY <1>1, <2>3, <3>2, FewestGrows DEF Reads
        <3> QED BY <3>1, <3>2
    <2>5. (Q - z) + 2 <= Fewest(i - 1) - Fewest(j + 1)
        <3>1. PICK t, f, g : t = Len(Text(j + 1)) /\ f = Fewest(i - 1) /\ g = Fewest(j + 1)
            OBVIOUS
        <3>2. /\ a \in Nat /\ p \in Nat /\ z \in Nat /\ t \in Nat /\ f \in Nat /\ g \in Nat
              /\ t <= z - a - 6 /\ p - t + 2 <= f - g
            BY <1>4, <2>2, <2>4, <3>1, Zenon
        <3>3. (Q - z) + 2 <= f - g
            BY <1>5, <3>2
        <3> QED BY <3>1, <3>3, Zenon
    <2> QED BY <1>3, <2>5, Zenon DEF Ahead
<1>7. CASE "wide" \notin ToSet(sent[j + 1])
    <2>1. z = Q
        BY <1>4, <1>7
    <2>2. CASE i = (j + 1) + 1
        BY <1>3, <2>1, <2>2, Zenon DEF Ahead
    <2>3. CASE i # (j + 1) + 1
        <3>1. j + 1 \in 0..Count /\ i \in ((j + 1) + 1)..Count /\ Q <= End(pos, j + 1) + 4
            BY <1>1, <1>2, <1>3, <1>4, <2>1, SMTT(30)
        <3>2. Ahead(pos, j + 1, Q, i)
            BY <1>1, <1>5, <2>3, <3>1, AheadNear
        <3> QED BY <1>3, <3>2
    <2> QED BY <2>2, <2>3
<1> QED BY <1>6, <1>7

\* The buffer b begins with a frame and is as long as its size says.
Full(d, pos, j, b) ==
    b = SubSeq(d, End(pos, j) + 1, Len(d)) /\ Len(b) >= Len(Payload(j + 1)) + 6

\* A whole frame is taken: its message is delivered, or lost to what was taken too much.
LEMMA StartTakes ==
    ASSUME NEW d, NEW pos, NEW n, Reads(d, pos, n), Nats, NEW del, NEW j,
           NatsAt(d, pos, n, del, j, End(pos, j)), j < Count, NEW b, Full(d, pos, j, b)
    PROVE  Advances(d, pos, n, del, End(pos, j), b)
<1>1. /\ j \in 0..Count /\ Len(Frames(j)) <= n /\ End(pos, j) \in Nat /\ End(pos, j) <= Len(d)
      /\ InOrder(del, j)
    BY Zenon DEF NatsAt
<1>2. /\ \A i \in 1..j : Spared(i) => Text(i) \in ToSet(del)
    BY Zenon DEF NatsAt
<1>3. Streaming /\ Count \in Nat /\ d \in Seq(Signs) /\ Len(d) \in Nat
    BY <1>1, EndIs, StreamTyped
<1>4. j \in Nat /\ j + 1 \in 0..Count
    BY <1>1, <1>3
<1>5. PICK p, a, z, Q, N, h : /\ p = Len(Payload(j + 1)) /\ a = End(pos, j) /\ z = End(pos, j + 1)
                              /\ Q = a + p + 6 /\ N = Len(d) /\ h = Len(b)
                              /\ b = SubSeq(d, a + 1, N)
    BY Zenon DEF Full
<1>6. /\ p \in Nat /\ h \in Nat /\ h = N - a /\ h >= p + 6
      /\ Cut(b) = CutAt(Payload(j + 1), 5, p + 7)
    <2>1. PICK x, c : /\ x \in Nat /\ x = Len(Payload(j + 1)) /\ c = SubSeq(d, End(pos, j) + 1, Len(d))
                      /\ Cut(c) = IF Len(c) >= x + 6 THEN CutAt(Payload(j + 1), 5, x + 7) ELSE NoCut
                      /\ Len(c) \in Nat /\ Len(c) = Len(d) - End(pos, j)
        BY <1>1, <1>4, FrameCut
    <2>2. c = b /\ x = p
        BY <1>5, <2>1, Zenon
    <2>3. Len(b) >= p + 6
        BY <1>5, Zenon DEF Full
    <2> QED BY <1>5, <2>1, <2>2, <2>3, Zenon
<1>7. /\ a \in Nat /\ N \in Nat /\ a <= N /\ Q \in Nat /\ Q <= N /\ N - a >= p + 6
      /\ Q = a + p + 6 /\ p + 6 <= h /\ a + h = N /\ h \in Nat /\ p \in Nat
    <2>1. a \in Nat /\ N \in Nat /\ a <= N /\ Q = a + p + 6
        BY <1>1, <1>3, <1>5, Zenon
    <2>2. p \in Nat /\ h \in Nat /\ h = N - a /\ h >= p + 6
        BY <1>6, Zenon
    <2> QED BY <2>1, <2>2
<1>8. Len(Frames(j + 1)) <= n
    <2>1. Len(d) - End(pos, j) >= p + 6
        BY <1>5, <1>7, Zenon
    <2> QED BY <1>1, <1>4, <1>5, <2>1, FrameArrived
<1>9. Taking(d, pos, n, j, p)
    BY <1>1, <1>4, <1>5, <1>8 DEF Taking
<1>10. PICK o : Spans(d, j, p, a, z, o)
    BY <1>5, <1>9, FrameSpans
<1>11. /\ z \in Nat /\ z <= Q /\ o \in Seq(Signs) /\ Alike(o, Text(j + 1)) /\ p >= 2
       /\ "wide" \notin ToSet(sent[j + 1]) => o = Text(j + 1) /\ z = Q
    BY <1>5, <1>10, Zenon DEF Spans, Object
<1>12. /\ Cut(b).is /\ Cut(b).from = 5 /\ Cut(b).to = p + 4 /\ Cut(b).next = p + 7
    <2>1. 5 + Len(Payload(j + 1)) - 1 = p + 4
        BY <1>5, <1>6
    <2>2. Cut(b) = [is |-> TRUE, from |-> 5, to |-> p + 4, next |-> p + 7]
        BY <1>6, <2>1, Zenon DEF CutAt
    <2> QED BY <2>2
<1>13. Message(b, Cut(b)) = IF a + p + 4 <= z THEN <<o>> ELSE <<>>
    <2>1. Message(b, Cut(b)) = Parsed(SubSeq(b, 5, p + 4))
        BY <1>12 DEF Message, Nats
    <2>2. SubSeq(b, 5, p + 4) = SubSeq(d, a + 4 + 1, a + 4 + p)
        <3>1. /\ 4 \in Nat /\ p + 4 \in Nat /\ 4 <= p + 4 /\ a + (p + 4) <= N /\ 4 + 1 = 5
              /\ a + (p + 4) = a + 4 + p
            BY <1>7
        <3>2. d \in Seq(Signs) /\ N <= Len(d)
            BY <1>3, <1>5
        <3>3. SubSeq(SubSeq(d, a + 1, N), 4 + 1, p + 4) = SubSeq(d, a + 4 + 1, a + (p + 4))
            BY <1>7, <3>1, <3>2, PartOfPart
        <3> QED BY <1>5, <3>1, <3>3, Zenon
    <2>3. Parsed(SubSeq(d, a + 4 + 1, a + 4 + p)) = IF a + p + 4 <= z THEN <<o>> ELSE <<>>
        <3>1. a + p + 6 <= Len(d)
            BY <1>5, <1>7
        <3> QED BY <1>10, <3>1, FrameParsed
    <2> QED BY <2>1, <2>2, <2>3, Zenon
<1>14. SubSeq(b, Cut(b).next, Len(b)) = SubSeq(d, Q + 1, N)
    <2>1. /\ p + 6 \in Nat /\ h \in Nat /\ p + 6 <= h /\ a + h <= N
          /\ (p + 6) + 1 = p + 7 /\ a + h = N /\ a + (p + 6) + 1 = Q + 1
        BY <1>7
    <2>2. SubSeq(SubSeq(d, a + 1, N), (p + 6) + 1, h) = SubSeq(d, a + (p + 6) + 1, a + h)
        <3>1. d \in Seq(Signs) /\ N <= Len(d)
            BY <1>3, <1>5
        <3> QED BY <1>7, <2>1, <3>1, PartOfPart
    <2> QED BY <1>5, <1>12, <2>1, <2>2, Zenon
<1>15. PICK w : w = del \o Message(b, Cut(b))
    OBVIOUS
<1>16. /\ InOrder(w, j + 1) /\ Message(b, Cut(b)) \in Seq(Seq(Signs))
       /\ \A t \in ToSet(del) : t \in ToSet(w)
       /\ a + p + 4 <= z => o \in ToSet(w)
    <2>1. CASE a + p + 4 <= z
        <3>1. w = del \o <<o>> /\ Message(b, Cut(b)) = <<o>>
            BY <1>13, <1>15, <2>1
        <3>2. <<o>> \in Seq(Seq(Signs))
            BY <1>11
        <3> QED BY <1>1, <1>4, <1>11, <3>1, <3>2, InOrderMore, Zenon
    <2>2. CASE ~(a + p + 4 <= z)
        <3>1. Message(b, Cut(b)) = <<>> /\ <<>> \in Seq(Seq(Signs))
            BY <1>13, <2>2
        <3>2. w = del /\ j + 1 \in Nat /\ j <= j + 1
            <4>1. del \in Seq(Seq(Signs))
                BY <1>1, Zenon DEF InOrder
            <4>2. del \o <<>> = del
                BY <4>1
            <4>3. w = del
                BY <1>15, <3>1, <4>2, Zenon
            <4> QED BY <1>4, <4>3
        <3>3. InOrder(del, j + 1)
            BY <1>1, <1>4, <3>2, InOrderWider
        <3> QED BY <2>2, <3>1, <3>2, <3>3, Zenon
    <2> QED BY <2>1, <2>2
<1>17. ASSUME NEW i \in 1..(j + 1), Spared(i) PROVE Text(i) \in ToSet(w)
    <2>1. CASE i \in 1..j
        BY <1>2, <1>16, <1>17, <2>1
    <2>2. CASE i = j + 1
        <3>1. o = Text(j + 1) /\ z = Q
            BY <1>11, <1>17, <2>2, SparedIs
        <3>2. a + p + 4 <= z
            <4>1. z = a + p + 6 /\ a \in Nat /\ p \in Nat
                BY <1>5, <1>6, <1>7, <3>1, Zenon
            <4> QED BY <4>1
        <3> QED BY <1>16, <2>2, <3>1, <3>2
    <2> QED BY <1>4, <2>1, <2>2
<1>18. ASSUME NEW i \in ((j + 1) + 1)..Count, Spared(i) PROVE Ahead(pos, j + 1, Q, i)
    <2>1. i \in (j + 2)..Count
        BY <1>4
    <2>2. End(pos, j) + p + 6 <= Len(d) /\ Spans(d, j, p, End(pos, j), End(pos, j + 1), o)
        BY <1>5, <1>7, <1>10
    <2> QED BY <1>5, <1>9, <1>18, <2>1, <2>2, StartAhead
<1>19. NatsAt(d, pos, n, w, j + 1, Q)
    BY <1>4, <1>5, <1>7, <1>8, <1>11, <1>16, <1>17, <1>18, Zenon DEF NatsAt
<1>20. a < Q
    BY <1>5, <1>6, <1>7, SMTT(30)
<1> QED BY <1>5, <1>12, <1>14, <1>15, <1>16, <1>19, <1>20, Zenon DEF Advances

LEMMA StartStuck ==
    ASSUME NEW d, NEW pos, NEW n, Reads(d, pos, n), Nats, NEW j \in Nat, j < Count, Len(Frames(j)) <= n,
           Len(d) - End(pos, j) < Len(Payload(j + 1)) + 6
    PROVE  Stuck(n, j)
<1> SUFFICES ASSUME NEW i \in (j + 1)..Count, Spared(i), Len(Frames(i)) <= n PROVE FALSE
    <2>1. \A i \in (j + 1)..Count : Len(Frames(i)) \in Nat /\ n \in Nat
        <3> TAKE i \in (j + 1)..Count
        <3>1. Streaming /\ i \in 0..Count
            BY StreamTyped DEF Reads
        <3>2. j \in 0..Count
            BY <3>1, StreamTyped
        <3> QED BY <3>1, <3>2, FramesTyped, EndIs
    <2> QED BY <2>1 DEF Stuck
<1>1. Count \in Nat
    BY StreamTyped DEF Reads
<1>2. j + 1 \in 0..Count /\ i \in 0..Count /\ i \in (j + 1)..Count /\ i - 1 \in j..Count /\ i - 1 \in 0..Count
    BY <1>1
<1>3. Len(Frames(j + 1)) <= n
    BY <1>2, EndMonotone
<1>4. PICK p, a, z, N, y, t : /\ p = Len(Payload(j + 1)) /\ a = End(pos, j) /\ z = End(pos, j + 1) /\ N = Len(d)
                              /\ y = End(pos, i - 1) /\ t = Len(Text(j + 1))
    OBVIOUS
<1>5. Taking(d, pos, n, j, p)
    BY <1>3, <1>4 DEF Taking
<1>6. PICK o : Spans(d, j, p, a, z, o)
    BY <1>4, <1>5, FrameSpans
<1>7. /\ p \in Nat /\ a \in Nat /\ z \in Nat /\ N \in Nat /\ z <= N /\ t \in Nat /\ t <= z - a - 6
      /\ "wide" \notin ToSet(sent[j + 1]) => z = a + p + 6
    BY <1>4, <1>6, Zenon DEF Spans
<1>8. N - a < p + 6
    BY <1>4
<1>9. "wide" \in ToSet(sent[j + 1])
    BY <1>7, <1>8
<1>10. i # j + 1
    BY <1>9, SparedIs
<1>11. i - 1 \in (j + 1)..Count /\ j + 1 \in 1..(i - 1) /\ i \in (i - 1)..Count
    BY <1>1, <1>10
<1>12. Len(Frames(i - 1)) <= n
    BY <1>2, <1>11, EndMonotone
<1>13. y \in Nat /\ y <= N
    BY <1>2, <1>4, <1>12, EndIs
<1>14. PICK f, g : f = Fewest(i - 1) /\ g = Fewest(j + 1)
    OBVIOUS
<1>15. f \in Nat /\ g \in Nat /\ f - g <= y - z
    BY <1>2, <1>4, <1>11, <1>12, <1>14, FewestLeast
<1>16. p - t + 2 <= f - g
    BY <1>4, <1>9, <1>11, <1>14, SparedIs
<1> QED BY <1>7, <1>8, <1>13, <1>15, <1>16

\* A buffer that begins with a frame.
LEMMA StartTurns ==
    ASSUME NEW d, NEW pos, NEW n, Reads(d, pos, n), Nats, NEW del, NEW j,
           NatsAt(d, pos, n, del, j, End(pos, j))
    PROVE  LET b == SubSeq(d, End(pos, j) + 1, Len(d))
           IN  IF Cut(b).is THEN Advances(d, pos, n, del, End(pos, j), b) ELSE Stuck(n, j)
<1>1. j \in 0..Count /\ Len(Frames(j)) <= n
    BY Zenon DEF NatsAt
<1>2. Streaming /\ Reading(d, pos, Stream, n) /\ Count \in Nat
    BY StreamTyped DEF Reads
<1>3. PICK b : b = SubSeq(d, End(pos, j) + 1, Len(d))
    OBVIOUS
<1>4. CASE j < Count
    <2>1. j \in Nat
        BY <1>1, <1>2
    <2>2. PICK p, c : /\ p \in Nat /\ p = Len(Payload(j + 1)) /\ c = SubSeq(d, End(pos, j) + 1, Len(d))
                      /\ Cut(c) = IF Len(c) >= p + 6 THEN CutAt(Payload(j + 1), 5, p + 7) ELSE NoCut
                      /\ Len(c) \in Nat /\ Len(c) = Len(d) - End(pos, j)
        BY <1>1, <1>4, <2>1, FrameCut
    <2>3. b = c
        BY <1>3, <2>2, Zenon
    <2>4. CASE Len(b) >= p + 6
        <3>1. Cut(b).is
            <4>1. Cut(b) = CutAt(Payload(j + 1), 5, p + 7)
                BY <2>2, <2>3, <2>4, Zenon
            <4>2. CutAt(Payload(j + 1), 5, p + 7).is
                BY DEF CutAt
            <4> QED BY <4>1, <4>2, Zenon
        <3>2. Full(d, pos, j, b)
            BY <1>3, <2>2, <2>4, Zenon DEF Full
        <3>3. Advances(d, pos, n, del, End(pos, j), b)
            BY <1>4, <3>2, StartTakes
        <3> QED BY <1>3, <3>1, <3>3, Zenon
    <2>5. CASE ~(Len(b) >= p + 6)
        <3>1. ~Cut(b).is
            <4>1. Cut(b) = NoCut
                BY <2>2, <2>3, <2>5, Zenon
            <4>2. ~NoCut.is
                BY DEF NoCut
            <4> QED BY <4>1, <4>2, Zenon
        <3>2. Len(d) - End(pos, j) < p + 6
            <4>1. PICK h, e : h = Len(b) /\ e = Len(d) - End(pos, j)
                OBVIOUS
            <4>2. h = e /\ h \in Nat /\ p \in Nat /\ ~(h >= p + 6)
                BY <2>2, <2>3, <2>5, <4>1, Zenon
            <4>3. e < p + 6
                BY <4>2
            <4> QED BY <4>1, <4>3, Zenon
        <3>3. Stuck(n, j)
            <4>1. Len(d) - End(pos, j) < Len(Payload(j + 1)) + 6
                BY <2>2, <3>2, Zenon
            <4> QED BY <1>1, <1>4, <2>1, <4>1, StartStuck
        <3> QED BY <1>3, <3>1, <3>3, Zenon
    <2> QED BY <2>4, <2>5
<1>5. CASE ~(j < Count)
    <2>1. j = Count /\ (j + 1)..Count = {}
        BY <1>1, <1>2, <1>5
    <2>2. Stuck(n, j)
        BY <2>1 DEF Stuck
    <2>3. End(pos, j) = Len(d) /\ Len(d) \in Nat
        <3>1. Len(Frames(j)) = Len(Stream)
            BY <2>1 DEF Stream
        <3>2. Len(Stream) \in Nat /\ n \in Nat /\ n <= Len(Stream) /\ pos[n] = Len(d) /\ Len(d) \in Nat
            BY <1>2, ReadingSteps
        <3>3. Len(Frames(j)) = n
            BY <1>1, <3>1, <3>2
        <3> QED BY <3>2, <3>3 DEF End
    <2>4. b = <<>>
        BY <1>3, <2>3, SubSeqEmpty
    <2>5. ~Cut(b).is
        BY <1>2, <2>4, CutEmpty DEF NoCut
    <2> QED BY <1>3, <2>2, <2>5, Zenon
<1> QED BY <1>4, <1>5

\* The line break before a spared message is ahead.
LEMMA BreakAhead ==
    ASSUME NEW d, NEW pos, NEW n, Reads(d, pos, n), Nats, NEW del, NEW j, NEW P, NatsAt(d, pos, n, del, j, P),
           P # End(pos, j), NEW i \in (j + 1)..Count, Spared(i), Len(Frames(i - 1)) <= n
    PROVE  End(pos, i - 1) \in (P + 2)..Len(d) /\ Breaks(d, End(pos, i - 1))
<1>1. /\ j \in 0..Count /\ Len(Frames(j)) <= n /\ P \in Nat /\ End(pos, j) <= P
      /\ Ahead(pos, j, P, i)
    BY Zenon DEF NatsAt
<1>2. Count \in Nat
    BY StreamTyped DEF Reads
<1>3. i - 1 \in 0..Count /\ i - 1 \in j..Count
    BY <1>1, <1>2
<1>4. P + 2 <= End(pos, i - 1)
    BY <1>1, AheadIs
<1>5. End(pos, i - 1) \in Nat /\ End(pos, i - 1) <= Len(d) /\ Len(d) \in Nat /\ End(pos, j) \in Nat
    BY <1>1, <1>3, EndIs
<1>6. i - 1 # j
    BY <1>1, <1>4, <1>5
<1>7. PICK k \in Nat : k + 1 = i - 1 /\ k < Count
    <2>1. i - 2 \in Nat /\ (i - 2) + 1 = i - 1 /\ i - 2 < Count
        BY <1>1, <1>2, <1>3, <1>6
    <2> QED BY <2>1
<1>8. PICK l, p : l = Len(Frames(k)) /\ p = Len(Payload(k + 1))
    OBVIOUS
<1>9. EndsLine(d, pos, n, l, p, End(pos, k), End(pos, k + 1))
    BY <1>7, <1>8, LineEnd
<1>10. Breaks(d, End(pos, k + 1))
    BY <1>9, Zenon DEF EndsLine, Breaks
<1> QED BY <1>1, <1>4, <1>5, <1>7, <1>10

\* The buffer begins within a frame.
Midway(d, pos, n, del, j, P) ==
    /\ Reads(d, pos, n) /\ Nats /\ NatsAt(d, pos, n, del, j, P)
    /\ \A k \in 0..Count : Len(Frames(k)) <= n => P # End(pos, k)

LEMMA InsideStuck ==
    ASSUME NEW d, NEW pos, NEW n, NEW del, NEW j, NEW P, Midway(d, pos, n, del, j, P),
           \A x \in (P + 2)..Len(d) : ~Breaks(d, x)
    PROVE  Stuck(n, j)
<1>1. Reads(d, pos, n) /\ Nats /\ NatsAt(d, pos, n, del, j, P)
    BY Zenon DEF Midway
<1>2. j \in 0..Count /\ Len(Frames(j)) <= n
    BY <1>1, Zenon DEF NatsAt
<1>3. P # End(pos, j)
    BY <1>2, Zenon DEF Midway
<1>4. Streaming /\ Count \in Nat /\ n \in Nat
    BY <1>1, <1>2, StreamTyped, EndIs DEF Reads
<1>5. ASSUME NEW i \in (j + 1)..Count, Spared(i), Len(Frames(i)) <= n PROVE FALSE
    <2>1. i - 1 \in 0..Count /\ i \in (i - 1)..Count
        BY <1>2, <1>4
    <2>2. Len(Frames(i - 1)) <= n
        BY <1>1, <1>5, <2>1, EndMonotone
    <2>3. End(pos, i - 1) \in (P + 2)..Len(d) /\ Breaks(d, End(pos, i - 1))
        BY <1>1, <1>3, <1>5, <2>2, BreakAhead
    <2> QED BY <2>3
<1>6. \A i \in (j + 1)..Count : Len(Frames(i)) \in Nat
    <2> TAKE i \in (j + 1)..Count
    <2>1. i \in 0..Count
        BY <1>2, <1>4
    <2> QED BY <1>4, <2>1, FramesTyped
<1> QED BY <1>4, <1>5, <1>6 DEF Stuck

\* What follows the first line break is a frame, or a payload that is not ahead of any
\* spared message.
LEMMA InsideBreaks ==
    ASSUME NEW d, NEW pos, NEW n, NEW del, NEW j, NEW P, Midway(d, pos, n, del, j, P),
           NEW x \in Nat, FirstBreak(d, P, x), NEW m \in 0..Count, Len(Frames(m)) <= n,
           x = End(pos, m) \/ x = End(pos, m) + 4
    PROVE  NatsAt(d, pos, n, del, m, x)
<1>1. Reads(d, pos, n) /\ Nats /\ NatsAt(d, pos, n, del, j, P)
    BY Zenon DEF Midway
<1>2. j \in 0..Count /\ Len(Frames(j)) <= n /\ P \in Nat /\ End(pos, j) <= P /\ InOrder(del, j)
    BY <1>1, Zenon DEF NatsAt
<1>3. /\ \A i \in 1..j : Spared(i) => Text(i) \in ToSet(del)
    BY <1>1, Zenon DEF NatsAt
<1>4. P # End(pos, j)
    BY <1>2, Zenon DEF Midway
<1>5. Count \in Nat /\ End(pos, j) \in Nat /\ End(pos, m) \in Nat /\ Len(d) \in Nat
    BY <1>1, <1>2, StreamTyped, EndIs DEF Reads
<1>6. x \in (P + 2)..Len(d) /\ \A y \in (P + 2)..Len(d) : Breaks(d, y) => x <= y
    BY Zenon DEF FirstBreak
<1>7. j <= m
    <2>1. ASSUME m < j PROVE FALSE
        <3>1. j \in m..Count /\ j # m
            BY <1>2, <1>5, <2>1
        <3>2. End(pos, m) + 6 <= End(pos, j)
            BY <1>1, <1>2, <3>1, EndGrows
        <3> QED BY <1>2, <1>5, <1>6, <3>2
    <2> QED BY <1>2, <1>5, <2>1
<1>8. ASSUME NEW i \in (j + 1)..Count, Spared(i), Len(Frames(i - 1)) <= n PROVE x <= End(pos, i - 1)
    <2>1. End(pos, i - 1) \in (P + 2)..Len(d) /\ Breaks(d, End(pos, i - 1))
        BY <1>1, <1>4, <1>8, BreakAhead
    <2> QED BY <1>6, <2>1
<1>9. ASSUME NEW i \in 1..m, Spared(i) PROVE Text(i) \in ToSet(del)
    <2>1. CASE i <= j
        <3>1. i \in 1..j
            BY <1>2, <2>1
        <3> QED BY <1>3, <1>9, <3>1
    <2>2. ASSUME ~(i <= j) PROVE FALSE
        <3>1. i \in (j + 1)..Count /\ i - 1 \in 0..Count /\ m \in (i - 1)..Count /\ i - 1 # m
            BY <1>2, <1>5, <2>2
        <3>2. Len(Frames(i - 1)) <= n /\ End(pos, i - 1) + 6 <= End(pos, m)
            BY <1>1, <3>1, EndMonotone, EndGrows
        <3>3. x <= End(pos, i - 1)
            BY <1>8, <1>9, <3>1, <3>2
        <3>4. End(pos, i - 1) \in Nat
            BY <1>1, <3>1, <3>2, EndIs
        <3> QED BY <1>5, <3>2, <3>3, <3>4
    <2> QED BY <2>1, <2>2
<1>10. ASSUME NEW i \in (m + 1)..Count, Spared(i) PROVE Ahead(pos, m, x, i)
    <2>1. CASE i = m + 1
        <3>1. i \in (j + 1)..Count /\ i - 1 = m
            BY <1>2, <1>5, <1>7, <2>1
        <3>2. x <= End(pos, m)
            BY <1>8, <1>10, <3>1
        <3>3. x = End(pos, m)
            BY <1>5, <3>2
        <3> QED BY <2>1, <3>3, Zenon DEF Ahead
    <2>2. CASE i # m + 1
        <3>1. x <= End(pos, m) + 4
            BY <1>5
        <3> QED BY <1>1, <2>2, <3>1, AheadNear
    <2> QED BY <2>1, <2>2
<1>11. InOrder(del, m)
    BY <1>2, <1>5, <1>7, InOrderWider
<1>12. End(pos, m) <= x /\ x <= Len(d)
    BY <1>2, <1>5, <1>6
<1> QED BY <1>9, <1>10, <1>11, <1>12, Zenon DEF NatsAt

LEMMA InsideTurns ==
    ASSUME NEW d, NEW pos, NEW n, NEW del, NEW j, NEW P, Midway(d, pos, n, del, j, P)
    PROVE  LET b == SubSeq(d, P + 1, Len(d))
           IN  IF Cut(b).is THEN Advances(d, pos, n, del, P, b) ELSE Stuck(n, j)
<1>1. /\ Reads(d, pos, n) /\ Nats /\ NatsAt(d, pos, n, del, j, P)
      /\ \A k \in 0..Count : Len(Frames(k)) <= n => P # End(pos, k)
    BY Zenon DEF Midway
<1>2. P \in Nat /\ P <= Len(d) /\ InOrder(del, j)
    BY <1>1, Zenon DEF NatsAt
<1>3. d \in Seq(Signs) /\ Len(d) \in Nat /\ Count \in Nat
    BY <1>1, ReadingSteps, StreamTyped DEF Reads
<1>4. PICK b, N, h : b = SubSeq(d, P + 1, N) /\ N = Len(d) /\ h = Len(b)
    OBVIOUS
<1>5. h = N - P /\ N \in Nat /\ P <= N
    <2>1. N \in Nat /\ P <= N /\ N <= Len(d)
        BY <1>2, <1>3, <1>4
    <2>2. Len(SubSeq(d, P + 1, N)) = N - P
        BY <1>2, <1>3, <2>1, PartIs
    <2> QED BY <1>4, <2>1, <2>2, Zenon
<1>6. \/ Cut(b) = NoCut /\ \A x \in (P + 2)..N : ~Breaks(d, x)
      \/ \E x \in Nat : FirstBreak(d, P, x) /\ Cut(b) = SkipTo(x - P + 1)
    BY <1>1, <1>2, <1>4, LineCut, Zenon
<1>7. CASE Cut(b) = NoCut /\ \A x \in (P + 2)..N : ~Breaks(d, x)
    <2>1. Stuck(n, j)
        BY <1>4, <1>7, InsideStuck
    <2>2. ~NoCut.is
        BY DEF NoCut
    <2> QED BY <1>4, <1>7, <2>1, <2>2, Zenon
<1>8. ASSUME NEW x \in Nat, FirstBreak(d, P, x), Cut(b) = SkipTo(x - P + 1)
      PROVE  Cut(b).is /\ Advances(d, pos, n, del, P, b)
    <2>1. x \in (P + 2)..N /\ Breaks(d, x)
        BY <1>4, <1>8, Zenon DEF FirstBreak
    <2>2. x \in 1..Len(d) /\ d[x].is = "lf"
        BY <1>2, <1>4, <1>5, <2>1 DEF Breaks
    <2>3. PICK k \in Nat : /\ k < Count
                           /\ \/ Len(Frames(k)) + 4 <= n /\ x = End(pos, k) + 4
                              \/ Len(Frames(k + 1)) <= n /\ x = End(pos, k + 1)
        BY <1>1, <2>2, SignAt
    <2>4. \E m \in 0..Count : Len(Frames(m)) <= n /\ (x = End(pos, m) \/ x = End(pos, m) + 4)
        <3>1. k \in 0..Count /\ k + 1 \in 0..Count
            BY <1>3, <2>3
        <3>2. Len(Frames(k)) \in Nat /\ n \in Nat
            BY <1>1, <3>1, FramesTyped, ReadingSteps DEF Reads
        <3>3. CASE Len(Frames(k)) + 4 <= n /\ x = End(pos, k) + 4
            <4>1. Len(Frames(k)) <= n
                BY <3>2, <3>3
            <4> QED BY <3>1, <3>3, <4>1
        <3>4. CASE Len(Frames(k + 1)) <= n /\ x = End(pos, k + 1)
            BY <3>1, <3>4
        <3> QED BY <2>3, <3>3, <3>4
    <2>5. PICK m \in 0..Count : Len(Frames(m)) <= n /\ (x = End(pos, m) \/ x = End(pos, m) + 4)
        BY <2>4
    <2>6. NatsAt(d, pos, n, del, m, x)
        BY <1>8, <2>5, InsideBreaks
    <2>7. Cut(b).is /\ Cut(b).from = 1 /\ Cut(b).to = 0 /\ Cut(b).next = x - P + 1
        <3>1. Cut(b) = [is |-> TRUE, from |-> 1, to |-> 0, next |-> x - P + 1]
            BY <1>8, Zenon DEF SkipTo
        <3> QED BY <3>1
    <2>8. Message(b, Cut(b)) = <<>>
        <3>1. SubSeq(b, 1, 0) = <<>>
            BY SubSeqEmpty
        <3>2. SubSeq(b, Cut(b).from, Cut(b).to) = <<>>
            BY <2>7, <3>1, Zenon
        <3>3. reader # "native"
            BY <1>1 DEF Nats
        <3> QED BY <3>2, <3>3, ParsedEmpty, Zenon DEF Message
    <2>9. SubSeq(b, Cut(b).next, Len(b)) = SubSeq(d, x + 1, N)
        <3>1. /\ x - P \in Nat /\ h \in Nat /\ x - P <= h /\ P + h <= N
              /\ P + h = N /\ P + (x - P) + 1 = x + 1
            BY <1>2, <1>5, <2>1
        <3>2. N <= Len(d)
            BY <1>4, <1>5
        <3>3. SubSeq(SubSeq(d, P + 1, N), (x - P) + 1, h) = SubSeq(d, P + (x - P) + 1, P + h)
            BY <1>2, <1>3, <1>5, <3>1, <3>2, PartOfPart
        <3> QED BY <1>4, <2>7, <3>1, <3>3, Zenon
    <2>10. del \o <<>> = del /\ <<>> \in Seq(Seq(Signs))
        <3>1. del \in Seq(Seq(Signs))
            BY <1>2, Zenon DEF InOrder
        <3> QED BY <3>1
    <2>11. P < x
        BY <1>2, <1>5, <2>1
    <2>12. NatsAt(d, pos, n, del \o Message(b, Cut(b)), m, x)
        BY <2>6, <2>8, <2>10, Zenon
    <2> QED BY <1>4, <2>7, <2>8, <2>9, <2>10, <2>11, <2>12, Zenon DEF Advances
<1> QED BY <1>4, <1>6, <1>7, <1>8, Zenon

-----------------------------------------------------------------------------
(* The loops, when turns may do more than take messages.                    *)

LEMMA TurnsExist ==
    ASSUME NEW b, NEW m \in Nat
    PROVE  \E g : g = [i \in 0..m |-> IF i = 0 THEN Taken(b, <<>>) ELSE Turn(g[i - 1])]
<1> DEFINE Is(g, k) == g = [i \in 0..k |-> IF i = 0 THEN Taken(b, <<>>) ELSE Turn(g[i - 1])]
           T == {k \in Nat : \E g : Is(g, k)}
<1>1. 0 \in T
    <2>1. PICK g : g = [i \in 0..0 |-> Taken(b, <<>>)]
        OBVIOUS
    <2>2. Is(g, 0)
        BY <2>1
    <2> QED BY <2>2
<1>2. ASSUME NEW k \in T PROVE k + 1 \in T
    <2>1. PICK g : Is(g, k)
        OBVIOUS
    <2> DEFINE f == [i \in 0..(k + 1) |-> IF i = k + 1 THEN Turn(g[k]) ELSE g[i]]
    <2>2. k \in Nat /\ \A i \in 0..(k + 1) : i \in 0..k \/ i = k + 1
        OBVIOUS
    <2>3. \A i \in 0..k : i \in 0..(k + 1) /\ i # k + 1
        OBVIOUS
    <2>4. \A i \in 0..k : f[i] = g[i]
        BY <2>3
    <2>5. \A i \in 0..k : g[i] = IF i = 0 THEN Taken(b, <<>>) ELSE Turn(g[i - 1])
        BY <2>1
    <2>6. f[k + 1] = Turn(g[k]) /\ k + 1 # 0 /\ (k + 1) - 1 = k /\ k \in 0..k
        BY <2>2
    <2>7. \A i \in 0..k : i # 0 => i - 1 \in 0..k
        BY <2>2
    <2>8. f = [i \in 0..(k + 1) |-> f[i]]
        OBVIOUS
    <2> HIDE DEF f
    <2>9. ASSUME NEW i \in 0..(k + 1)
          PROVE  f[i] = IF i = 0 THEN Taken(b, <<>>) ELSE Turn(f[i - 1])
        <3>1. CASE i = k + 1
            BY <2>4, <2>6, <3>1, Zenon
        <3>2. CASE i \in 0..k
            <4>1. f[i] = g[i] /\ g[i] = IF i = 0 THEN Taken(b, <<>>) ELSE Turn(g[i - 1])
                BY <2>4, <2>5, <3>2
            <4>2. i # 0 => f[i - 1] = g[i - 1]
                BY <2>4, <2>7, <3>2
            <4> QED BY <4>1, <4>2, Zenon
        <3> QED BY <2>2, <3>1, <3>2
    <2>10. [i \in 0..(k + 1) |-> f[i]] =
             [i \in 0..(k + 1) |-> IF i = 0 THEN Taken(b, <<>>) ELSE Turn(f[i - 1])]
        BY <2>9, Zenon
    <2>11. Is(f, k + 1)
        BY <2>8, <2>10, Zenon
    <2>12. \E h : Is(h, k + 1)
        <3> HIDE DEF Is
        <3> QED BY <2>11
    <2>13. k + 1 \in Nat
        BY <2>2
    <2> HIDE DEF Is
    <2> QED BY <2>12, <2>13
<1> HIDE DEF T
<1>3. m \in T
    BY <1>1, <1>2, SetInduction
<1> QED BY <1>3 DEF T

\* Where turns stay within the set G, and each takes something off the buffer, the loop
\* does as well, and nothing is left to be taken.
LEMMA ConsumeWithin ==
    ASSUME Streaming, NEW b, Len(b) \in Nat, NEW G, Taken(b, <<>>) \in G,
           \A s \in G : /\ Turn(s) \in G /\ s.rest \in Seq(Signs)
                        /\ Cut(s.rest).is => Len(Turn(s).rest) < Len(s.rest)
    PROVE  Consume(b) \in G /\ ~Cut(Consume(b).rest).is
<1>1. PICK m \in Nat : m = Len(b)
    OBVIOUS
<1>2. PICK g : g = [i \in 0..m |-> IF i = 0 THEN Taken(b, <<>>) ELSE Turn(g[i - 1])]
    BY TurnsExist
<1>3. g[0] = Taken(b, <<>>) /\ \A i \in 1..m : g[i] = Turn(g[i - 1])
    <2>1. \A i \in 0..m : g[i] = IF i = 0 THEN Taken(b, <<>>) ELSE Turn(g[i - 1])
        BY <1>2
    <2>2. 0 \in 0..m /\ \A i \in 1..m : i \in 0..m /\ i # 0
        OBVIOUS
    <2> QED BY <2>1, <2>2, Zenon
<1>4. \A s \in G : Len(s.rest) \in Nat
    BY LenProperties
<1>5. g[0].rest = b
    BY <1>3 DEF Taken
<1> DEFINE Done(i) == ~Cut(g[i].rest).is
           Fine(i) == g[i] \in G /\ (Done(i) \/ Len(g[i].rest) + i <= m)
           T == {i \in Nat : i <= m => Fine(i)}
<1>6. 0 \in T
    <2>1. Len(g[0].rest) + 0 <= m
        BY <1>1, <1>5
    <2>2. Fine(0)
        BY <1>3, <2>1
    <2> HIDE DEF Fine
    <2> QED BY <2>2
<1>7. ASSUME NEW i \in T PROVE i + 1 \in T
    <2> HIDE DEF Fine
    <2> SUFFICES ASSUME i + 1 <= m PROVE Fine(i + 1)
        OBVIOUS
    <2>1. i \in Nat /\ i <= m /\ i + 1 \in 1..m /\ (i + 1) - 1 = i /\ Fine(i)
        OBVIOUS
    <2> USE DEF Fine
    <2>2. g[i + 1] = Turn(g[i])
        BY <1>3, <2>1
    <2>3. g[i] \in G /\ (Done(i) \/ Len(g[i].rest) + i <= m)
        BY <2>1, Zenon
    <2>4. g[i + 1] \in G
        BY <2>2, <2>3
    <2>5. CASE Done(i)
        <3>1. Turn(g[i]) = g[i]
            BY <2>5, Zenon DEF Turn
        <3> QED BY <2>2, <2>4, <2>5, <3>1, Zenon
    <2>6. CASE ~Done(i)
        <3>1. Len(g[i + 1].rest) < Len(g[i].rest)
            BY <2>2, <2>3, <2>6, Zenon
        <3>2. Len(g[i + 1].rest) \in Nat /\ Len(g[i].rest) \in Nat
            BY <1>4, <2>3, <2>4
        <3>3. PICK x, y : x = Len(g[i + 1].rest) /\ y = Len(g[i].rest)
            OBVIOUS
        <3>4. x \in Nat /\ y \in Nat /\ x < y /\ y + i <= m
            BY <2>3, <2>6, <3>1, <3>2, <3>3, Zenon
        <3>5. x + (i + 1) <= m
            BY <2>1, <3>4
        <3> QED BY <2>4, <3>3, <3>5, Zenon
    <2> QED BY <2>5, <2>6
<1> HIDE DEF T
<1>8. Nat \subseteq T
    BY <1>6, <1>7, SetInduction
<1>9. g[m] \in G /\ (Done(m) \/ Len(g[m].rest) + m <= m)
    BY <1>8 DEF T
<1>10. Done(m)
    <2>1. CASE Len(g[m].rest) + m <= m
        <3>1. Len(g[m].rest) \in Nat /\ g[m].rest \in Seq(Signs)
            BY <1>4, <1>9
        <3>2. Len(g[m].rest) = 0
            BY <2>1, <3>1
        <3>3. g[m].rest = <<>>
            BY <3>1, <3>2
        <3> QED BY <3>3, CutEmpty DEF NoCut
    <2> QED BY <1>9, <2>1
<1>11. Consume(b) = g[m]
    <2>1. IsTurns(g, b)
        BY <1>1, <1>2, Zenon DEF IsTurns
    <2> QED BY <1>1, <2>1, ConsumeIs
<1> QED BY <1>9, <1>10, <1>11

LEMMA NatsTurns ==
    ASSUME NEW d, NEW pos, NEW n, Reads(d, pos, n), Nats, NEW del, NEW j, NEW P, NatsAt(d, pos, n, del, j, P),
           NEW b, b = SubSeq(d, P + 1, Len(d))
    PROVE  IF Cut(b).is THEN Advances(d, pos, n, del, P, b)
           ELSE \E k : NatsAt(d, pos, n, del, k, P) /\ Stuck(n, k)
<1>1. CASE \E k \in 0..Count : Len(Frames(k)) <= n /\ P = End(pos, k)
    <2>1. PICK k \in 0..Count : Len(Frames(k)) <= n /\ P = End(pos, k)
        BY <1>1
    <2>2. NatsAt(d, pos, n, del, k, P)
        BY <2>1, Restart
    <2>3. NatsAt(d, pos, n, del, k, End(pos, k))
        BY <2>1, <2>2, Zenon
    <2>4. LET c == SubSeq(d, End(pos, k) + 1, Len(d))
          IN  IF Cut(c).is THEN Advances(d, pos, n, del, End(pos, k), c) ELSE Stuck(n, k)
        BY <2>3, StartTurns
    <2>5. IF Cut(b).is THEN Advances(d, pos, n, del, P, b) ELSE Stuck(n, k)
        BY <2>1, <2>4, Zenon
    <2> QED BY <2>2, <2>5, Zenon
<1>2. CASE \A k \in 0..Count : Len(Frames(k)) <= n => P # End(pos, k)
    <2>1. Midway(d, pos, n, del, j, P)
        BY <1>2, Zenon DEF Midway
    <2>2. LET c == SubSeq(d, P + 1, Len(d))
          IN  IF Cut(c).is THEN Advances(d, pos, n, del, P, c) ELSE Stuck(n, j)
        BY <2>1, InsideTurns
    <2> QED BY <2>2, Zenon
<1> QED BY <1>1, <1>2, Zenon

\* What the loop may have come to.
Going(d, pos, n, del) ==
    {s \in [rest : Seq(Signs), out : Seq(Seq(Signs))] :
        \E k, Q : s.rest = SubSeq(d, Q + 1, Len(d)) /\ NatsAt(d, pos, n, del \o s.out, k, Q)}

\* The loop: no message that is spared and has arrived is left.
LEMMA NatsConsumes ==
    ASSUME NEW d, NEW pos, NEW n, Reads(d, pos, n), Nats, NEW del, NEW j, NEW P, NatsAt(d, pos, n, del, j, P),
           NEW b, b = SubSeq(d, P + 1, Len(d))
    PROVE  LET c == Consume(b)
           IN  \E k, Q : /\ c.rest = SubSeq(d, Q + 1, Len(d)) /\ c.rest \in Seq(Signs)
                         /\ NatsAt(d, pos, n, del \o c.out, k, Q) /\ Stuck(n, k)
<1> DEFINE G == Going(d, pos, n, del)
<1>1. Streaming /\ d \in Seq(Signs) /\ Len(d) \in Nat
    BY ReadingSteps DEF Reads
<1>2. P \in Nat /\ P <= Len(d) /\ del \in Seq(Seq(Signs))
    BY Zenon DEF NatsAt, InOrder
<1>3. b \in Seq(Signs) /\ Len(b) \in Nat
    <2>1. SubSeq(d, P + 1, Len(d)) \in Seq(Signs)
        BY <1>1, <1>2, PartIs
    <2> QED BY <2>1, LenProperties
<1>4. Taken(b, <<>>) \in G
    <2>1. Taken(b, <<>>) \in [rest : Seq(Signs), out : Seq(Seq(Signs))]
        BY <1>3 DEF Taken
    <2>2. Taken(b, <<>>).rest = b /\ Taken(b, <<>>).out = <<>>
        BY DEF Taken
    <2>3. del \o <<>> = del
        BY <1>2
    <2> QED BY <2>1, <2>2, <2>3, Zenon DEF Going
<1>5. ASSUME NEW s \in G
      PROVE  /\ Turn(s) \in G /\ s.rest \in Seq(Signs)
             /\ Cut(s.rest).is => Len(Turn(s).rest) < Len(s.rest)
    <2>1. s.rest \in Seq(Signs) /\ s.out \in Seq(Seq(Signs)) /\ s = Taken(s.rest, s.out)
        BY DEF Going, Taken
    <2>2. PICK k, Q : s.rest = SubSeq(d, Q + 1, Len(d)) /\ NatsAt(d, pos, n, del \o s.out, k, Q)
        BY Zenon DEF Going
    <2>3. PICK x, o : x = s.rest /\ o = s.out
        OBVIOUS
    <2>4. CASE ~Cut(x).is
        <3>1. Turn(s) = s
            BY <2>3, <2>4, Zenon DEF Turn
        <3> QED BY <2>1, <2>3, <2>4, <3>1, Zenon
    <2>5. CASE Cut(x).is
        <3>1. Advances(d, pos, n, del \o o, Q, x)
            <4>1. x = SubSeq(d, Q + 1, Len(d)) /\ NatsAt(d, pos, n, del \o o, k, Q)
                BY <2>2, <2>3, Zenon
            <4>2. IF Cut(x).is THEN Advances(d, pos, n, del \o o, Q, x)
                  ELSE \E i : NatsAt(d, pos, n, del \o o, i, Q) /\ Stuck(n, i)
                BY <4>1, NatsTurns
            <4> QED BY <2>5, <4>2, Zenon
        <3>2. PICK w : w = Message(x, Cut(x))
            OBVIOUS
        <3>3. w \in Seq(Seq(Signs)) /\ \E i, R : /\ Q < R /\ SubSeq(x, Cut(x).next, Len(x)) = SubSeq(d, R + 1, Len(d))
                                                /\ NatsAt(d, pos, n, (del \o o) \o w, i, R)
            BY <3>1, <3>2, Zenon DEF Advances
        <3>4. PICK i, R : /\ Q < R /\ SubSeq(x, Cut(x).next, Len(x)) = SubSeq(d, R + 1, Len(d))
                          /\ NatsAt(d, pos, n, (del \o o) \o w, i, R)
            BY <3>3
        <3>5. PICK y : y = SubSeq(d, R + 1, Len(d))
            OBVIOUS
        <3>6. Turn(s) = Taken(y, o \o w)
            BY <2>1, <2>3, <2>5, <3>2, <3>4, <3>5, TurnIs, ZenonT(40)
        <3>7. (del \o o) \o w = del \o (o \o w) /\ o \o w \in Seq(Seq(Signs))
            <4>1. del \in Seq(Seq(Signs)) /\ o \in Seq(Seq(Signs)) /\ w \in Seq(Seq(Signs))
                BY <1>2, <2>1, <2>3, <3>3, Zenon
            <4> QED BY <4>1, ConcatAssociative, ConcatProperties, SMTT(30)
        <3>8. /\ R \in Nat /\ R <= Len(d) /\ Q \in Nat /\ Q <= Len(d)
            BY <2>2, <3>4, Zenon DEF NatsAt
        <3>9. y \in Seq(Signs) /\ Len(y) = Len(d) - R
            BY <1>1, <3>5, <3>8, PartIs
        <3>10. Len(x) = Len(d) - Q
            <4>1. Len(SubSeq(d, Q + 1, Len(d))) = Len(d) - Q
                BY <1>1, <3>8, PartIs
            <4> QED BY <2>2, <2>3, <4>1, Zenon
        <3>11. Len(y) < Len(x)
            BY <1>1, <3>4, <3>8, <3>9, <3>10
        <3>12. Turn(s).rest = y /\ Turn(s).out = o \o w
            BY <3>6 DEF Taken
        <3>13. Turn(s) \in [rest : Seq(Signs), out : Seq(Seq(Signs))]
            BY <3>6, <3>7, <3>9 DEF Taken
        <3>14. Turn(s) \in G
            BY <3>4, <3>5, <3>7, <3>12, <3>13, Zenon DEF Going
        <3> QED BY <2>1, <2>3, <3>11, <3>12, <3>14, Zenon
    <2> QED BY <2>4, <2>5
<1> HIDE DEF G
<1>6. PICK c : c = Consume(b)
    OBVIOUS
<1>7. c \in G /\ ~Cut(c.rest).is
    BY <1>1, <1>3, <1>4, <1>5, <1>6, ConsumeWithin
<1>8. PICK k, Q : c.rest = SubSeq(d, Q + 1, Len(d)) /\ NatsAt(d, pos, n, del \o c.out, k, Q)
    BY <1>7, Zenon DEF G, Going
<1>9. c.rest \in Seq(Signs)
    BY <1>5, <1>7
<1>10. PICK w, x : w = del \o c.out /\ x = c.rest
    OBVIOUS
<1>11. \E i : NatsAt(d, pos, n, w, i, Q) /\ Stuck(n, i)
    <2>1. NatsAt(d, pos, n, w, k, Q) /\ x = SubSeq(d, Q + 1, Len(d))
        BY <1>8, <1>10, Zenon
    <2>2. IF Cut(x).is THEN Advances(d, pos, n, w, Q, x)
          ELSE \E i : NatsAt(d, pos, n, w, i, Q) /\ Stuck(n, i)
        BY <2>1, NatsTurns
    <2> QED BY <1>7, <1>10, <2>2, Zenon
<1> QED BY <1>6, <1>8, <1>9, <1>10, <1>11, Zenon

-----------------------------------------------------------------------------
(* The pipe.                                                                *)

\* A frame of the pipe.
Ended(f, s, p) ==
    /\ p \in Nat /\ p >= 2 /\ Len(f) = p + 1 /\ f[p + 1].is = "nul"
    /\ \A k \in 1..p : f[k] = s[k]
    /\ \A k \in 1..p : s[k].is \in {"{", "}", "narrow", "lead", "tail", "wide", "replaced"}

LEMMA PipeFrameIs ==
    ASSUME Streaming, reader = "pipe", NEW j \in Nat, j < Count
    PROVE  Ended(Frame(j + 1), Payload(j + 1), Len(Payload(j + 1)))
<1>1. j + 1 \in 1..Count
    BY StreamTyped
<1>2. PICK s, f, p : s = Payload(j + 1) /\ f = Frame(j + 1) /\ p = Len(s)
    OBVIOUS
<1>3. p = Len(s) /\ p \in Nat /\ p >= 2
      /\ \A k \in 1..p : s[k].is \in {"{", "}", "narrow", "lead", "tail", "wide", "replaced"}
    BY <1>1, <1>2, PayloadBytes DEF Bytes
<1>4. PipeFrame(f, s)
    BY <1>1, <1>2, FrameIs
<1>5. Len(f) = p + 1 /\ PipeShape(f, s)
    BY <1>3, <1>4 DEF PipeFrame
<1>6. f[p + 1].is = "nul" /\ \A k \in 1..p : f[k] = s[k]
    <2>1. PICK q : q = Len(f)
        OBVIOUS
    <2>2. p \in Nat /\ q = p + 1
        BY <1>3, <1>5, <2>1, Zenon
    <2>3. p + 1 <= q /\ \A k \in 1..p : k <= q
        BY <2>2
    <2> QED BY <1>3, <1>5, <2>1, <2>3, Zenon DEF PipeShape
<1> QED BY <1>2, <1>3, <1>5, <1>6, Zenon DEF Ended

\* The frame's message o is the a + 1-th to the z - 1-th of the characters d.
PipeSpans(d, j, a, z, o) ==
    /\ a \in Nat /\ z \in Nat /\ Len(d) \in Nat /\ d \in Seq(Signs) /\ a <= z - 1 /\ z <= Len(d)
    /\ o = SubSeq(d, a + 1, z - 1) /\ Object(o) /\ Alike(o, Text(j + 1)) /\ d[z].is = "nul"

LEMMA PipeBody ==
    ASSUME NEW d, NEW pos, NEW n, Reads(d, pos, n), reader = "pipe", NEW j \in Nat, j < Count,
           Len(Frames(j + 1)) <= n
    PROVE  \E o : PipeSpans(d, j, End(pos, j), End(pos, j + 1), o)
<1>1. Streaming /\ Reading(d, pos, Stream, n) /\ Count \in Nat
    BY StreamTyped DEF Reads
<1>2. j \in 0..Count /\ j + 1 \in 0..Count /\ j + 1 \in 1..Count /\ j + 1 \in j..Count
    BY <1>1
<1>3. PICK a, z, l, p, f, N : /\ a = End(pos, j) /\ z = End(pos, j + 1) /\ l = Len(Frames(j))
                              /\ p = Len(Payload(j + 1)) /\ f = Frame(j + 1) /\ N = Len(d)
    OBVIOUS
<1>4. Ended(f, Payload(j + 1), p)
    BY <1>1, <1>3, PipeFrameIs
<1>5. p \in Nat /\ p >= 2 /\ Len(f) = p + 1 /\ f[p + 1].is = "nul"
    BY <1>4, Zenon DEF Ended
<1>6. l \in Nat /\ n \in Nat /\ l + (p + 1) <= n /\ Len(Frames(j + 1)) = l + (p + 1)
    <2>1. l \in Nat /\ Len(Frames(j + 1)) = l + Len(f)
        BY <1>1, <1>3, StreamFrame
    <2>2. n \in Nat
        BY <1>1, ReadingSteps
    <2> QED BY <1>5, <2>1, <2>2
<1>7. l <= n /\ a \in Nat /\ z \in Nat /\ z <= N /\ N \in Nat /\ d \in Seq(Signs)
    <2>1. Len(Frames(j)) <= n
        BY <1>2, EndMonotone
    <2> QED BY <1>2, <1>3, <2>1, EndIs
<1>8. z = pos[l + p] + 1 /\ d[z].is = "nul"
    <2>1. p + 1 \in 1..Len(f) /\ l + (p + 1) <= n /\ f[p + 1].is \notin {"lead", "tail"}
        BY <1>5, <1>6
    <2>2. /\ pos[Len(Frames(j)) + (p + 1)] = pos[Len(Frames(j)) + (p + 1) - 1] + 1
          /\ d[pos[Len(Frames(j)) + (p + 1)]] = f[p + 1]
        BY <1>3, <2>1, FrameChar
    <2>3. l + (p + 1) - 1 = l + p
        BY <1>5, <1>6
    <2>4. z = pos[l + (p + 1)]
        BY <1>3, <1>6, Zenon DEF End
    <2> QED BY <1>3, <1>5, <2>2, <2>3, <2>4, Zenon
<1>9. pos[l + p] \in Nat /\ a = pos[l] /\ a <= pos[l + p] /\ l + p <= n
    <2>1. l \in 0..n /\ l + p \in l..n
        BY <1>5, <1>6
    <2>2. a = pos[l]
        BY <1>3, Zenon DEF End
    <2> QED BY <1>1, <2>1, <2>2, ReadingMonotone
<1>10. IsPart(Payload(j + 1), Stream, l, p)
    <2>1. Payload(j + 1) \in Seq(Signs)
        BY <1>1, <1>2, PayloadIs
    <2>2. ASSUME NEW k \in 1..p PROVE Payload(j + 1)[k] = Stream[l + k]
        <3>1. k \in 1..Len(f)
            BY <1>5
        <3>2. Stream[l + k] = f[k]
            BY <1>1, <1>3, <3>1, StreamFrame
        <3>3. f[k] = Payload(j + 1)[k]
            BY <1>4, Zenon DEF Ended
        <3> QED BY <3>2, <3>3
    <2> QED BY <1>3, <2>1, <2>2, Zenon DEF IsPart
<1>11. PICK o : /\ o = SubSeq(d, pos[l] + 1, pos[l + p])
                /\ IsBody(o, j + 1, p) /\ Len(o) = pos[l + p] - pos[l]
    <2>1. PICK m \in 1..Count : m = j + 1
        BY <1>2
    <2>2. IsPart(Payload(m), Stream, l, p) /\ l \in Nat /\ p \in Nat /\ l + p <= n
        BY <1>5, <1>6, <1>9, <1>10, <2>1
    <2>3. \E v : /\ v = SubSeq(d, pos[l] + 1, pos[l + p])
                 /\ IsBody(v, m, p) /\ Len(v) = pos[l + p] - pos[l]
        BY <2>2, BodyIs
    <2> QED BY <2>1, <2>3, Zenon
<1>12. pos[l + p] = z - 1 /\ a <= z - 1
    BY <1>7, <1>8, <1>9
<1>13. o = SubSeq(d, a + 1, z - 1) /\ Object(o) /\ Alike(o, Text(j + 1))
    BY <1>9, <1>11, <1>12, Zenon DEF IsBody
<1>14. PipeSpans(d, j, a, z, o)
    BY <1>3, <1>7, <1>8, <1>12, <1>13, Zenon DEF PipeSpans
<1> QED BY <1>3, <1>14, Zenon

\* A turn takes o off the buffer b, and leaves what follows the z-th of the characters d.
TakesOff(b, o, d, z) ==
    /\ Cut(b).is /\ Message(b, Cut(b)) = <<o>>
    /\ SubSeq(b, Cut(b).next, Len(b)) = SubSeq(d, z + 1, Len(d))

\* A whole frame is taken, whatever was cut in two.
LEMMA PipeTakes ==
    ASSUME NEW d, NEW j, NEW a, NEW z, NEW o, PipeSpans(d, j, a, z, o), reader = "pipe"
    PROVE  TakesOff(SubSeq(d, a + 1, Len(d)), o, d, z)
<1>0. PICK b : b = SubSeq(d, a + 1, Len(d))
    OBVIOUS
<1>1. PICK N, m, h : N = Len(d) /\ m = Len(o) /\ h = Len(b)
    OBVIOUS
<1>2. /\ a \in Nat /\ z \in Nat /\ N \in Nat /\ a <= z - 1 /\ z <= N /\ d \in Seq(Signs) /\ d[z].is = "nul"
      /\ o = SubSeq(d, a + 1, z - 1) /\ Object(o)
    BY <1>1, Zenon DEF PipeSpans
<1>3. m = z - 1 - a /\ o \in Seq(Signs) /\ \A k \in 1..m : o[k] = d[a + k]
    <2>1. z - 1 \in Nat /\ z - 1 <= Len(d)
        BY <1>1, <1>2
    <2>2. /\ SubSeq(d, a + 1, z - 1) \in Seq(Signs) /\ Len(SubSeq(d, a + 1, z - 1)) = z - 1 - a
          /\ \A k \in 1..(z - 1 - a) : SubSeq(d, a + 1, z - 1)[k] = d[a + k]
        BY <1>2, <2>1, PartIs
    <2> QED BY <1>1, <1>2, <2>2, Zenon
<1>4. b \in Seq(Signs) /\ h = N - a /\ \A k \in 1..h : b[k] = d[a + k]
    <2>1. a <= N /\ N <= Len(d)
        BY <1>1, <1>2
    <2>2. /\ SubSeq(d, a + 1, N) \in Seq(Signs) /\ Len(SubSeq(d, a + 1, N)) = N - a
          /\ \A k \in 1..(N - a) : SubSeq(d, a + 1, N)[k] = d[a + k]
        BY <1>2, <2>1, PartIs
    <2> QED BY <1>0, <1>1, <2>2, Zenon
<1>5. /\ m \in Nat /\ h \in Nat /\ m + 1 <= h /\ a + (m + 1) = z /\ m + 1 \in 1..h
      /\ \A k \in 1..m : k \in 1..h
    <2>1. m = z - 1 - a /\ h = N - a
        BY <1>3, <1>4
    <2> QED BY <1>2, <2>1
<1>6. PipeShape(b, o)
    <2>1. \A k \in 1..m : b[k] = o[k]
        BY <1>3, <1>4, <1>5, Zenon
    <2>2. b[m + 1].is = "nul"
        BY <1>2, <1>4, <1>5, Zenon
    <2> QED BY <1>1, <2>1, <2>2, Zenon DEF PipeShape
<1>7. Bytes(o)
    <2>1. /\ Len(o) \in Nat /\ Len(o) >= 2 /\ o[1].is = "{" /\ o[Len(o)].is = "}"
          /\ \A k \in 2..(Len(o) - 1) : o[k].is \in {"narrow", "wide", "replaced"}
        BY <1>2, Zenon DEF Object
    <2>2. ASSUME NEW k \in 1..Len(o)
          PROVE  o[k].is \in {"{", "}", "narrow", "lead", "tail", "wide", "replaced"}
        <3>1. PICK g : g = Len(o)
            OBVIOUS
        <3>2. g \in Nat /\ g >= 2 /\ k \in 1..g
            BY <2>1, <2>2, <3>1, Zenon
        <3>3. k = 1 \/ k = g \/ k \in 2..(g - 1)
            BY <3>2
        <3> QED BY <2>1, <3>1, <3>3
    <2> QED BY <1>3, <2>1, <2>2 DEF Bytes
<1>8. PipeCut(b) = CutAt(o, 1, m + 2)
    <2>1. Len(b) >= Len(o) + 1
        <3>1. h >= m + 1
            BY <1>5
        <3> QED BY <1>1, <3>1, Zenon
    <2>2. PipeCut(b) = CutAt(o, 1, Len(o) + 2)
        BY <1>4, <1>6, <1>7, <2>1, PipeCuts
    <2> QED BY <1>1, <2>2, Zenon
<1>9. Cut(b).is /\ Cut(b).from = 1 /\ Cut(b).to = m /\ Cut(b).next = m + 2
    <2>1. 1 + Len(o) - 1 = m
        BY <1>1, <1>5
    <2>2. Cut(b) = [is |-> TRUE, from |-> 1, to |-> m, next |-> m + 2]
        BY <1>8, <2>1, Zenon DEF CutAt, Cut
    <2> QED BY <2>2
<1>10. SubSeq(b, 1, m) = o
    <2>1. /\ 0 \in Nat /\ 0 <= m /\ a + m <= N /\ 0 + 1 = 1 /\ a + 0 + 1 = a + 1 /\ a + m = z - 1
          /\ a <= N /\ N <= Len(d)
        BY <1>1, <1>2, <1>5
    <2>2. SubSeq(SubSeq(d, a + 1, N), 0 + 1, m) = SubSeq(d, a + 0 + 1, a + m)
        BY <1>2, <1>5, <2>1, PartOfPart
    <2> QED BY <1>0, <1>1, <1>2, <2>1, <2>2, Zenon
<1>11. Message(b, Cut(b)) = <<o>>
    <2>1. reader # "native"
        OBVIOUS
    <2>2. Parsed(o) = <<o>>
        BY <1>2, ParsedObject
    <2> QED BY <1>9, <1>10, <2>1, <2>2, Zenon DEF Message
<1>12. SubSeq(b, m + 2, h) = SubSeq(d, z + 1, N)
    <2>1. /\ m + 1 \in Nat /\ m + 1 <= h /\ a + h <= N /\ (m + 1) + 1 = m + 2 /\ a + (m + 1) + 1 = z + 1
          /\ a + h = N /\ a <= N /\ N <= Len(d)
        BY <1>1, <1>2, <1>4, <1>5
    <2>2. SubSeq(SubSeq(d, a + 1, N), (m + 1) + 1, h) = SubSeq(d, a + (m + 1) + 1, a + h)
        BY <1>2, <1>5, <2>1, PartOfPart
    <2> QED BY <1>0, <1>1, <2>1, <2>2, Zenon
<1>13. TakesOff(b, o, d, z)
    BY <1>1, <1>9, <1>11, <1>12, Zenon DEF TakesOff
<1> QED BY <1>0, <1>13, Zenon

\* Nothing is, of a frame that has not arrived whole.
LEMMA PipeWaits ==
    ASSUME NEW d, NEW pos, NEW n, Reads(d, pos, n), reader = "pipe", NEW j, Whole(j, n)
    PROVE  ~Cut(SubSeq(d, End(pos, j) + 1, Len(d))).is
<1>1. Streaming /\ Reading(d, pos, Stream, n) /\ Count \in Nat
    BY StreamTyped DEF Reads
<1>2. j \in 0..Count /\ Len(Frames(j)) <= n /\ (j < Count => n < Len(Frames(j + 1)))
    BY Zenon DEF Whole
<1>3. PICK a, N, l : a = End(pos, j) /\ N = Len(d) /\ l = Len(Frames(j))
    OBVIOUS
<1>4. a \in Nat /\ a <= N /\ N \in Nat /\ d \in Seq(Signs) /\ l \in 0..n /\ n \in Nat
    BY <1>2, <1>3, EndIs
<1>5. PICK b, h : b = SubSeq(d, a + 1, N) /\ h = Len(b)
    OBVIOUS
<1>6. b \in Seq(Signs) /\ h = N - a /\ \A k \in 1..h : b[k] = d[a + k]
    <2>1. N <= Len(d)
        BY <1>3, <1>4
    <2>2. /\ SubSeq(d, a + 1, N) \in Seq(Signs) /\ Len(SubSeq(d, a + 1, N)) = N - a
          /\ \A k \in 1..(N - a) : SubSeq(d, a + 1, N)[k] = d[a + k]
        BY <1>4, <2>1, PartIs
    <2> QED BY <1>5, <2>2, Zenon
<1>7. ASSUME NEW x \in 1..N, a < x PROVE d[x].is # "nul"
    <2>1. PICK i \in 1..n : pos[i] = x /\ pos[i - 1] = x - 1 /\ IsChar(d[x], Stream[i])
        BY <1>1, <1>3, ReadingMeets, SMTT(30)
    <2>2. l < i
        <3>1. ASSUME i <= l PROVE FALSE
            <4>1. i \in 0..n /\ l \in i..n
                BY <1>4, <3>1
            <4>2. pos[i] <= pos[l] /\ pos[l] = a
                BY <1>1, <1>3, <4>1, ReadingMonotone DEF End
            <4> QED BY <1>4, <1>7, <2>1, <4>2
        <3> QED BY <1>4, <3>1
    <2>3. j < Count
        <3>1. ASSUME j = Count PROVE FALSE
            <4>1. n <= Len(Stream) /\ Len(Stream) \in Nat /\ l = Len(Stream)
                BY <1>1, <1>3, <3>1, ReadingSteps DEF Stream
            <4> QED BY <1>4, <2>2, <4>1
        <3> QED BY <1>1, <1>2, <3>1
    <2>4. j \in Nat
        BY <1>1, <1>2
    <2>5. PICK f, s, p : f = Frame(j + 1) /\ s = Payload(j + 1) /\ p = Len(Payload(j + 1))
        OBVIOUS
    <2>6. Ended(f, s, p)
        BY <1>1, <2>3, <2>4, <2>5, PipeFrameIs
    <2>7. p \in Nat /\ Len(f) = p + 1
        BY <2>6, Zenon DEF Ended
    <2>8. n < l + Len(f)
        BY <1>1, <1>2, <1>3, <2>3, <2>4, <2>5, StreamFrame
    <2>9. i - l \in 1..p /\ i - l \in 1..(p + 1) /\ l + (i - l) = i
        BY <1>4, <2>2, <2>7, <2>8
    <2>10. Stream[i] = f[i - l]
        <3>1. i - l \in 1..Len(f)
            BY <2>7, <2>9
        <3>2. Stream[l + (i - l)] = f[i - l]
            BY <1>1, <1>3, <2>3, <2>4, <2>5, <3>1, StreamFrame
        <3> QED BY <2>9, <3>2
    <2>11. Stream[i].is \in {"{", "}", "narrow", "lead", "tail", "wide", "replaced"}
        BY <2>6, <2>9, <2>10, Zenon DEF Ended
    <2>12. Stream[i].is # "nul"
        BY <2>11
    <2> QED BY <2>1, <2>12 DEF IsChar
<1>8. {k \in 1..Len(b) : b[k].is = "nul"} = {}
    <2>1. ASSUME NEW k \in 1..h PROVE b[k].is # "nul"
        <3>1. a + k \in 1..N /\ a < a + k
            BY <1>4, <1>6
        <3>2. d[a + k].is # "nul"
            BY <1>7, <3>1
        <3> QED BY <1>6, <3>2
    <2> QED BY <1>5, <2>1
<1>9. PipeCut(b) = NoCut
    <2>1. SelectInSeq(b, LAMBDA c : c.is = "nul") = 0
        BY <1>8, Zenon DEF SelectInSeq
    <2> QED BY <2>1, Zenon DEF PipeCut
<1>10. Cut(b) = NoCut
    BY <1>9 DEF Cut
<1>11. ~NoCut.is
    BY DEF NoCut
<1> QED BY <1>3, <1>5, <1>10, <1>11, Zenon

\* The first j messages were delivered, but for characters that were cut.
PipeAt(n, del, j) ==
    /\ j \in 0..Count /\ Len(Frames(j)) <= n /\ del \in Seq(Seq(Signs)) /\ Len(del) = j
    /\ \A i \in 1..j : Alike(del[i], Text(i))

LEMMA PipeMore ==
    ASSUME NEW d, NEW a, NEW z, NEW o, NEW n, NEW del, NEW j, PipeAt(n, del, j), PipeSpans(d, j, a, z, o),
           Streaming, j < Count, Len(Frames(j + 1)) <= n
    PROVE  PipeAt(n, del \o <<o>>, j + 1)
<1>1. /\ j \in 0..Count /\ del \in Seq(Seq(Signs)) /\ Len(del) = j
      /\ \A i \in 1..j : Alike(del[i], Text(i))
    BY Zenon DEF PipeAt
<1>2. o \in Seq(Signs) /\ Alike(o, Text(j + 1))
    BY Zenon DEF PipeSpans, Object
<1>3. PICK w : w = del \o <<o>>
    OBVIOUS
<1>4. /\ w \in Seq(Seq(Signs)) /\ Len(w) = j + 1 /\ w[j + 1] = o
      /\ \A i \in 1..j : w[i] = del[i]
    BY <1>1, <1>2, <1>3, Followed
<1>5. j + 1 \in 0..Count /\ \A i \in 1..(j + 1) : i \in 1..j \/ i = j + 1
    BY <1>1, StreamTyped
<1>6. \A i \in 1..(j + 1) : Alike(w[i], Text(i))
    BY <1>1, <1>2, <1>4, <1>5, Zenon
<1> QED BY <1>3, <1>4, <1>5, <1>6, Zenon DEF PipeAt

\* What the loop may have come to.
Passing(d, pos, n, del) ==
    {s \in [rest : Seq(Signs), out : Seq(Seq(Signs))] :
        \E k : s.rest = SubSeq(d, End(pos, k) + 1, Len(d)) /\ PipeAt(n, del \o s.out, k)}

LEMMA PipeConsumes ==
    ASSUME NEW d, NEW pos, NEW n, Reads(d, pos, n), reader = "pipe", NEW del, NEW j, PipeAt(n, del, j),
           NEW b, b = SubSeq(d, End(pos, j) + 1, Len(d))
    PROVE  LET c == Consume(b)
           IN  \E k : /\ c.rest = SubSeq(d, End(pos, k) + 1, Len(d)) /\ c.rest \in Seq(Signs)
                      /\ PipeAt(n, del \o c.out, k) /\ Whole(k, n)
<1> DEFINE G == Passing(d, pos, n, del)
<1>1. Streaming /\ d \in Seq(Signs) /\ Len(d) \in Nat /\ Count \in Nat /\ n \in Nat
    BY ReadingSteps, StreamTyped DEF Reads
<1>2. del \in Seq(Seq(Signs)) /\ j \in 0..Count /\ Len(Frames(j)) <= n
    BY Zenon DEF PipeAt
<1>3. b \in Seq(Signs) /\ Len(b) \in Nat
    <2>1. End(pos, j) \in Nat /\ End(pos, j) <= Len(d)
        BY <1>2, EndIs
    <2>2. SubSeq(d, End(pos, j) + 1, Len(d)) \in Seq(Signs)
        BY <1>1, <2>1, PartIs
    <2> QED BY <2>2, LenProperties
<1>4. Taken(b, <<>>) \in G
    <2>1. Taken(b, <<>>) \in [rest : Seq(Signs), out : Seq(Seq(Signs))]
        BY <1>3 DEF Taken
    <2>2. Taken(b, <<>>).rest = b /\ Taken(b, <<>>).out = <<>>
        BY DEF Taken
    <2>3. del \o <<>> = del
        BY <1>2
    <2> QED BY <2>1, <2>2, <2>3, Zenon DEF Passing
<1>5. ASSUME NEW s \in G
      PROVE  /\ Turn(s) \in G /\ s.rest \in Seq(Signs)
             /\ Cut(s.rest).is => Len(Turn(s).rest) < Len(s.rest)
             /\ ~Cut(s.rest).is =>
                  \E k : /\ s.rest = SubSeq(d, End(pos, k) + 1, Len(d))
                         /\ PipeAt(n, del \o s.out, k) /\ Whole(k, n)
    <2>1. s.rest \in Seq(Signs) /\ s.out \in Seq(Seq(Signs)) /\ s = Taken(s.rest, s.out)
        BY DEF Passing, Taken
    <2>2. PICK k : s.rest = SubSeq(d, End(pos, k) + 1, Len(d)) /\ PipeAt(n, del \o s.out, k)
        BY Zenon DEF Passing
    <2>3. PICK x, o : x = s.rest /\ o = s.out
        OBVIOUS
    <2>4. k \in 0..Count /\ Len(Frames(k)) <= n
        BY <2>2, Zenon DEF PipeAt
    <2>5. CASE Whole(k, n)
        <3>1. ~Cut(x).is
            BY <2>2, <2>3, <2>5, PipeWaits
        <3>2. Turn(s) = s
            BY <2>3, <3>1, Zenon DEF Turn
        <3> QED BY <2>1, <2>2, <2>3, <2>5, <3>1, <3>2, Zenon
    <2>6. CASE ~Whole(k, n)
        <3>1. k \in Nat /\ k < Count /\ Len(Frames(k + 1)) <= n
            <4>1. k < Count /\ ~(n < Len(Frames(k + 1)))
                BY <2>4, <2>6 DEF Whole
            <4>2. k \in Nat /\ k + 1 \in 0..Count
                BY <1>1, <2>4, <4>1
            <4>3. Len(Frames(k + 1)) \in Nat
                BY <1>1, <4>2, FramesTyped
            <4> QED BY <1>1, <4>1, <4>2, <4>3
        <3>2. PICK a, z : a = End(pos, k) /\ z = End(pos, k + 1)
            OBVIOUS
        <3>3. PICK t : PipeSpans(d, k, a, z, t)
            BY <3>1, <3>2, PipeBody
        <3>4. x = SubSeq(d, a + 1, Len(d))
            BY <2>2, <2>3, <3>2, Zenon
        <3>5. /\ Cut(x).is /\ Message(x, Cut(x)) = <<t>>
              /\ SubSeq(x, Cut(x).next, Len(x)) = SubSeq(d, z + 1, Len(d))
            <4>1. TakesOff(SubSeq(d, a + 1, Len(d)), t, d, z)
                BY <3>3, PipeTakes
            <4> QED BY <3>4, <4>1, Zenon DEF TakesOff
        <3>6. PICK y : y = SubSeq(d, z + 1, Len(d))
            OBVIOUS
        <3>7. Turn(s) = Taken(y, o \o <<t>>)
            BY <2>1, <2>3, <3>5, <3>6, TurnIs, Zenon
        <3>8. PipeAt(n, (del \o o) \o <<t>>, k + 1)
            BY <1>1, <2>2, <2>3, <3>1, <3>3, PipeMore
        <3>9. (del \o o) \o <<t>> = del \o (o \o <<t>>) /\ o \o <<t>> \in Seq(Seq(Signs))
            <4>1. t \in Seq(Signs)
                BY <3>3, Zenon DEF PipeSpans, Object
            <4>2. del \in Seq(Seq(Signs)) /\ o \in Seq(Seq(Signs)) /\ <<t>> \in Seq(Seq(Signs))
                BY <1>2, <2>1, <2>3, <4>1
            <4> QED BY <4>2, ConcatAssociative, ConcatProperties, SMTT(30)
        <3>10. a \in Nat /\ z \in Nat /\ a <= z - 1 /\ z <= Len(d)
            BY <3>3, Zenon DEF PipeSpans
        <3>11. y \in Seq(Signs) /\ Len(y) = Len(d) - z
            BY <1>1, <3>6, <3>10, PartIs
        <3>12. Len(x) = Len(d) - a
            <4>1. a <= Len(d)
                BY <1>1, <3>10
            <4>2. Len(SubSeq(d, a + 1, Len(d))) = Len(d) - a
                BY <1>1, <3>10, <4>1, PartIs
            <4> QED BY <3>4, <4>2, Zenon
        <3>13. Len(y) < Len(x)
            BY <1>1, <3>10, <3>11, <3>12
        <3>14. Turn(s).rest = y /\ Turn(s).out = o \o <<t>>
            BY <3>7 DEF Taken
        <3>15. Turn(s) \in [rest : Seq(Signs), out : Seq(Seq(Signs))]
            BY <3>7, <3>9, <3>11 DEF Taken
        <3>16. y = SubSeq(d, End(pos, k + 1) + 1, Len(d))
            BY <3>2, <3>6, Zenon
        <3>17. Turn(s) \in G
            BY <3>8, <3>9, <3>14, <3>15, <3>16, Zenon DEF Passing
        <3> QED BY <2>1, <2>3, <3>5, <3>13, <3>14, <3>17, Zenon
    <2> QED BY <2>5, <2>6
<1> HIDE DEF G
<1>6. PICK c : c = Consume(b)
    OBVIOUS
<1>7. c \in G /\ ~Cut(c.rest).is
    BY <1>1, <1>3, <1>4, <1>5, <1>6, ConsumeWithin
<1> QED BY <1>5, <1>6, <1>7, Zenon

-----------------------------------------------------------------------------
(* Chunks that cut characters.                                              *)

LEMMA RestOn ==
    ASSUME NEW S, NEW d \in Seq(S), NEW e \in Seq(S), NEW P \in Nat, P <= Len(d)
    PROVE  SubSeq(d, P + 1, Len(d)) \o e = SubSeq(d \o e, P + 1, Len(d \o e))
<1>1. PICK D, m, h : D = d \o e /\ m = Len(d) /\ h = Len(e)
    OBVIOUS
<1>2. /\ m \in Nat /\ h \in Nat /\ D \in Seq(S) /\ Len(D) = m + h
      /\ \A i \in 1..(m + h) : D[i] = IF i <= m THEN d[i] ELSE e[i - m]
    BY <1>1, ConcatProperties, LenProperties
<1>3. P <= m
    BY <1>1
<1>4. PICK u : u = SubSeq(d, P + 1, m)
    OBVIOUS
<1>5. u \in Seq(S) /\ Len(u) = m - P /\ \A j \in 1..(m - P) : u[j] = d[P + j]
    <2>1. m <= Len(d)
        BY <1>1, <1>2
    <2>2. /\ SubSeq(d, P + 1, m) \in Seq(S) /\ Len(SubSeq(d, P + 1, m)) = m - P
          /\ \A j \in 1..(m - P) : SubSeq(d, P + 1, m)[j] = d[P + j]
        BY <1>2, <1>3, <2>1, PartIs
    <2> QED BY <1>4, <2>2, Zenon
<1>6. PICK v : v = SubSeq(D, P + 1, m + h)
    OBVIOUS
<1>7. v \in Seq(S) /\ Len(v) = m + h - P /\ \A j \in 1..(m + h - P) : v[j] = D[P + j]
    <2>1. PICK M \in Nat : M = m + h
        BY <1>2
    <2>2. M <= Len(D) /\ P <= M
        BY <1>2, <1>3, <2>1
    <2>3. /\ SubSeq(D, P + 1, M) \in Seq(S) /\ Len(SubSeq(D, P + 1, M)) = M - P
          /\ \A j \in 1..(M - P) : SubSeq(D, P + 1, M)[j] = D[P + j]
        BY <1>2, <2>2, PartIs
    <2>4. v = SubSeq(D, P + 1, M)
        BY <1>6, <2>1, Zenon
    <2>5. v \in Seq(S) /\ Len(v) = M - P /\ \A j \in 1..(M - P) : v[j] = D[P + j]
        BY <2>3, <2>4, Zenon
    <2>6. M - P = m + h - P
        <3>1. m \in Nat /\ h \in Nat
            BY <1>2, Zenon
        <3> QED BY <2>1, <3>1
    <2> QED BY <2>5, <2>6, Zenon
<1>8. PICK w, x : w = u \o e /\ x = m - P
    OBVIOUS
<1>9. /\ w \in Seq(S) /\ Len(w) = x + h
      /\ \A i \in 1..(x + h) : w[i] = IF i <= x THEN u[i] ELSE e[i - x]
    <2>1. Len(u) = x /\ Len(e) = h
        BY <1>1, <1>5, <1>8, Zenon
    <2>2. /\ u \o e \in Seq(S) /\ Len(u \o e) = Len(u) + Len(e)
          /\ \A i \in 1..(Len(u) + Len(e)) : (u \o e)[i] = IF i <= Len(u) THEN u[i] ELSE e[i - Len(u)]
        BY <1>5, ConcatProperties
    <2> QED BY <1>8, <2>1, <2>2, Zenon
<1>10. x \in Nat /\ x + h = m + h - P /\ x = m - P
    BY <1>2, <1>3, <1>8
<1>11. ASSUME NEW i \in 1..(x + h) PROVE w[i] = v[i]
    <2>1. v[i] = D[P + i]
        BY <1>7, <1>10
    <2>2. P + i \in 1..(m + h) /\ (P + i) - m = i - x /\ (i <= x <=> P + i <= m)
        BY <1>2, <1>3, <1>10
    <2>3. CASE i <= x
        <3>1. i \in 1..(m - P)
            BY <1>10, <2>3
        <3>2. w[i] = d[P + i]
            BY <1>5, <1>9, <2>3, <3>1, Zenon
        <3> QED BY <1>2, <2>1, <2>2, <2>3, <3>2, Zenon
    <2>4. CASE ~(i <= x)
        <3>1. w[i] = e[i - x]
            BY <1>9, <2>4, Zenon
        <3> QED BY <1>2, <2>1, <2>2, <2>4, <3>1, Zenon
    <2> QED BY <2>3, <2>4
<1>12. Len(v) = x + h
    BY <1>7, <1>10
<1>13. w = v
    BY <1>7, <1>9, <1>11, <1>12, SeqEqual
<1> QED BY <1>1, <1>2, <1>4, <1>6, <1>8, <1>13, Zenon

LEMMA WholeStuck ==
    ASSUME Streaming, NEW j, NEW n \in Nat, Whole(j, n)
    PROVE  Stuck(n, j)
<1>1. j \in 0..Count /\ Count \in Nat /\ (j < Count => n < Len(Frames(j + 1)))
    BY StreamTyped DEF Whole
<1>2. ASSUME NEW i \in (j + 1)..Count PROVE n < Len(Frames(i))
    <2>1. j < Count /\ j + 1 \in 0..Count /\ i \in 0..Count
        BY <1>1
    <2>2. Len(Frames(j + 1)) <= Len(Frames(i)) /\ Len(Frames(j + 1)) \in Nat /\ Len(Frames(i)) \in Nat
        BY <2>1, FramesPrefix, FramesTyped
    <2> QED BY <1>1, <2>1, <2>2
<1> QED BY <1>2 DEF Stuck

\* A reader that has read a bytes: its buffer is the end of what they were decoded to, at
\* which there is nothing to take off.
Fits(buf, del, a) ==
    \E d, pos :
        /\ Reads(d, pos, a) /\ buf \in Seq(Signs) /\ del \in Seq(Seq(Signs))
        /\ \/ reader = "pipe" /\ \E k : /\ buf = SubSeq(d, End(pos, k) + 1, Len(d))
                                        /\ PipeAt(a, del, k) /\ Whole(k, a)
           \/ Nats /\ \E k, P : /\ buf = SubSeq(d, P + 1, Len(d))
                                /\ NatsAt(d, pos, a, del, k, P) /\ Stuck(a, k)

LEMMA FitsFirst ==
    ASSUME Streaming, reader # "native"
    PROVE  Fits(<<>>, <<>>, 0)
<1>1. Count \in Nat /\ Stream \in Seq(Signs) /\ 0 \in 0..Count /\ 1..0 = {}
    BY StreamTyped
<1>2. PICK pos : pos = [i \in 0..0 |-> 0]
    OBVIOUS
<1>3. Reads(<<>>, pos, 0)
    BY <1>1, <1>2, ReadingNone DEF Reads
<1>4. Len(Frames(0)) = 0
    BY FramesNone
<1>5. pos[0] = 0
    BY <1>2
<1>6. End(pos, 0) = 0
    BY <1>4, <1>5, Zenon DEF End
<1>7. Whole(0, 0)
    BY <1>1, <1>4, WholeAll
<1>8. Len(<<>>) = 0 /\ SubSeq(<<>>, 0 + 1, 0) = <<>> /\ <<>> \in Seq(Signs) /\ <<>> \in Seq(Seq(Signs))
    BY SubSeqEmpty
<1>9. CASE reader = "pipe"
    <2>1. PipeAt(0, <<>>, 0)
        BY <1>1, <1>4, <1>8 DEF PipeAt
    <2>2. <<>> = SubSeq(<<>>, End(pos, 0) + 1, Len(<<>>))
        BY <1>6, <1>8, Zenon
    <2> QED BY <1>3, <1>7, <1>8, <1>9, <2>1, <2>2, Zenon DEF Fits
<1>10. CASE Nats
    <2>1. ASSUME NEW i \in (0 + 1)..Count PROVE Ahead(pos, 0, 0, i)
        <3>1. CASE i = 0 + 1
            BY <1>6, <3>1, Zenon DEF Ahead
        <3>2. CASE i # 0 + 1
            <4>1. 0 \in 0..Count /\ Len(Frames(0)) <= 0 /\ 0 \in Nat /\ 0 <= End(pos, 0) + 4
                BY <1>1, <1>4, <1>6
            <4> QED BY <1>3, <1>10, <3>2, <4>1, AheadNear
        <3> QED BY <3>1, <3>2
    <2>2. 0 <= 0 /\ 0 \in Nat
        OBVIOUS
    <2>3. NatsAt(<<>>, pos, 0, <<>>, 0, 0)
        BY <1>1, <1>4, <1>6, <1>8, <2>1, <2>2, InOrderNone DEF NatsAt
    <2>4. Stuck(0, 0)
        BY <1>7, <2>2, WholeStuck
    <2> QED BY <1>3, <1>8, <1>10, <2>3, <2>4, Zenon DEF Fits
<1> QED BY <1>9, <1>10, FramingAssumption DEF Streaming, Nats

\* The characters before a chunk do not move.
LEMMA EndKept ==
    ASSUME NEW d, NEW pos, NEW a, Reads(d, pos, a), NEW q, \A i \in 0..a : q[i] = pos[i],
           NEW k \in 0..Count, Len(Frames(k)) <= a
    PROVE  End(q, k) = End(pos, k)
<1>1. Len(Frames(k)) \in 0..a
    BY EndIs
<1> QED BY <1>1 DEF End

LEMMA NatsKept ==
    ASSUME NEW d, NEW pos, NEW a, Reads(d, pos, a), NEW q, \A i \in 0..a : q[i] = pos[i],
           NEW del, NEW k, NEW P, NatsAt(d, pos, a, del, k, P),
           NEW D, Len(D) \in Nat, Len(d) <= Len(D), NEW n \in Nat, a <= n
    PROVE  NatsAt(D, q, n, del, k, P)
<1>1. /\ k \in 0..Count /\ Len(Frames(k)) <= a /\ P \in Nat /\ End(pos, k) <= P /\ P <= Len(d)
      /\ InOrder(del, k)
      /\ \A i \in 1..k : Spared(i) => Text(i) \in ToSet(del)
    BY Zenon DEF NatsAt
<1>2. \A i \in (k + 1)..Count : Spared(i) => Ahead(pos, k, P, i)
    BY Zenon DEF NatsAt
<1>3. End(q, k) = End(pos, k)
    BY <1>1, EndKept
<1>4. \A i \in (k + 1)..Count : Spared(i) => Ahead(q, k, P, i)
    BY <1>2, <1>3, Zenon DEF Ahead
<1>5. Len(Frames(k)) <= n /\ P <= Len(D)
    <2>1. Len(Frames(k)) \in Nat /\ a \in Nat /\ Len(d) \in Nat
        BY <1>1, EndIs
    <2> QED BY <1>1, <2>1
<1> QED BY <1>1, <1>3, <1>4, <1>5, Zenon DEF NatsAt

\* The next chunk leaves the reader so.
LEMMA FitsNext ==
    ASSUME Streaming, reader # "native", NEW a \in 0..Len(Stream), NEW n \in a..Len(Stream), NEW buf, NEW del,
           Fits(buf, del, a)
    PROVE  LET c == Consume(buf \o Decode(SubSeq(Stream, a + 1, n)))
           IN  Fits(c.rest, del \o c.out, n)
<1>1. Stream \in Seq(Signs) /\ a \in Nat /\ n \in Nat /\ a <= n /\ n <= Len(Stream) /\ Len(Stream) \in Nat
    BY StreamTyped
<1>2. PICK d, pos :
        /\ Reads(d, pos, a) /\ buf \in Seq(Signs) /\ del \in Seq(Seq(Signs))
        /\ \/ reader = "pipe" /\ \E k : /\ buf = SubSeq(d, End(pos, k) + 1, Len(d))
                                        /\ PipeAt(a, del, k) /\ Whole(k, a)
           \/ Nats /\ \E k, P : /\ buf = SubSeq(d, P + 1, Len(d))
                                /\ NatsAt(d, pos, a, del, k, P) /\ Stuck(a, k)
    BY Zenon DEF Fits
<1>3. PICK s, m : s = SubSeq(Stream, a + 1, n) /\ m = n - a
    OBVIOUS
<1>4. m \in Nat /\ a + m = n /\ IsPart(s, Stream, a, m) /\ s \in Seq(Signs) /\ Len(s) = m
    <2>1. m \in Nat /\ a + m = n
        BY <1>1, <1>3
    <2>2. s \in Seq(Signs) /\ Len(s) = m /\ \A k \in 1..m : s[k] = Stream[a + k]
        BY <1>1, <1>3, PartIs
    <2> QED BY <2>1, <2>2, Zenon DEF IsPart
<1>5. PICK e, nxt : e = Decode(s) /\ Reading(e, nxt, s, m)
    <2>1. \E w : Reading(Decode(s), w, s, Len(s))
        BY <1>4, DecodeReads
    <2> QED BY <1>4, <2>1, Zenon
<1>6. Reading(d, pos, Stream, a)
    BY <1>2 DEF Reads
<1>7. PICK q : Reading(d \o e, q, Stream, a + m) /\ \A i \in 0..a : q[i] = pos[i]
    BY <1>1, <1>4, <1>5, <1>6, ReadingJoined
<1>8. PICK D : D = d \o e
    OBVIOUS
<1>9. Reads(D, q, n)
    BY <1>4, <1>7, <1>8, Zenon DEF Reads
<1>10. d \in Seq(Signs) /\ e \in Seq(Signs) /\ Len(d) \in Nat /\ Len(D) \in Nat /\ Len(d) <= Len(D)
    <2>1. d \in Seq(Signs) /\ e \in Seq(Signs) /\ Len(d) \in Nat /\ Len(e) \in Nat
        BY <1>5, <1>6, ReadingSteps
    <2>2. Len(d \o e) = Len(d) + Len(e)
        BY <2>1
    <2> QED BY <1>8, <2>1, <2>2
<1>11. PICK b, c : b = buf \o e /\ c = Consume(b)
    OBVIOUS
<1>12. c.out \in Seq(Seq(Signs)) => del \o c.out \in Seq(Seq(Signs))
    BY <1>2, ConcatProperties
<1>13. ASSUME reader = "pipe", NEW k, buf = SubSeq(d, End(pos, k) + 1, Len(d)), PipeAt(a, del, k), Whole(k, a)
       PROVE  Fits(c.rest, del \o c.out, n)
    <2>1. k \in 0..Count /\ Len(Frames(k)) <= a
        BY <1>13, Zenon DEF PipeAt
    <2>2. Len(Frames(k)) \in Nat /\ End(pos, k) \in Nat /\ End(pos, k) <= Len(d) /\ End(q, k) = End(pos, k)
        <3>1. Len(Frames(k)) \in Nat /\ End(pos, k) \in Nat /\ End(pos, k) <= Len(d)
            BY <1>2, <2>1, EndIs
        <3>2. End(q, k) = End(pos, k)
            BY <1>2, <1>7, <2>1, EndKept, SMTT(30)
        <3> QED BY <3>1, <3>2
    <2>3. PipeAt(n, del, k)
        <3>1. Len(Frames(k)) <= n
            BY <1>1, <2>1, <2>2
        <3> QED BY <1>13, <3>1, Zenon DEF PipeAt
    <2>4. b = SubSeq(D, End(q, k) + 1, Len(D))
        <3>1. SubSeq(d, End(pos, k) + 1, Len(d)) \o e = SubSeq(d \o e, End(pos, k) + 1, Len(d \o e))
            BY <1>10, <2>2, RestOn
        <3> QED BY <1>8, <1>11, <1>13, <2>2, <3>1, Zenon
    <2>5. \E h : /\ Consume(b).rest = SubSeq(D, End(q, h) + 1, Len(D)) /\ Consume(b).rest \in Seq(Signs)
                 /\ PipeAt(n, del \o Consume(b).out, h) /\ Whole(h, n)
        BY <1>9, <1>13, <2>3, <2>4, PipeConsumes
    <2>6. PICK h : /\ c.rest = SubSeq(D, End(q, h) + 1, Len(D)) /\ c.rest \in Seq(Signs)
                   /\ PipeAt(n, del \o c.out, h) /\ Whole(h, n)
        BY <1>11, <2>5, Zenon
    <2>7. del \o c.out \in Seq(Seq(Signs))
        BY <2>6, Zenon DEF PipeAt
    <2> QED BY <1>9, <1>13, <2>6, <2>7, Zenon DEF Fits
<1>14. ASSUME Nats, NEW k, NEW P, buf = SubSeq(d, P + 1, Len(d)), NatsAt(d, pos, a, del, k, P)
       PROVE  Fits(c.rest, del \o c.out, n)
    <2>1. P \in Nat /\ P <= Len(d)
        BY <1>14, Zenon DEF NatsAt
    <2>2. NatsAt(D, q, n, del, k, P)
        BY <1>1, <1>2, <1>7, <1>10, <1>14, NatsKept
    <2>3. b = SubSeq(D, P + 1, Len(D))
        <3>1. SubSeq(d, P + 1, Len(d)) \o e = SubSeq(d \o e, P + 1, Len(d \o e))
            BY <1>10, <2>1, RestOn
        <3> QED BY <1>8, <1>11, <1>14, <3>1, Zenon
    <2>4. \E h, Q : /\ Consume(b).rest = SubSeq(D, Q + 1, Len(D)) /\ Consume(b).rest \in Seq(Signs)
                    /\ NatsAt(D, q, n, del \o Consume(b).out, h, Q) /\ Stuck(n, h)
        BY <1>9, <1>14, <2>2, <2>3, NatsConsumes
    <2>5. PICK h, Q : /\ c.rest = SubSeq(D, Q + 1, Len(D)) /\ c.rest \in Seq(Signs)
                      /\ NatsAt(D, q, n, del \o c.out, h, Q) /\ Stuck(n, h)
        BY <1>11, <2>4, Zenon
    <2>6. del \o c.out \in Seq(Seq(Signs))
        BY <2>5, Zenon DEF NatsAt, InOrder
    <2> QED BY <1>9, <1>14, <2>5, <2>6, Zenon DEF Fits
<1>15. Fits(c.rest, del \o c.out, n)
    BY <1>2, <1>13, <1>14, Zenon
<1>16. c = Consume(buf \o Decode(SubSeq(Stream, a + 1, n)))
    BY <1>3, <1>5, <1>11, Zenon
<1> QED BY <1>15, <1>16, Zenon

-----------------------------------------------------------------------------
(* The invariant of readers that cut characters.                            *)

LEMMA FrozenWide ==
    ASSUME reader' = reader, sent' = sent
    PROVE  /\ \A d, pos, n : Reads(d, pos, n)' <=> Reads(d, pos, n)
           /\ \A pos, k : End(pos, k)' = End(pos, k)
           /\ \A i : Spared(i)' <=> Spared(i)
           /\ \A n, del, k : PipeAt(n, del, k)' <=> PipeAt(n, del, k)
           /\ \A d, pos, n, del, k, P : NatsAt(d, pos, n, del, k, P)' <=> NatsAt(d, pos, n, del, k, P)
           /\ \A n, k : Stuck(n, k)' <=> Stuck(n, k)
           /\ Nats' <=> Nats
<1>1. /\ \A k : Frames(k)' = Frames(k)
      /\ \A i : Text(i)' = Text(i)
      /\ Stream' = Stream /\ (Streaming' <=> Streaming)
    BY Frozen
<1>2. ASSUME NEW i PROVE Payload(i)' = Payload(i)
    BY DEF Payload, Inner
<1>3. ASSUME NEW d, NEW pos, NEW n PROVE Reads(d, pos, n)' <=> Reads(d, pos, n)
    BY <1>1 DEF Reads
<1>4. ASSUME NEW pos, NEW k PROVE End(pos, k)' = End(pos, k)
    BY <1>1 DEF End
<1>5. ASSUME NEW i PROVE Spared(i)' <=> Spared(i)
    BY <1>1, <1>2 DEF Spared
<1>6. ASSUME NEW n, NEW del, NEW k PROVE PipeAt(n, del, k)' <=> PipeAt(n, del, k)
    BY <1>1 DEF PipeAt
<1>7. ASSUME NEW pos, NEW k, NEW P, NEW i PROVE Ahead(pos, k, P, i)' <=> Ahead(pos, k, P, i)
    <2>1. \A m : Fewest(m)' = Fewest(m)
        BY <1>1 DEF Fewest
    <2> QED BY <1>4, <2>1 DEF Ahead
<1>8. ASSUME NEW del, NEW k PROVE InOrder(del, k)' <=> InOrder(del, k)
    BY <1>1 DEF InOrder
<1>9. ASSUME NEW d, NEW pos, NEW n, NEW del, NEW k, NEW P
      PROVE  NatsAt(d, pos, n, del, k, P)' <=> NatsAt(d, pos, n, del, k, P)
    BY <1>1, <1>4, <1>5, <1>7, <1>8, Zenon DEF NatsAt
<1>10. ASSUME NEW n, NEW k PROVE Stuck(n, k)' <=> Stuck(n, k)
    BY <1>1, <1>5, Zenon DEF Stuck
<1>11. Nats' <=> Nats
    BY DEF Nats
<1> QED BY <1>3, <1>4, <1>5, <1>6, <1>9, <1>10, <1>11, Zenon

LEMMA FrozenFits ==
    ASSUME reader' = reader, sent' = sent, NEW buf, NEW del, NEW a, Fits(buf, del, a)
    PROVE  Fits(buf, del, a)'
<1>1. PICK d, pos :
        /\ Reads(d, pos, a) /\ buf \in Seq(Signs) /\ del \in Seq(Seq(Signs))
        /\ \/ reader = "pipe" /\ \E k : /\ buf = SubSeq(d, End(pos, k) + 1, Len(d))
                                        /\ PipeAt(a, del, k) /\ Whole(k, a)
           \/ Nats /\ \E k, P : /\ buf = SubSeq(d, P + 1, Len(d))
                                /\ NatsAt(d, pos, a, del, k, P) /\ Stuck(a, k)
    BY Zenon DEF Fits
<1>2. \A k : Whole(k, a)' <=> Whole(k, a)
    BY FrozenToo
<1>3. Reads(d, pos, a)'
    BY <1>1, FrozenWide
<1>4. CASE reader = "pipe" /\ \E k : /\ buf = SubSeq(d, End(pos, k) + 1, Len(d))
                                     /\ PipeAt(a, del, k) /\ Whole(k, a)
    <2>1. PICK k : buf = SubSeq(d, End(pos, k) + 1, Len(d)) /\ PipeAt(a, del, k) /\ Whole(k, a)
        BY <1>4
    <2>2. buf = SubSeq(d, End(pos, k)' + 1, Len(d)) /\ PipeAt(a, del, k)' /\ Whole(k, a)'
        BY <1>2, <2>1, FrozenWide, Zenon
    <2> QED BY <1>1, <1>3, <1>4, <2>2, Zenon DEF Fits
<1>5. CASE Nats /\ \E k, P : /\ buf = SubSeq(d, P + 1, Len(d))
                             /\ NatsAt(d, pos, a, del, k, P) /\ Stuck(a, k)
    <2>1. PICK k, P : buf = SubSeq(d, P + 1, Len(d)) /\ NatsAt(d, pos, a, del, k, P) /\ Stuck(a, k)
        BY <1>5
    <2>2. NatsAt(d, pos, a, del, k, P)' /\ Stuck(a, k)' /\ Nats'
        BY <1>5, <2>1, FrozenWide, Zenon
    <2> QED BY <1>1, <1>3, <2>1, <2>2, Zenon DEF Fits
<1> QED BY <1>1, <1>4, <1>5

DecodedRead(buf, a, n) == [held |-> buf, chunk |-> Decode(SubSeq(Stream, a + 1, n))]

FitsOf(rds, buf, del, n) ==
    \/ rds = <<>> /\ Fits(buf, del, n)
    \/ \E a \in 0..n : rds = <<DecodedRead(buf, a, n)>> /\ Fits(buf, del, a)

\* As long as no frame arrives while another is being read, a reader that decodes first
\* holds the end of what it has decoded.
FitsInv == reader # "native" /\ apart => FitsOf(reads, buffer, delivered, arrived)

WideInv == FramingTypes /\ FitsInv

LEMMA InitWide == FramingInit => WideInv
<1> SUFFICES ASSUME FramingInit PROVE WideInv
    OBVIOUS
<1>1. FramingTypes
    BY InitNarrow DEF NarrowInv
<1>2. arrived = 0 /\ buffer = <<>> /\ reads = <<>> /\ delivered = <<>>
    BY DEF FramingInit
<1>3. ASSUME reader # "native" PROVE Fits(<<>>, <<>>, 0)
    BY <1>1, <1>3, FitsFirst DEF FramingTypes
<1>4. FitsInv
    BY <1>2, <1>3, Zenon DEF FitsInv, FitsOf
<1> QED BY <1>1, <1>4 DEF WideInv

LEMMA NextFits ==
    ASSUME reader' = reader, sent' = sent,
           reader # "native" /\ apart' => FitsOf(reads', buffer', delivered', arrived')
    PROVE  FitsInv'
<1>1. PICK rds, buf, del, n : rds = reads' /\ buf = buffer' /\ del = delivered' /\ n = arrived'
    OBVIOUS
<1>2. Stream' = Stream
    BY Frozen
<1>3. ASSUME reader # "native", apart' PROVE FitsOf(rds, buf, del, n)'
    <2>1. FitsOf(rds, buf, del, n)
        BY <1>1, <1>3
    <2>2. CASE rds = <<>> /\ Fits(buf, del, n)
        <3>1. Fits(buf, del, n)'
            BY <2>2, FrozenFits
        <3> QED BY <2>2, <3>1 DEF FitsOf
    <2>3. ASSUME NEW a \in 0..n, rds = <<DecodedRead(buf, a, n)>>, Fits(buf, del, a)
          PROVE  FitsOf(rds, buf, del, n)'
        <3>1. Fits(buf, del, a)'
            BY <2>3, FrozenFits
        <3>2. DecodedRead(buf, a, n)' = DecodedRead(buf, a, n)
            BY <1>2 DEF DecodedRead
        <3> QED BY <2>3, <3>1, <3>2 DEF FitsOf
    <2> QED BY <2>1, <2>2, <2>3 DEF FitsOf
<1> QED BY <1>1, <1>3 DEF FitsInv

LEMMA ReadWide ==
    ASSUME WideInv, NEW n \in (arrived + 1)..Len(Stream), Read(n)
    PROVE  FitsInv'
<1>1. reader' = reader /\ sent' = sent /\ reader # "ws" /\ reads = <<>> /\ reads' = <<>> /\ arrived' = n /\ apart
    BY DEF Read, Arrives, WideInv, FramingTypes
<1>2. ASSUME reader # "native" PROVE Fits(buffer', delivered', n)
    <2>1. Fits(buffer, delivered, arrived)
        BY <1>1, <1>2 DEF WideInv, FitsInv, FitsOf
    <2>2. Streaming /\ arrived \in 0..Len(Stream) /\ n \in arrived..Len(Stream)
        BY StreamTyped DEF WideInv, FramingTypes
    <2>3. LET c == Consume(buffer \o Decode(SubSeq(Stream, arrived + 1, n)))
          IN  Fits(c.rest, delivered \o c.out, n)
        BY <1>2, <2>1, <2>2, FitsNext
    <2> QED BY <1>2, <2>3 DEF Read, Chunk, Chars
<1> QED BY <1>1, <1>2, NextFits DEF FitsOf

LEMMA FrameWide ==
    ASSUME WideInv, NEW n \in (arrived + 1)..Len(Stream), FrameArrives(n)
    PROVE  FitsInv'
<1>1. /\ reader' = reader /\ sent' = sent /\ arrived' = n /\ buffer' = buffer /\ delivered' = delivered
      /\ reads' = Append(reads, [held |-> buffer, chunk |-> Chars(SubSeq(Stream, arrived + 1, n))])
      /\ apart' = (apart /\ reads = <<>>)
    BY DEF FrameArrives, Arrives, Chunk
<1>2. ASSUME reader # "native", apart' PROVE FitsOf(reads', buffer', delivered', arrived')
    <2>1. reads = <<>> /\ apart
        BY <1>1, <1>2
    <2>2. Fits(buffer, delivered, arrived)
        BY <1>2, <2>1 DEF WideInv, FitsInv, FitsOf
    <2>3. arrived \in 0..n
        BY StreamTyped DEF WideInv, FramingTypes
    <2>4. PICK e : e = DecodedRead(buffer, arrived, n)
        OBVIOUS
    <2>5. e = [held |-> buffer, chunk |-> Chars(SubSeq(Stream, arrived + 1, n))]
        BY <1>2, <2>4 DEF DecodedRead, Chars
    <2>6. reads' = <<e>>
        <3>1. reads' = Append(<<>>, e)
            BY <1>1, <2>1, <2>5, Zenon
        <3> QED BY <3>1
    <2> QED BY <1>1, <2>2, <2>3, <2>4, <2>6 DEF FitsOf
<1> QED BY <1>1, <1>2, NextFits

LEMMA BlobWide ==
    ASSUME WideInv, NEW i \in DOMAIN reads, BlobRead(i)
    PROVE  FitsInv'
<1>1. /\ reader' = reader /\ sent' = sent /\ arrived' = arrived /\ apart' = apart
      /\ reads' = RemoveAt(reads, i)
      /\ buffer' = Consume(reads[i].held \o reads[i].chunk).rest
      /\ delivered' = delivered \o Consume(reads[i].held \o reads[i].chunk).out
    BY DEF BlobRead, Held
<1>2. ASSUME reader # "native", apart' PROVE FitsOf(reads', buffer', delivered', arrived')
    <2>1. reads # <<>>
        OBVIOUS
    <2>2. PICK a \in 0..arrived : reads = <<DecodedRead(buffer, a, arrived)>> /\ Fits(buffer, delivered, a)
        BY <1>1, <1>2, <2>1 DEF WideInv, FitsInv, FitsOf
    <2>3. PICK e : e = DecodedRead(buffer, a, arrived)
        OBVIOUS
    <2>4. reads = <<e>> /\ i = 1 /\ reads[i] = e
        BY <2>2, <2>3
    <2>5. e.held = buffer /\ e.chunk = Decode(SubSeq(Stream, a + 1, arrived))
        BY <2>3 DEF DecodedRead
    <2>6. Streaming /\ a \in 0..Len(Stream) /\ arrived \in a..Len(Stream)
        BY StreamTyped DEF WideInv, FramingTypes
    <2>7. LET c == Consume(buffer \o Decode(SubSeq(Stream, a + 1, arrived)))
          IN  Fits(c.rest, delivered \o c.out, arrived)
        BY <1>2, <2>2, <2>6, FitsNext
    <2>8. Fits(buffer', delivered', arrived)
        BY <1>1, <2>4, <2>5, <2>7, Zenon
    <2>9. RemoveAt(<<e>>, 1) = <<>>
        <3>1. SubSeq(<<e>>, 1, 0) = <<>> /\ SubSeq(<<e>>, 2, 1) = <<>>
            BY SubSeqEmpty
        <3>2. Len(<<e>>) = 1 /\ 1 - 1 = 0 /\ 1 + 1 = 2 /\ <<>> \o <<>> = <<>>
            OBVIOUS
        <3> QED BY <3>1, <3>2, Zenon DEF RemoveAt
    <2> QED BY <1>1, <2>4, <2>8, <2>9 DEF FitsOf
<1> QED BY <1>1, <1>2, NextFits

LEMMA NextWide == WideInv /\ [FramingNext]_framingVars => WideInv'
<1> SUFFICES ASSUME WideInv, FramingNext \/ UNCHANGED framingVars PROVE WideInv'
    OBVIOUS
<1>1. FramingTypes'
    BY TypesStep DEF WideInv
<1>2. CASE \E n \in (arrived + 1)..Len(Stream) : Read(n)
    BY <1>1, <1>2, ReadWide DEF WideInv
<1>3. CASE \E n \in (arrived + 1)..Len(Stream) : FrameArrives(n)
    BY <1>1, <1>3, FrameWide DEF WideInv
<1>4. CASE \E i \in DOMAIN reads : BlobRead(i)
    BY <1>1, <1>4, BlobWide DEF WideInv
<1>5. CASE UNCHANGED framingVars
    <2>1. /\ reader' = reader /\ sent' = sent /\ arrived' = arrived /\ buffer' = buffer /\ reads' = reads
          /\ delivered' = delivered /\ apart' = apart
        BY <1>5 DEF framingVars
    <2>2. reader # "native" /\ apart' => FitsOf(reads', buffer', delivered', arrived')
        BY <2>1 DEF WideInv, FitsInv
    <2>3. FitsInv'
        BY <2>1, <2>2, NextFits
    <2> QED BY <1>1, <2>3 DEF WideInv
<1> QED BY <1>2, <1>3, <1>4, <1>5 DEF FramingNext

-----------------------------------------------------------------------------
(* What it says of the messages.                                            *)

LEMMA PipeDelivers == WideInv => PipeKeepsFrames
<1> SUFFICES ASSUME WideInv, reader = "pipe"
             PROVE  Len(delivered) = Complete /\ \A i \in 1..Complete : Alike(delivered[i], Text(i))
    BY DEF PipeKeepsFrames
<1>1. Streaming /\ arrived \in 0..Len(Stream) /\ reads = <<>> /\ apart
    BY DEF WideInv, FramingTypes
<1>2. Fits(buffer, delivered, arrived)
    BY <1>1 DEF WideInv, FitsInv, FitsOf
<1>3. PICK k : PipeAt(arrived, delivered, k) /\ Whole(k, arrived)
    BY <1>2 DEF Fits, Nats
<1>4. Complete = k
    BY <1>1, <1>3, CompleteIs
<1> QED BY <1>3, <1>4, Zenon DEF PipeAt

LEMMA NatsDelivers == WideInv => NatsLosesOnlyWide
<1> SUFFICES ASSUME WideInv, reader \in {"tcp", "ws"}, apart, reads = <<>>
             PROVE  /\ \E place \in [DOMAIN delivered -> 1..Complete] :
                         /\ \A i, j \in DOMAIN delivered : i < j => place[i] < place[j]
                         /\ \A i \in DOMAIN delivered : Alike(delivered[i], Text(place[i]))
                    /\ \A i \in 1..Complete : Spared(i) => Text(i) \in ToSet(delivered)
    BY DEF NatsLosesOnlyWide
<1>1. Streaming /\ arrived \in 0..Len(Stream) /\ Count \in Nat /\ arrived \in Nat
    BY StreamTyped DEF WideInv, FramingTypes
<1>2. Fits(buffer, delivered, arrived)
    BY DEF WideInv, FitsInv, FitsOf
<1>3. PICK d, pos, k, P : NatsAt(d, pos, arrived, delivered, k, P) /\ Stuck(arrived, k)
    BY <1>2 DEF Fits
<1>4. /\ k \in 0..Count /\ Len(Frames(k)) <= arrived /\ InOrder(delivered, k)
      /\ \A i \in 1..k : Spared(i) => Text(i) \in ToSet(delivered)
    BY <1>3, Zenon DEF NatsAt
<1>5. PICK c \in 0..Count : Whole(c, arrived)
    BY <1>1, WholeExists
<1>6. Complete = c
    BY <1>1, <1>5, CompleteIs
<1>7. Len(Frames(c)) <= arrived /\ (c < Count => arrived < Len(Frames(c + 1)))
    BY <1>5, Zenon DEF Whole
<1>8. k <= c
    <2>1. ASSUME c < k PROVE FALSE
        <3>1. c + 1 \in 0..Count /\ k \in (c + 1)..Count /\ c < Count
            BY <1>1, <1>4, <2>1
        <3>2. Len(Frames(c + 1)) <= Len(Frames(k)) /\ Len(Frames(c + 1)) \in Nat /\ Len(Frames(k)) \in Nat
            BY <1>1, <1>4, <3>1, FramesPrefix, FramesTyped
        <3> QED BY <1>1, <1>4, <1>7, <3>1, <3>2
    <2> QED BY <1>4, <2>1
<1>9. InOrder(delivered, c)
    BY <1>4, <1>8, InOrderWider
<1>10. DOMAIN delivered = 1..Len(delivered)
    <2>1. delivered \in Seq(Seq(Signs))
        BY <1>9, Zenon DEF InOrder
    <2> QED BY <2>1
<1>11. ASSUME NEW i \in 1..c, Spared(i) PROVE Text(i) \in ToSet(delivered)
    <2>1. CASE i <= k
        <3>1. i \in 1..k
            BY <1>4, <2>1
        <3> QED BY <1>4, <1>11, <3>1
    <2>2. ASSUME ~(i <= k) PROVE FALSE
        <3>1. i \in (k + 1)..Count /\ i \in 0..Count /\ c \in i..Count
            BY <1>1, <1>4, <2>2
        <3>2. arrived < Len(Frames(i))
            BY <1>3, <1>11, <3>1 DEF Stuck
        <3>3. Len(Frames(i)) <= Len(Frames(c)) /\ Len(Frames(i)) \in Nat /\ Len(Frames(c)) \in Nat
            BY <1>1, <3>1, FramesPrefix, FramesTyped
        <3> QED BY <1>1, <1>7, <3>2, <3>3
    <2> QED BY <2>1, <2>2
<1> QED BY <1>6, <1>9, <1>10, <1>11, Zenon DEF InOrder

\* Wherever the stream is cut, characters of several bytes cost the pipe no message, no
\* order and no end of one, only characters that a chunk cuts in two; and NATS, over either
\* socket, only messages behind which a size in bytes was taken as one in characters, never
\* one that is spared, and nothing that it passes on was not sent or is out of order (read of
\* PipeUpstreamTransport, consumeTcpBuffer and consumeWsBuffer of NatsUpstreamTransport).
THEOREM WideDamageBounded == FramingSpec => []WideDamage
<1>1. WideInv => WideDamage
    BY PipeDelivers, NatsDelivers DEF WideDamage
<1>2. FramingSpec => []WideInv
    BY InitWide, NextWide, PTL DEF FramingSpec
<1> QED BY <1>1, <1>2, PTL
=============================================================================
