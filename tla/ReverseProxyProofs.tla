------------------------- MODULE ReverseProxyProofs -------------------------
(***************************************************************************)
(* Proofs about ReverseProxy for every set of peers, clients, commands and *)
(* sessions.                                                               *)
(***************************************************************************)
EXTENDS ReverseProxy, TLAPS

-----------------------------------------------------------------------------
(* Types.                                                                   *)

PeerStates == {"none", "open", "closing", "errored", "closed"}
ClientStates == {"none", "open", "closing", "closed"}
Entries == [id : Nat, command : Commands]
Request == [id : Nat, client : Clients, command : Commands]
Answer == [command : Commands, of : Clients \X Commands]

\* The types in three parts, with no counter below its start, and a peer for whoever
\* is bridged.
PeerTypes ==
    /\ ready \in [Peers -> PeerStates]
    /\ hello_pending \in SUBSET Peers /\ hello_timers \in SUBSET Peers
    /\ socket \in Peers \cup {NoPeer}
    /\ attached \in [Peers -> SUBSET Sessions]
    /\ phase \in {"running", "clients", "reverse", "closed"}

ClientTypes ==
    /\ waiters \in SUBSET Clients /\ listening \in SUBSET Clients
    /\ conn \in [Clients -> ClientStates]
    /\ pc \in [Clients -> {"none", "waiting", "bridged", "refused"}]
    /\ reverse \in [Clients -> Peers \cup {NoPeer}]
    /\ client_session_ids \in [Clients -> SUBSET Sessions]
    /\ \A c \in Clients : pc[c] = "bridged" => reverse[c] # NoPeer

TableTypes ==
    /\ queued \in [Clients -> Seq(Commands)]
    /\ next_reverse_id \in [Clients -> Nat]
    /\ pending \in [Clients -> SUBSET Entries]
    /\ \A c \in Clients : \A e \in pending[c] :
         FirstReverseId <= e.id /\ e.id < next_reverse_id[c]
    /\ \A c \in Clients : FirstReverseId <= next_reverse_id[c]
    /\ requests \in [Peers -> SUBSET Request]
    /\ sent \in [Clients -> SUBSET Commands]
    /\ answers \in [Clients -> Seq(Answer)]

TypeInv == PeerTypes /\ ClientTypes /\ TableTypes

LEMMA TypeInvTypeOK == TypeInv => TypeOK
BY DEF TypeInv, PeerTypes, ClientTypes, TableTypes, TypeOK, PeerStates, ClientStates, Entries,
   Request, Answer

\* close() keeps the states of the sockets in their domain, and opens none.
LEMMA ClosingPeers ==
    ASSUME NEW f \in [Peers -> PeerStates], NEW G
    PROVE  /\ Closing(f, G) \in [Peers -> PeerStates]
           /\ \A x \in Peers :
                /\ f[x] # "open" \/ x \notin G => Closing(f, G)[x] = f[x]
                /\ f[x] = "open" /\ x \in G => Closing(f, G)[x] = "closing"
BY DEF Closing, PeerStates

LEMMA ClosingClients ==
    ASSUME NEW f \in [Clients -> ClientStates], NEW G
    PROVE  /\ Closing(f, G) \in [Clients -> ClientStates]
           /\ \A x \in Clients :
                /\ f[x] # "open" \/ x \notin G => Closing(f, G)[x] = f[x]
                /\ f[x] = "open" /\ x \in G => Closing(f, G)[x] = "closing"
BY DEF Closing, ClientStates

\* What a buffer is numbered with: each command has an id of its own from the counter
\* on, in the range that the counter then passes.
LEMMA NumberedEntries ==
    ASSUME TypeInv, NEW c \in Clients, NEW q \in Seq(Commands)
    PROVE  /\ Numbered(c, q) \subseteq Entries
           /\ \A e \in Numbered(c, q) :
                /\ next_reverse_id[c] <= e.id /\ e.id < next_reverse_id[c] + Len(q)
                /\ \E i \in DOMAIN q : e.command = q[i] /\ e.id = next_reverse_id[c] + i - 1
           /\ \A i \in DOMAIN q : \E e \in Numbered(c, q) : e.command = q[i]
           /\ next_reverse_id[c] + Len(q) \in Nat
<1> DEFINE new(i) == [id |-> next_reverse_id[c] + i - 1, command |-> q[i]]
<1>1. next_reverse_id[c] \in Nat /\ Len(q) \in Nat
  BY DEF TypeInv, TableTypes
<1>2. ASSUME NEW i \in DOMAIN q
      PROVE  /\ new(i) \in Entries
             /\ next_reverse_id[c] <= new(i).id /\ new(i).id < next_reverse_id[c] + Len(q)
             /\ new(i).command = q[i] /\ new(i).id = next_reverse_id[c] + i - 1
  BY <1>1 DEF Entries
<1>3. Numbered(c, q) = {new(i) : i \in DOMAIN q}
  BY DEF Numbered
<1>4. next_reverse_id[c] + Len(q) \in Nat
  BY <1>1
<1> HIDE DEF new
<1>5. \A e \in Numbered(c, q) : \E i \in DOMAIN q : e = new(i)
  BY <1>3
<1>6. \A i \in DOMAIN q : new(i) \in Numbered(c, q)
  BY <1>3
<1> QED
  BY <1>2, <1>4, <1>5, <1>6

\* Forwarding keeps the tables in their domains, every counter above its ids.
LEMMA ForwardType ==
    ASSUME TypeInv, NEW C \in SUBSET Clients, NEW p \in Peers,
           NEW commands, \A c \in C : commands[c] \in Seq(Commands),
           Forward(C, p, commands)
    PROVE  /\ next_reverse_id' \in [Clients -> Nat]
           /\ pending' \in [Clients -> SUBSET Entries]
           /\ \A c \in Clients : \A e \in pending'[c] :
                FirstReverseId <= e.id /\ e.id < next_reverse_id'[c]
           /\ \A c \in Clients : FirstReverseId <= next_reverse_id'[c]
           /\ requests' \in [Peers -> SUBSET Request]
<1>1. ASSUME NEW c \in C
      PROVE  /\ Numbered(c, commands[c]) \subseteq Entries
             /\ next_reverse_id[c] + Len(commands[c]) \in Nat
             /\ FirstReverseId <= next_reverse_id[c]
             /\ next_reverse_id[c] <= next_reverse_id[c] + Len(commands[c])
             /\ \A e \in Numbered(c, commands[c]) :
                  next_reverse_id[c] <= e.id /\ e.id < next_reverse_id[c] + Len(commands[c])
  <2>1. commands[c] \in Seq(Commands) /\ c \in Clients /\ Len(commands[c]) \in Nat
    OBVIOUS
  <2>2. next_reverse_id[c] \in Nat /\ FirstReverseId \in Nat
    BY <2>1, ConstantsAssumption DEF TypeInv, TableTypes
  <2>3. /\ Numbered(c, commands[c]) \subseteq Entries
        /\ next_reverse_id[c] + Len(commands[c]) \in Nat
        /\ \A e \in Numbered(c, commands[c]) :
             next_reverse_id[c] <= e.id /\ e.id < next_reverse_id[c] + Len(commands[c])
    BY <2>1, NumberedEntries DEF TypeInv
  <2>4. FirstReverseId <= next_reverse_id[c]
    BY <2>1 DEF TypeInv, TableTypes
  <2>5. next_reverse_id[c] <= next_reverse_id[c] + Len(commands[c])
    BY <2>1, <2>2
  <2> QED BY <2>3, <2>4, <2>5
<1>2. /\ next_reverse_id' \in [Clients -> Nat]
      /\ \A c \in Clients : /\ FirstReverseId <= next_reverse_id'[c]
                            /\ next_reverse_id[c] <= next_reverse_id'[c]
                            /\ next_reverse_id[c] \in Nat
  <2>1. /\ next_reverse_id \in [Clients -> Nat] /\ FirstReverseId \in Nat
        /\ \A c \in Clients : FirstReverseId <= next_reverse_id[c]
    BY ConstantsAssumption DEF TypeInv, TableTypes
  <2>2. next_reverse_id' =
          [c \in Clients |-> IF c \in C THEN next_reverse_id[c] + Len(commands[c])
                             ELSE next_reverse_id[c]]
    BY DEF Forward
  <2>3. \A c \in C : /\ next_reverse_id[c] + Len(commands[c]) \in Nat
                     /\ next_reverse_id[c] <= next_reverse_id[c] + Len(commands[c])
    BY <1>1
  <2> QED BY <2>1, <2>2, <2>3
<1>3. pending' \in [Clients -> SUBSET Entries]
  BY <1>1 DEF Forward, TypeInv, TableTypes, Entries
<1>4. ASSUME NEW c \in Clients, NEW e \in pending'[c]
      PROVE  FirstReverseId <= e.id /\ e.id < next_reverse_id'[c]
  <2>1. e.id \in Nat /\ FirstReverseId \in Nat
    BY <1>3, ConstantsAssumption DEF Entries
  <2>2. CASE e \in pending[c]
    BY <1>2, <2>1, <2>2 DEF TypeInv, TableTypes
  <2>3. CASE e \notin pending[c]
    <3>1. c \in C /\ e \in Numbered(c, commands[c])
      BY <2>3 DEF Forward
    <3>2. next_reverse_id'[c] = next_reverse_id[c] + Len(commands[c])
      BY <3>1 DEF Forward
    <3> QED BY <1>1, <1>2, <2>1, <3>1, <3>2
  <2> QED BY <2>2, <2>3
<1>5. \A c \in C : \A e \in Numbered(c, commands[c]) :
        [id |-> e.id, client |-> c, command |-> e.command] \in Request
  BY <1>1 DEF Entries, Request
<1>6. requests' \in [Peers -> SUBSET Request]
  BY <1>5 DEF Forward, TypeInv, TableTypes, Request
<1> QED BY <1>2, <1>3, <1>4, <1>6

LEMMA InitTypeInv == Init => TypeInv
<1> SUFFICES ASSUME Init PROVE TypeInv
    OBVIOUS
<1>1. PeerTypes
  BY DEF Init, PeerTypes, PeerStates
<1>2. ClientTypes
  BY DEF Init, ClientTypes, ClientStates
<1>3. TableTypes
  BY ConstantsAssumption DEF Init, TableTypes, Entries, Request, Answer
<1> QED BY <1>1, <1>2, <1>3 DEF TypeInv

\* Every step keeps the states of the peers in their domains.
LEMMA NextPeerTypes == TypeInv /\ [Next]_vars => PeerTypes'
<1> SUFFICES ASSUME PeerTypes, [Next]_vars PROVE PeerTypes'
    BY DEF TypeInv
<1> USE DEF PeerTypes
<1> DEFINE same == UNCHANGED <<ready, hello_pending, hello_timers, socket, attached, phase>>
<1>0. \A G : Closing(ready, G) \in [Peers -> PeerStates]
  BY ClosingPeers
<1>1. ASSUME NEW p \in Peers, PeerConnect(p) PROVE PeerTypes'
  BY <1>1 DEF PeerConnect, extensionVars, PeerStates
<1>2. ASSUME NEW p \in Peers, HelloTimeout(p) \/ RefuseHello(p) \/ PeerClosing(p)
      PROVE  PeerTypes'
  BY <1>0, <1>2 DEF HelloTimeout, RefuseHello, PeerClosing, extensionVars
<1>3. ASSUME NEW p \in Peers, AcceptHello(p) PROVE PeerTypes'
  BY <1>0, <1>3 DEF AcceptHello
<1>4. ASSUME NEW p \in Peers, PeerClosed(p) \/ PeerError(p) PROVE PeerTypes'
  BY <1>4 DEF PeerClosed, PeerError, PeerEnds, PeerStates
<1>5. ASSUME NEW p \in Peers, NEW s \in Sessions, PeerAttached(p, s) \/ PeerDetached(p, s)
      PROVE  PeerTypes'
  BY <1>5 DEF PeerAttached, PeerDetached, peerVars
<1>6. CASE Close
  BY <1>0, <1>6 DEF Close, extensionVars
<1>7. CASE ClientsServerClosed \/ ReverseServerClosed
  BY <1>7 DEF ClientsServerClosed, ReverseServerClosed, peerVars, extensionVars
<1>8. ASSUME NEW p \in Peers, NEW r \in requests[p], PeerAnswer(p, r) PROVE same
  BY <1>8 DEF PeerAnswer, peerVars
<1>9. ASSUME NEW c \in Clients, ClientConnect(c) \/ WaitTimeout(c) \/ ClientClosed(c) PROVE same
  BY <1>9 DEF ClientConnect, WaitTimeout, ClientClosed, peerVars, extensionVars
<1>10. ASSUME NEW c \in Clients, NEW m \in Commands, ClientSend(c, m) PROVE same
  BY <1>10 DEF ClientSend, peerVars
<1>11. CASE UNCHANGED vars
  BY <1>11 DEF vars, peerVars, extensionVars
<1>12. same => PeerTypes'
  OBVIOUS
<1> QED
  BY <1>1, <1>2, <1>3, <1>4, <1>5, <1>6, <1>7, <1>8, <1>9, <1>10, <1>11, <1>12 DEF Next

\* Every step keeps the states of the clients in their domains.
LEMMA NextClientTypes == TypeInv /\ [Next]_vars => ClientTypes'
<1> SUFFICES ASSUME PeerTypes, ClientTypes, [Next]_vars PROVE ClientTypes'
    BY DEF TypeInv
<1> USE DEF ClientTypes
<1> DEFINE same == UNCHANGED <<waiters, listening, conn, pc, reverse, client_session_ids>>
<1>0. \A G : Closing(conn, G) \in [Clients -> ClientStates]
  BY ClosingClients
<1>1. ASSUME NEW p \in Peers,
             PeerConnect(p) \/ HelloTimeout(p) \/ RefuseHello(p) \/ PeerClosing(p)
      PROVE  same
  BY <1>1 DEF PeerConnect, HelloTimeout, RefuseHello, PeerClosing, bridgeVars
<1>2. ASSUME NEW p \in Peers, AcceptHello(p) PROVE ClientTypes'
  <2>1. CASE /\ waiters' = {} /\ listening' = listening \cup waiters
             /\ pc' = [c \in Clients |-> IF c \in waiters THEN "bridged" ELSE pc[c]]
             /\ reverse' = [c \in Clients |-> IF c \in waiters THEN p ELSE reverse[c]]
             /\ UNCHANGED <<conn, client_session_ids>>
    BY <2>1, ConstantsAssumption
  <2>2. CASE RejectWaiters(waiters, conn)
             /\ UNCHANGED <<reverse, listening, client_session_ids>>
    BY <2>2, <1>0 DEF RejectWaiters
  <2> QED BY <1>2, <2>1, <2>2 DEF AcceptHello
<1>3. ASSUME NEW p \in Peers, PeerClosed(p) \/ PeerError(p) PROVE ClientTypes'
  <2>1. Closing(Closing(conn, BridgedTo(p)), waiters) \in [Clients -> ClientStates]
    BY <1>0, ClosingClients
  <2>2. PeerEnds(p)
    BY <1>3 DEF PeerClosed, PeerError
  <2>3. CASE socket = p
    BY <2>1, <2>2, <2>3 DEF PeerEnds, RejectWaiters, bridgeVars
  <2>4. CASE socket # p
    BY <1>0, <2>2, <2>4 DEF PeerEnds, bridgeVars
  <2> QED BY <2>3, <2>4
<1>4. ASSUME NEW p \in Peers, NEW s \in Sessions, PeerAttached(p, s) \/ PeerDetached(p, s)
      PROVE  ClientTypes'
  <2>1. client_session_ids' \in [Clients -> SUBSET Sessions]
    BY <1>4 DEF PeerAttached, PeerDetached, DetachedIds
  <2> QED BY <1>4, <2>1 DEF PeerAttached, PeerDetached
<1>5. ASSUME NEW c \in Clients, ClientConnect(c) PROVE ClientTypes'
  <2>1. socket \in Peers \cup {NoPeer}
    BY DEF PeerTypes
  <2>2. CASE IsOpenSocket(socket)
    BY <1>5, <2>1, <2>2 DEF ClientConnect, IsOpenSocket, ClientStates
  <2>3. CASE ~IsOpenSocket(socket)
    BY <1>5, <2>1, <2>3 DEF ClientConnect, ClientStates
  <2> QED BY <2>2, <2>3
<1>6. ASSUME NEW c \in Clients, WaitTimeout(c) PROVE ClientTypes'
  BY <1>0, <1>6 DEF WaitTimeout, RejectWaiters, bridgeVars
<1>7. ASSUME NEW c \in Clients, ClientClosed(c) PROVE ClientTypes'
  BY <1>7 DEF ClientClosed, bridgeVars, ClientStates
<1>8. CASE Close
  BY <1>0, <1>8 DEF Close, bridgeVars
<1>9. CASE ClientsServerClosed \/ ReverseServerClosed
  BY <1>9 DEF ClientsServerClosed, ReverseServerClosed, bridgeVars
<1>10. ASSUME NEW p \in Peers, NEW r \in requests[p], PeerAnswer(p, r) PROVE same
  BY <1>10 DEF PeerAnswer
<1>11. ASSUME NEW c \in Clients, NEW m \in Commands, ClientSend(c, m) PROVE same
  BY <1>11 DEF ClientSend
<1>12. CASE UNCHANGED vars
  BY <1>12 DEF vars, bridgeVars
<1>13. same => ClientTypes'
  OBVIOUS
<1> QED
  BY <1>1, <1>2, <1>3, <1>4, <1>5, <1>6, <1>7, <1>8, <1>9, <1>10, <1>11, <1>12, <1>13
  DEF Next

\* Every step keeps the command tables in their domains.
LEMMA NextTableTypes == TypeInv /\ [Next]_vars => TableTypes'
<1> SUFFICES ASSUME TypeInv, [Next]_vars PROVE TableTypes'
    OBVIOUS
<1> USE DEF TableTypes
<1>t. TableTypes
  BY DEF TypeInv
<1> DEFINE same == UNCHANGED <<queued, next_reverse_id, pending, requests, sent, answers>>
<1>1. ASSUME NEW p \in Peers,
             PeerConnect(p) \/ HelloTimeout(p) \/ RefuseHello(p) \/ PeerClosing(p)
      PROVE  same
  BY <1>1 DEF PeerConnect, HelloTimeout, RefuseHello, PeerClosing, bridgeVars, extensionVars,
     clientVars
<1>2. ASSUME NEW p \in Peers, AcceptHello(p) PROVE TableTypes'
  <2>1. CASE Forward(waiters, p, queued)
             /\ queued' = [c \in Clients |-> IF c \in waiters THEN <<>> ELSE queued[c]]
             /\ UNCHANGED clientVars
    <3>1. waiters \in SUBSET Clients /\ \A c \in waiters : queued[c] \in Seq(Commands)
      BY DEF TypeInv, ClientTypes
    <3>2. /\ next_reverse_id' \in [Clients -> Nat]
          /\ pending' \in [Clients -> SUBSET Entries]
          /\ \A c \in Clients : \A e \in pending'[c] :
               FirstReverseId <= e.id /\ e.id < next_reverse_id'[c]
          /\ \A c \in Clients : FirstReverseId <= next_reverse_id'[c]
          /\ requests' \in [Peers -> SUBSET Request]
      BY <2>1, <3>1, ForwardType
    <3>3. queued' \in [Clients -> Seq(Commands)]
      BY <2>1, <1>t
    <3> QED BY <1>t, <2>1, <3>2, <3>3 DEF clientVars
  <2>2. CASE same
    BY <1>t, <2>2
  <2> QED BY <1>2, <2>1, <2>2 DEF AcceptHello, clientVars
<1>3. ASSUME NEW p \in Peers, PeerClosed(p) \/ PeerError(p) PROVE TableTypes'
  <2>1. requests' = [requests EXCEPT ![p] = {}]
        /\ UNCHANGED <<queued, next_reverse_id, pending, sent, answers>>
    BY <1>3 DEF PeerClosed, PeerError, PeerEnds, bridgeVars, clientVars
  <2>2. requests' \in [Peers -> SUBSET Request]
    BY <1>t, <2>1
  <2> QED BY <1>t, <2>1, <2>2
<1>4. ASSUME NEW p \in Peers, NEW r \in requests[p], PeerAnswer(p, r) PROVE TableTypes'
  <2>1. /\ pending' \in [Clients -> SUBSET Entries]
        /\ \A c \in Clients : pending'[c] \subseteq pending[c]
    <3>1. \A c \in Clients : Unanswered(c, r.id) \subseteq pending[c]
      BY DEF Unanswered
    <3>2. pending' = [c \in Clients |-> IF c \in ListenersOf(p) THEN Unanswered(c, r.id)
                                        ELSE pending[c]]
      BY <1>4 DEF PeerAnswer
    <3> QED BY <1>t, <3>1, <3>2
  <2>2. r \in Request
    BY <1>t
  <2>3. answers' \in [Clients -> Seq(Answer)]
    <3> DEFINE a(c) == [command |-> (CHOOSE e \in pending[c] : e.id = r.id).command,
                        of |-> <<r.client, r.command>>]
    <3>1. ASSUME NEW c \in Clients, \E e \in pending[c] : e.id = r.id
          PROVE  a(c) \in Answer
      <4>1. PICK e \in pending[c] : e = CHOOSE f \in pending[c] : f.id = r.id
        BY <3>1
      <4>2. e.command \in Commands
        BY <1>t, <4>1 DEF Entries
      <4> QED BY <2>2, <4>1, <4>2 DEF Request, Answer
    <3>2. answers' = [c \in Clients |->
             IF c \in ListenersOf(p) /\ conn[c] = "open" /\ \E e \in pending[c] : e.id = r.id
             THEN Append(answers[c], a(c)) ELSE answers[c]]
      BY <1>4 DEF PeerAnswer
    <3>3. answers \in [Clients -> Seq(Answer)]
      BY <1>t
    <3> HIDE DEF a
    <3> QED BY <3>1, <3>2, <3>3
  <2>4. requests' \in [Peers -> SUBSET Request]
    BY <1>4, <1>t DEF PeerAnswer
  <2>5. \A c \in Clients : \A e \in pending'[c] :
          FirstReverseId <= e.id /\ e.id < next_reverse_id[c]
    BY <1>t, <2>1
  <2>6. UNCHANGED <<queued, next_reverse_id, sent>>
    BY <1>4 DEF PeerAnswer
  <2> QED BY <1>t, <2>1, <2>3, <2>4, <2>5, <2>6
<1>5. ASSUME NEW p \in Peers, NEW s \in Sessions, PeerAttached(p, s) \/ PeerDetached(p, s)
      PROVE  same
  BY <1>5 DEF PeerAttached, PeerDetached, clientVars
<1>6. ASSUME NEW c \in Clients, ClientConnect(c) \/ WaitTimeout(c) \/ ClientClosed(c) PROVE same
  BY <1>6 DEF ClientConnect, WaitTimeout, ClientClosed, bridgeVars, extensionVars, clientVars
<1>7. ASSUME NEW c \in Clients, NEW m \in Commands, ClientSend(c, m) PROVE TableTypes'
  <2>1. sent' \in [Clients -> SUBSET Commands] /\ UNCHANGED answers
    BY <1>7, <1>t DEF ClientSend
  <2>2. CASE ClientSendWhileWaiting(c, m) /\ UNCHANGED <<next_reverse_id, pending, requests>>
    <3>1. queued' \in [Clients -> Seq(Commands)]
      BY <2>2, <1>t DEF ClientSendWhileWaiting
    <3> QED BY <1>t, <2>1, <2>2, <3>1
  <2>3. CASE pc[c] = "bridged" /\ Forward({c}, reverse[c], [d \in {c} |-> <<m>>])
               /\ UNCHANGED queued
    <3>1. \A d \in {c} : [x \in {c} |-> <<m>>][d] \in Seq(Commands)
      OBVIOUS
    <3>2. reverse[c] \in Peers
      BY <2>3 DEF TypeInv, ClientTypes
    <3>3. /\ next_reverse_id' \in [Clients -> Nat]
          /\ pending' \in [Clients -> SUBSET Entries]
          /\ \A d \in Clients : \A e \in pending'[d] :
               FirstReverseId <= e.id /\ e.id < next_reverse_id'[d]
          /\ \A d \in Clients : FirstReverseId <= next_reverse_id'[d]
          /\ requests' \in [Peers -> SUBSET Request]
      <4> {c} \in SUBSET Clients
        OBVIOUS
      <4> QED BY <2>3, <3>1, <3>2, ForwardType
    <3> QED BY <1>t, <2>1, <2>3, <3>3
  <2> QED BY <1>7, <2>2, <2>3 DEF ClientSend
<1>8. CASE Close \/ ClientsServerClosed \/ ReverseServerClosed
  BY <1>8, <1>t DEF Close, ClientsServerClosed, ReverseServerClosed, bridgeVars, extensionVars,
     clientVars
<1>9. CASE UNCHANGED vars
  BY <1>9, <1>t DEF vars, bridgeVars, extensionVars, clientVars
<1>10. same => TableTypes'
  BY <1>t
<1> QED
  BY <1>1, <1>2, <1>3, <1>4, <1>5, <1>6, <1>7, <1>8, <1>9, <1>10 DEF Next

\* Every variable keeps its type, whatever the extensions and the clients do.
THEOREM Types == Spec => []TypeInv
<1>1. TypeInv /\ [Next]_vars => TypeInv'
  BY NextPeerTypes, NextClientTypes, NextTableTypes DEF TypeInv
<1> QED BY <1>1, InitTypeInv, PTL DEF Spec

\* TypeOK, the type invariant of the component.
THEOREM TypeCorrect == Spec => []TypeOK
BY Types, TypeInvTypeOK, PTL

-----------------------------------------------------------------------------
(* The registered peer and those who wait for one.                          *)

\* The registered peer has not ended; a client waits only after it connected.
PeerInv ==
    /\ socket # NoPeer => ready[socket] \in {"open", "closing"}
    /\ OneOpenPeer
    /\ WaitOnlyWithoutPeer
    /\ \A c \in Clients : conn[c] = "none" => pc[c] = "none"

LEMMA NextPeerInv == TypeInv /\ PeerInv /\ [Next]_vars => PeerInv'
<1> SUFFICES ASSUME TypeInv, PeerInv, [Next]_vars PROVE PeerInv'
    OBVIOUS
<1> USE DEF PeerInv, OneOpenPeer, WaitOnlyWithoutPeer, IsOpenSocket
<1>0. /\ ready \in [Peers -> PeerStates] /\ conn \in [Clients -> ClientStates]
      /\ pc \in [Clients -> {"none", "waiting", "bridged", "refused"}]
      /\ socket \in Peers \cup {NoPeer} /\ waiters \in SUBSET Clients
  BY DEF TypeInv, PeerTypes, ClientTypes
<1>1. \A G : /\ Closing(ready, G) \in [Peers -> PeerStates]
             /\ \A x \in Peers :
                  /\ ready[x] # "open" \/ x \notin G => Closing(ready, G)[x] = ready[x]
                  /\ ready[x] = "open" /\ x \in G => Closing(ready, G)[x] = "closing"
  BY <1>0, ClosingPeers
<1>2. \A f \in [Clients -> ClientStates] : \A G :
        /\ Closing(f, G) \in [Clients -> ClientStates]
        /\ \A x \in Clients : Closing(f, G)[x] = "none" => f[x] = "none"
  BY ClosingClients DEF ClientStates
<1>3. ASSUME NEW p \in Peers, PeerConnect(p) PROVE PeerInv'
  BY <1>0, <1>3, ConstantsAssumption DEF PeerConnect, PeerStates
<1>4. ASSUME NEW p \in Peers, HelloTimeout(p) \/ RefuseHello(p) \/ PeerClosing(p)
      PROVE  PeerInv'
  <2>1. /\ ready' = Closing(ready, {p})
        /\ hello_pending' = hello_pending \/ hello_pending' = hello_pending \ {p}
        /\ UNCHANGED <<socket, waiters, pc, conn>>
    BY <1>4 DEF HelloTimeout, RefuseHello, PeerClosing
  <2>2. \A x \in Peers : ready'[x] = "open" => x # p /\ ready[x] = "open"
    BY <1>0, <1>1, <2>1
  <2>3. \A x \in Peers : ready[x] \in {"open", "closing"} => ready'[x] \in {"open", "closing"}
    BY <1>0, <1>1, <2>1
  <2> QED BY <1>0, <2>1, <2>2, <2>3
<1>5. ASSUME NEW p \in Peers, AcceptHello(p) PROVE PeerInv'
  <2>1. /\ ready' = Closing(ready, Replaced(p)) /\ socket' = p
        /\ hello_pending' = hello_pending \ {p} /\ ready[p] \in {"open", "closing"}
    BY <1>5 DEF AcceptHello
  <2>2. ready'[p] = ready[p] /\ p # NoPeer
    BY <1>1, <2>1, ConstantsAssumption DEF Replaced
  <2>3. \A x \in Peers : ready'[x] = "open" /\ x \notin hello_pending' => x = p
    <3> SUFFICES ASSUME NEW x \in Peers, ready'[x] = "open", x \notin hello_pending', x # p
                 PROVE  FALSE
      OBVIOUS
    <3>1. ready[x] = "open" /\ x \notin hello_pending /\ x \notin Replaced(p)
      BY <1>1, <2>1
    <3> QED BY <3>1 DEF Replaced
  <2>4. /\ waiters' = {}
        /\ \A c \in Clients : /\ c \in waiters => pc'[c] # "waiting" /\ pc'[c] # "none"
                              /\ c \notin waiters => pc'[c] = pc[c]
        /\ \A c \in Clients : conn'[c] = "none" => conn[c] = "none"
    <3>1. CASE IsOpenSocket(p) /\ waiters' = {} /\ UNCHANGED conn
               /\ pc' = [c \in Clients |-> IF c \in waiters THEN "bridged" ELSE pc[c]]
      BY <3>1
    <3>2. CASE RejectWaiters(waiters, conn)
      BY <1>0, <1>2, <3>2 DEF RejectWaiters
    <3> QED BY <1>5, <3>1, <3>2 DEF AcceptHello
  <2> QED BY <2>1, <2>2, <2>3, <2>4
<1>6. ASSUME NEW p \in Peers, PeerClosed(p) \/ PeerError(p) PROVE PeerInv'
  <2>1. /\ ready' = [ready EXCEPT ![p] = "closed"] \/ ready' = [ready EXCEPT ![p] = "errored"]
        /\ PeerEnds(p)
    BY <1>6 DEF PeerClosed, PeerError
  <2>2. hello_pending' = hello_pending
    BY <2>1 DEF PeerEnds
  <2>3. CASE socket = p /\ socket' = NoPeer
             /\ RejectWaiters(waiters, Closing(conn, BridgedTo(p)))
    <3>1. Closing(conn, BridgedTo(p)) \in [Clients -> ClientStates]
      BY <1>0, <1>2
    <3>2. \A c \in Clients : conn'[c] = "none" => conn[c] = "none"
      BY <1>0, <1>2, <2>3, <3>1 DEF RejectWaiters
    <3>3. /\ waiters' = {}
          /\ \A c \in Clients : /\ c \in waiters => pc'[c] = "refused"
                                /\ c \notin waiters => pc'[c] = pc[c]
      BY <2>3 DEF RejectWaiters
    <3>4. \A x \in Peers : ready'[x] = "open" => x # p /\ ready[x] = "open"
      BY <1>0, <2>1
    <3> QED BY <2>2, <2>3, <3>2, <3>3, <3>4
  <2>4. CASE socket # p /\ conn' = Closing(conn, BridgedTo(p))
             /\ UNCHANGED <<socket, waiters, pc>>
    <3>1. \A x \in Peers : /\ x # p => ready'[x] = ready[x]
                           /\ ready'[x] = "open" => x # p
      BY <1>0, <2>1
    <3>2. \A c \in Clients : conn'[c] = "none" => conn[c] = "none"
      BY <1>0, <1>2, <2>4
    <3> QED BY <1>0, <2>2, <2>4, <3>1, <3>2
  <2> QED BY <2>1, <2>3, <2>4 DEF PeerEnds
<1>7. ASSUME NEW c \in Clients, ClientConnect(c) PROVE PeerInv'
  <2>1. c \notin waiters /\ UNCHANGED peerVars /\ conn' = [conn EXCEPT ![c] = "open"]
    BY <1>7 DEF ClientConnect
  <2>2. CASE IsOpenSocket(socket) /\ pc' = [pc EXCEPT ![c] = "bridged"] /\ waiters' = waiters
    BY <1>0, <2>1, <2>2 DEF peerVars
  <2>3. CASE ~IsOpenSocket(socket) /\ pc' = [pc EXCEPT ![c] = "waiting"]
             /\ waiters' = waiters \cup {c}
    BY <1>0, <2>1, <2>3 DEF peerVars
  <2> QED BY <1>7, <2>2, <2>3 DEF ClientConnect
<1>8. ASSUME NEW c \in Clients, WaitTimeout(c) PROVE PeerInv'
  BY <1>0, <1>2, <1>8 DEF WaitTimeout, RejectWaiters, peerVars
<1>9. ASSUME NEW c \in Clients, ClientClosed(c) PROVE PeerInv'
  BY <1>0, <1>9 DEF ClientClosed, peerVars
<1>10. CASE Close
  <2>1. /\ UNCHANGED <<hello_pending, socket, waiters, pc>>
        /\ conn' = Closing(conn, Clients) /\ ready' = Closing(ready, {socket})
    BY <1>10 DEF Close
  <2>2. \A x \in Peers : /\ ready'[x] = "open" => ready[x] = "open"
                         /\ ready[x] \in {"open", "closing"} => ready'[x] \in {"open", "closing"}
    BY <1>0, <1>1, <2>1
  <2>3. \A c \in Clients : conn'[c] = "none" => conn[c] = "none"
    BY <1>0, <1>2, <2>1
  <2> QED BY <1>0, <2>1, <2>2, <2>3
<1>11. ASSUME UNCHANGED <<peerVars, waiters, conn, pc>> PROVE PeerInv'
  BY <1>11 DEF peerVars
<1>12. ASSUME NEW p \in Peers, NEW r \in requests[p], PeerAnswer(p, r)
       PROVE  UNCHANGED <<peerVars, waiters, conn, pc>>
  BY <1>12 DEF PeerAnswer
<1>13. ASSUME NEW p \in Peers, NEW s \in Sessions, PeerAttached(p, s) \/ PeerDetached(p, s)
       PROVE  UNCHANGED <<peerVars, waiters, conn, pc>>
  BY <1>13 DEF PeerAttached, PeerDetached
<1>14. ASSUME NEW c \in Clients, NEW m \in Commands, ClientSend(c, m)
       PROVE  UNCHANGED <<peerVars, waiters, conn, pc>>
  BY <1>14 DEF ClientSend
<1>15. CASE ClientsServerClosed \/ ReverseServerClosed \/ UNCHANGED vars
  BY <1>11, <1>15 DEF ClientsServerClosed, ReverseServerClosed, vars
<1> QED
  BY <1>3, <1>4, <1>5, <1>6, <1>7, <1>8, <1>9, <1>10, <1>11, <1>12, <1>13, <1>14, <1>15
  DEF Next

LEMMA PeersStay == Spec => [](TypeInv /\ PeerInv)
<1>1. Init => PeerInv
  BY ConstantsAssumption DEF Init, PeerInv, OneOpenPeer, WaitOnlyWithoutPeer, IsOpenSocket
<1> QED BY <1>1, NextPeerInv, Types, PTL DEF Spec

\* "One reverse extension connection per proxy process": of the extensions that have said
\* hello at most the registered one is connected.
THEOREM OneOpen == Spec => []OneOpenPeer
<1>1. PeerInv => OneOpenPeer
  BY DEF PeerInv
<1> QED BY <1>1, PeersStay, PTL

\* A client waits exactly while its timer is armed, and never beside a peer that could
\* serve it.
THEOREM WaitsAreNeeded == Spec => []WaitOnlyWithoutPeer
<1>1. PeerInv => WaitOnlyWithoutPeer
  BY DEF PeerInv
<1> QED BY <1>1, PeersStay, PTL

-----------------------------------------------------------------------------
(* Bridges.                                                                 *)

\* Exactly the bridged clients have a peer; only they listen and know sessions; what a
\* listener knows is attached, and an ended peer has no listener and no open client.
BridgeInv ==
    /\ \A c \in Clients : /\ reverse[c] # NoPeer <=> pc[c] = "bridged"
                          /\ c \in listening => pc[c] = "bridged"
                          /\ pc[c] # "bridged" => client_session_ids[c] = {}
    /\ BridgeEndsWithPeer
    /\ FanoutToAttached

LEMMA NextBridgeInv == TypeInv /\ PeerInv /\ BridgeInv /\ [Next]_vars => BridgeInv'
<1> SUFFICES ASSUME TypeInv, PeerInv, BridgeInv, [Next]_vars PROVE BridgeInv'
    OBVIOUS
<1> USE DEF BridgeInv, BridgeEndsWithPeer, FanoutToAttached
<1> DEFINE ended == {"errored", "closed"}
           bridges == <<pc, reverse, listening, client_session_ids>>
<1>0. /\ ready \in [Peers -> PeerStates] /\ conn \in [Clients -> ClientStates]
      /\ pc \in [Clients -> {"none", "waiting", "bridged", "refused"}]
      /\ reverse \in [Clients -> Peers \cup {NoPeer}]
      /\ client_session_ids \in [Clients -> SUBSET Sessions]
      /\ attached \in [Peers -> SUBSET Sessions]
      /\ waiters \in SUBSET Clients /\ listening \in SUBSET Clients
      /\ socket \in Peers \cup {NoPeer}
  BY DEF TypeInv, PeerTypes, ClientTypes
<1>1. \A G : \A x \in Peers : /\ Closing(ready, G)[x] \in ended => ready[x] \in ended
                              /\ ready[x] \in ended => Closing(ready, G)[x] \in ended
  BY <1>0, ClosingPeers
<1>2. \A f \in [Clients -> ClientStates] : \A G :
        /\ Closing(f, G) \in [Clients -> ClientStates]
        /\ \A x \in Clients : /\ Closing(f, G)[x] = "open" => f[x] = "open"
                              /\ x \in G => Closing(f, G)[x] # "open"
  BY ClosingClients
<1>3. \A c \in Clients : c \in waiters <=> pc[c] = "waiting"
  BY DEF PeerInv, WaitOnlyWithoutPeer
\* Steps that neither bridge a client nor end a peer.
<1>f. ASSUME UNCHANGED <<bridges, attached>>,
             \A x \in Peers : ready'[x] \in ended => ready[x] \in ended,
             \A c \in Clients : conn'[c] = "open" => conn[c] = "open"
      PROVE  BridgeInv'
  BY <1>0, <1>f
<1>4. ASSUME NEW p \in Peers, PeerConnect(p) PROVE BridgeInv'
  <2>1. /\ UNCHANGED <<bridges, attached, conn>>
        /\ \A x \in Peers : ready'[x] \in ended => ready[x] \in ended
    BY <1>0, <1>4 DEF PeerConnect, bridgeVars, extensionVars
  <2> QED BY <1>f, <2>1
<1>5. ASSUME NEW p \in Peers, HelloTimeout(p) \/ RefuseHello(p) \/ PeerClosing(p)
      PROVE  BridgeInv'
  <2>1. UNCHANGED <<bridges, attached, conn>> /\ ready' = Closing(ready, {p})
    BY <1>5 DEF HelloTimeout, RefuseHello, PeerClosing, bridgeVars, extensionVars
  <2> QED BY <1>1, <1>f, <2>1
<1>6. ASSUME NEW p \in Peers, AcceptHello(p) PROVE BridgeInv'
  <2>1. /\ ready' = Closing(ready, Replaced(p)) /\ ready[p] \in {"open", "closing"}
        /\ UNCHANGED <<attached, client_session_ids>>
    BY <1>6 DEF AcceptHello
  <2>2. \A x \in Peers : ready'[x] \in ended => ready[x] \in ended
    BY <1>1, <2>1
  <2>3. CASE /\ pc' = [c \in Clients |-> IF c \in waiters THEN "bridged" ELSE pc[c]]
             /\ reverse' = [c \in Clients |-> IF c \in waiters THEN p ELSE reverse[c]]
             /\ listening' = listening \cup waiters
             /\ UNCHANGED conn
    <3>1. /\ p # NoPeer /\ ready'[p] \notin ended
          /\ \A c \in waiters : client_session_ids[c] = {}
      BY <1>3, <1>0, <2>1, <2>2, ConstantsAssumption
    <3>2. \A c \in Clients : /\ c \in waiters => pc'[c] = "bridged" /\ reverse'[c] = p
                             /\ c \notin waiters => pc'[c] = pc[c] /\ reverse'[c] = reverse[c]
      BY <2>3, <1>0
    <3>3. \A c \in Clients : c \in listening' => c \in waiters \/ c \in listening
      BY <2>3
    <3>4. ASSUME NEW c \in Clients, pc'[c] = "bridged", ready'[reverse'[c]] \in ended
          PROVE  conn'[c] # "open" /\ c \notin listening'
      <4>1. c \notin waiters
        BY <3>1, <3>2, <3>4
      <4>2. pc[c] = "bridged" /\ reverse'[c] = reverse[c] /\ reverse[c] \in Peers
        BY <1>0, <3>2, <3>4, <4>1
      <4>3. ready[reverse[c]] \in ended
        BY <2>2, <3>4, <4>2
      <4> QED BY <2>3, <3>3, <4>1, <4>2, <4>3
    <3>5. ASSUME NEW c \in listening'
          PROVE  client_session_ids'[c] \subseteq attached'[reverse'[c]]
      <4>1. CASE c \in waiters
        BY <2>1, <3>1, <4>1
      <4>2. CASE c \notin waiters
        <5>1. c \in listening /\ c \in Clients /\ reverse'[c] = reverse[c]
          BY <1>0, <3>2, <3>3, <3>5, <2>3, <4>2
        <5> QED BY <2>1, <5>1
      <4> QED BY <4>1, <4>2
    <3>6. ASSUME NEW c \in Clients
          PROVE  /\ reverse'[c] # NoPeer <=> pc'[c] = "bridged"
                 /\ c \in listening' => pc'[c] = "bridged"
                 /\ pc'[c] # "bridged" => client_session_ids'[c] = {}
      BY <2>1, <3>1, <3>2, <3>3
    <3> QED BY <3>4, <3>5, <3>6
  <2>4. CASE RejectWaiters(waiters, conn) /\ UNCHANGED <<reverse, listening>>
    <3>1. \A c \in Clients : /\ c \in waiters => (pc'[c] = "refused" /\ pc[c] = "waiting")
                             /\ c \notin waiters => pc'[c] = pc[c]
                             /\ conn'[c] = "open" => conn[c] = "open"
      BY <1>0, <1>2, <1>3, <2>4 DEF RejectWaiters
    <3> QED BY <1>0, <2>1, <2>2, <2>4, <3>1
  <2> QED BY <1>6, <2>3, <2>4 DEF AcceptHello
<1>7. ASSUME NEW p \in Peers, PeerClosed(p) \/ PeerError(p) PROVE BridgeInv'
  <2>1. /\ \A x \in Peers : x # p => ready'[x] = ready[x]
        /\ PeerEnds(p)
    BY <1>0, <1>7 DEF PeerClosed, PeerError
  <2>2. /\ UNCHANGED <<reverse, client_session_ids>>
        /\ listening' = listening \ BridgedTo(p)
        /\ \A x \in Peers : x # p => attached'[x] = attached[x]
    BY <1>0, <2>1 DEF PeerEnds, bridgeVars
  <2>3. \A c \in Clients : /\ reverse[c] = p => conn'[c] # "open"
                           /\ conn'[c] = "open" => conn[c] = "open"
    <3>1. /\ Closing(conn, BridgedTo(p)) \in [Clients -> ClientStates]
          /\ \A c \in Clients :
               /\ reverse[c] = p => Closing(conn, BridgedTo(p))[c] # "open"
               /\ Closing(conn, BridgedTo(p))[c] = "open" => conn[c] = "open"
      BY <1>0, <1>2 DEF BridgedTo
    <3>2. \/ conn' = Closing(conn, BridgedTo(p))
          \/ conn' = Closing(Closing(conn, BridgedTo(p)), waiters)
      BY <2>1 DEF PeerEnds, RejectWaiters
    <3> QED BY <1>2, <3>1, <3>2
  <2>4. \A c \in Clients : pc'[c] = pc[c] \/ (pc[c] = "waiting" /\ pc'[c] = "refused")
    BY <1>0, <1>3, <2>1 DEF PeerEnds, RejectWaiters
  <2>5. \A c \in Clients : c \in listening' => c \in listening /\ reverse[c] # p
    BY <2>2 DEF BridgedTo
  <2> QED BY <1>0, <2>1, <2>2, <2>3, <2>4, <2>5
<1>8. ASSUME NEW p \in Peers, NEW s \in Sessions, PeerAttached(p, s) PROVE BridgeInv'
  <2>1. /\ attached' = [attached EXCEPT ![p] = @ \cup {s}]
        /\ client_session_ids' =
             [c \in Clients |-> IF c \in ListenersOf(p) THEN client_session_ids[c] \cup {s}
                                ELSE client_session_ids[c]]
        /\ UNCHANGED <<ready, conn, pc, reverse, listening>>
    BY <1>8 DEF PeerAttached, peerVars
  <2> QED BY <1>0, <2>1 DEF ListenersOf
<1>9. ASSUME NEW p \in Peers, NEW s \in Sessions, PeerDetached(p, s) PROVE BridgeInv'
  <2>1. /\ attached' = [attached EXCEPT ![p] = @ \ {s}]
        /\ client_session_ids' =
             [c \in Clients |-> IF c \in ListenersOf(p) THEN client_session_ids[c] \ {s}
                                ELSE client_session_ids[c]]
        /\ UNCHANGED <<ready, conn, pc, reverse, listening>>
    BY <1>9 DEF PeerDetached, DetachedIds, peerVars
  <2> QED BY <1>0, <2>1 DEF ListenersOf
<1>10. ASSUME NEW c \in Clients, ClientConnect(c) PROVE BridgeInv'
  <2>1. /\ pc[c] = "none" /\ UNCHANGED <<ready, attached, client_session_ids>>
        /\ conn' = [conn EXCEPT ![c] = "open"]
    BY <1>10 DEF ClientConnect, PeerInv, peerVars, extensionVars
  <2>2. CASE /\ IsOpenSocket(socket) /\ pc' = [pc EXCEPT ![c] = "bridged"]
             /\ reverse' = [reverse EXCEPT ![c] = socket] /\ listening' = listening \cup {c}
    BY <1>0, <2>1, <2>2 DEF IsOpenSocket
  <2>3. CASE pc' = [pc EXCEPT ![c] = "waiting"] /\ UNCHANGED <<reverse, listening>>
    BY <1>0, <2>1, <2>3
  <2> QED BY <1>10, <2>2, <2>3 DEF ClientConnect
<1>11. ASSUME NEW c \in Clients, WaitTimeout(c) PROVE BridgeInv'
  <2>1. /\ UNCHANGED <<ready, attached, client_session_ids, reverse, listening>>
        /\ \A d \in Clients : /\ pc'[d] = pc[d] \/ (pc[d] = "waiting" /\ pc'[d] = "refused")
                              /\ conn'[d] = "open" => conn[d] = "open"
    BY <1>0, <1>2, <1>3, <1>11 DEF WaitTimeout, RejectWaiters, peerVars, bridgeVars,
       extensionVars
  <2> QED BY <1>0, <2>1
<1>12. ASSUME NEW c \in Clients, ClientClosed(c) PROVE BridgeInv'
  <2>1. /\ UNCHANGED <<ready, attached, client_session_ids, reverse, pc>>
        /\ listening' = listening \ {c}
        /\ \A d \in Clients : conn'[d] = "open" => conn[d] = "open"
    BY <1>0, <1>12 DEF ClientClosed, peerVars, bridgeVars, extensionVars
  <2> QED BY <1>0, <2>1
<1>13. CASE Close
  <2>1. /\ UNCHANGED <<bridges, attached>>
        /\ conn' = Closing(conn, Clients) /\ ready' = Closing(ready, {socket})
    BY <1>13 DEF Close, bridgeVars, extensionVars
  <2> QED BY <1>0, <1>1, <1>2, <1>f, <2>1
<1>14. ASSUME UNCHANGED <<ready, conn, bridges, attached>> PROVE BridgeInv'
  BY <1>14, <1>f
<1>15. ASSUME NEW p \in Peers, NEW r \in requests[p], PeerAnswer(p, r)
       PROVE  UNCHANGED <<ready, conn, bridges, attached>>
  BY <1>15 DEF PeerAnswer, peerVars
<1>16. ASSUME NEW c \in Clients, NEW m \in Commands, ClientSend(c, m)
       PROVE  UNCHANGED <<ready, conn, bridges, attached>>
  BY <1>16 DEF ClientSend, peerVars
<1>17. CASE ClientsServerClosed \/ ReverseServerClosed \/ UNCHANGED vars
  BY <1>14, <1>17 DEF ClientsServerClosed, ReverseServerClosed, vars, peerVars, bridgeVars,
     extensionVars
<1> QED
  BY <1>4, <1>5, <1>6, <1>7, <1>8, <1>9, <1>10, <1>11, <1>12, <1>13, <1>14, <1>15, <1>16,
     <1>17
  DEF Next

LEMMA BridgesStay == Spec => [](TypeInv /\ PeerInv /\ BridgeInv)
<1>1. Init => BridgeInv
  BY DEF Init, BridgeInv, BridgeEndsWithPeer, FanoutToAttached
<1> QED BY <1>1, NextBridgeInv, PeersStay, PTL DEF Spec

\* A client of a peer that is gone is not left open, nor does it listen any more.
THEOREM BridgesEnd == Spec => []BridgeEndsWithPeer
<1>1. BridgeInv => BridgeEndsWithPeer
  BY DEF BridgeInv
<1> QED BY <1>1, BridgesStay, PTL

\* No client is sent a copy of a root event for a session that is not attached.
THEOREM FanoutIsAttached == Spec => []FanoutToAttached
<1>1. BridgeInv => FanoutToAttached
  BY DEF BridgeInv
<1> QED BY <1>1, BridgesStay, PTL

-----------------------------------------------------------------------------
(* Commands and their answers.                                              *)

\* What has been answered, is pending or is buffered has been sent, each command once; a
\* buffer holds all that its client has sent, and only a bridged client has more.
TableInv ==
    /\ \A c \in Clients :
         /\ pc[c] # "bridged" => pending[c] = {} /\ answers[c] = <<>>
         /\ pc[c] = "none" => sent[c] = {} /\ queued[c] = <<>>
         /\ pc[c] = "waiting" =>
              /\ \A m \in Commands : m \in sent[c] <=> \E i \in DOMAIN queued[c] : queued[c][i] = m
              /\ \A i, j \in DOMAIN queued[c] : queued[c][i] = queued[c][j] => i = j
         /\ \A e \in pending[c] : e.command \in sent[c]
         /\ \A i \in DOMAIN answers[c] : answers[c][i].command \in sent[c]
         /\ \A e, f \in pending[c] : e.id = f.id \/ e.command = f.command => e = f
    /\ AnsweredOnce

\* What an extension executes was sent by a client bridged to it, and the pending entry of
\* its id, if there still is one, is of the same command.
RequestsMatch ==
    \A p \in Peers : \A r \in requests[p] :
        /\ reverse[r.client] = p
        /\ r.id < next_reverse_id[r.client]
        /\ \A e \in pending[r.client] : e.id = r.id => e.command = r.command

RequestInv == RequestsMatch /\ SoleClientOwnAnswers

\* A client is bridged to a peer that has connected, and nothing it sent is lost while both
\* are there.
AccountInv ==
    /\ \A c \in Clients : pc[c] = "bridged" => ready[reverse[c]] # "none"
    /\ CommandsAccountedFor

\* Forwarding commands not yet sent upstream, each once, keeps the pending entries of a
\* client apart.
LEMMA ForwardPending ==
    ASSUME TypeInv, TableInv, NEW C \in SUBSET Clients, NEW p \in Peers, NEW commands,
           Forward(C, p, commands), NEW c \in C, commands[c] \in Seq(Commands),
           \A i, j \in DOMAIN commands[c] : commands[c][i] = commands[c][j] => i = j,
           \A i \in DOMAIN commands[c], e \in pending[c] : e.command # commands[c][i]
    PROVE  /\ pending'[c] = pending[c] \cup Numbered(c, commands[c])
           /\ \A e \in pending'[c] :
                e \in pending[c] \/ \E i \in DOMAIN commands[c] : e.command = commands[c][i]
           /\ \A e, f \in pending'[c] : e.id = f.id \/ e.command = f.command => e = f
           /\ \A i \in DOMAIN commands[c] : \E e \in Numbered(c, commands[c]) :
                e.command = commands[c][i]
<1> DEFINE q == commands[c]  N == Numbered(c, q)
<1>1. pending'[c] = pending[c] \cup N
  BY DEF Forward
<1>2. /\ N \subseteq Entries
      /\ \A e \in N : next_reverse_id[c] <= e.id
      /\ \A e \in N : \E i \in DOMAIN q : e.command = q[i] /\ e.id = next_reverse_id[c] + i - 1
      /\ \A i \in DOMAIN q : \E e \in N : e.command = q[i]
  BY NumberedEntries
<1>3. /\ next_reverse_id[c] \in Nat /\ pending[c] \subseteq Entries
      /\ \A e \in pending[c] : e.id < next_reverse_id[c]
      /\ DOMAIN q \subseteq Nat
  BY DEF TypeInv, TableTypes
<1>4. \A e, f \in pending[c] : e.id = f.id \/ e.command = f.command => e = f
  BY DEF TableInv
<1>5. ASSUME NEW e \in pending[c], NEW f \in N PROVE e.id # f.id /\ e.command # f.command
  <2>1. e.id \in Nat /\ f.id \in Nat
    BY <1>2, <1>3 DEF Entries
  <2> QED BY <1>2, <1>3, <2>1
<1>6. ASSUME NEW e \in N, NEW f \in N, e.id = f.id \/ e.command = f.command PROVE e = f
  <2>1. PICK i \in DOMAIN q : e.command = q[i] /\ e.id = next_reverse_id[c] + i - 1
    BY <1>2
  <2>2. PICK j \in DOMAIN q : f.command = q[j] /\ f.id = next_reverse_id[c] + j - 1
    BY <1>2
  <2>3. i = j
    BY <1>3, <1>6, <2>1, <2>2
  <2> QED BY <1>2, <2>1, <2>2, <2>3 DEF Entries
<1>7. \A e, f \in pending'[c] : e.id = f.id \/ e.command = f.command => e = f
  BY <1>1, <1>4, <1>5, <1>6
<1> QED BY <1>1, <1>2, <1>7

LEMMA NextTableInv ==
    TypeInv /\ PeerInv /\ BridgeInv /\ TableInv /\ [Next]_vars => TableInv'
<1> SUFFICES ASSUME TypeInv, PeerInv, BridgeInv, TableInv, [Next]_vars PROVE TableInv'
    OBVIOUS
<1> DEFINE same == UNCHANGED <<queued, pending, sent, answers>>
<1>0. /\ pc \in [Clients -> {"none", "waiting", "bridged", "refused"}]
      /\ waiters \in SUBSET Clients /\ sent \in [Clients -> SUBSET Commands]
      /\ queued \in [Clients -> Seq(Commands)]
      /\ pending \in [Clients -> SUBSET Entries] /\ answers \in [Clients -> Seq(Answer)]
      /\ \A c \in Clients : c \in waiters <=> pc[c] = "waiting"
  BY DEF TypeInv, ClientTypes, TableTypes, PeerInv, WaitOnlyWithoutPeer
\* Steps that serve no command: a client may be refused, or begin to wait or to be served.
<1>f. ASSUME same,
             \A c \in Clients : \/ pc'[c] = pc[c] \/ (pc'[c] = "refused" /\ pc[c] = "waiting")
                                \/ (pc[c] = "none" /\ pc'[c] # "none")
      PROVE  TableInv'
  <2>1. AnsweredOnce'
    BY <1>f DEF TableInv, AnsweredOnce
  <2>2. ASSUME NEW c \in Clients
        PROVE  /\ pc'[c] # "bridged" => pending[c] = {} /\ answers[c] = <<>>
               /\ pc'[c] = "none" => sent[c] = {} /\ queued[c] = <<>>
    BY <1>f DEF TableInv
  <2>3. ASSUME NEW c \in Clients, pc'[c] = "waiting"
        PROVE  /\ \A m \in Commands : m \in sent[c] <=> \E i \in DOMAIN queued[c] : queued[c][i] = m
               /\ \A i, j \in DOMAIN queued[c] : queued[c][i] = queued[c][j] => i = j
    <3>1. CASE pc[c] = "waiting"
      BY <3>1 DEF TableInv
    <3>2. CASE pc[c] # "waiting"
      <4>1. sent[c] = {} /\ queued[c] = <<>>
        BY <1>f, <2>3, <3>2 DEF TableInv
      <4> QED BY <4>1
    <3> QED BY <3>1, <3>2
  <2> QED BY <1>f, <2>1, <2>2, <2>3 DEF TableInv
<1>1. ASSUME NEW p \in Peers,
             PeerConnect(p) \/ HelloTimeout(p) \/ RefuseHello(p) \/ PeerClosing(p)
      PROVE  TableInv'
  <2> same /\ pc' = pc
    BY <1>1 DEF PeerConnect, HelloTimeout, RefuseHello, PeerClosing, bridgeVars, clientVars
  <2> QED BY <1>f
<1>2. ASSUME NEW p \in Peers, AcceptHello(p) PROVE TableInv'
  <2>1. CASE /\ pc' = [c \in Clients |-> IF c \in waiters THEN "bridged" ELSE pc[c]]
             /\ Forward(waiters, p, queued)
             /\ queued' = [c \in Clients |-> IF c \in waiters THEN <<>> ELSE queued[c]]
             /\ UNCHANGED clientVars
    <3>1. ASSUME NEW c \in waiters
          PROVE  /\ c \in Clients /\ pc'[c] = "bridged" /\ answers[c] = <<>>
                 /\ \A e \in pending'[c] : e.command \in sent[c]
                 /\ \A e, f \in pending'[c] : e.id = f.id \/ e.command = f.command => e = f
      <4>1. c \in Clients /\ pc[c] = "waiting" /\ pc'[c] = "bridged"
        BY <1>0, <2>1
      <4>2. pending[c] = {} /\ answers[c] = <<>>
        BY <4>1 DEF TableInv
      <4>3. /\ queued[c] \in Seq(Commands)
            /\ \A i, j \in DOMAIN queued[c] : queued[c][i] = queued[c][j] => i = j
            /\ \A i \in DOMAIN queued[c] : queued[c][i] \in sent[c]
        BY <1>0, <4>1 DEF TableInv
      <4>4. /\ \A e \in pending'[c] :
                 e \in pending[c] \/ \E i \in DOMAIN queued[c] : e.command = queued[c][i]
            /\ \A e, f \in pending'[c] : e.id = f.id \/ e.command = f.command => e = f
        BY <1>0, <2>1, <4>2, <4>3, ForwardPending
      <4> QED BY <4>1, <4>2, <4>3, <4>4
    <3>2. ASSUME NEW c \in Clients, c \notin waiters
          PROVE  pc'[c] = pc[c] /\ pending'[c] = pending[c] /\ queued'[c] = queued[c]
      BY <2>1, <3>2 DEF Forward
    <3>3. UNCHANGED <<sent, answers>>
      BY <2>1 DEF clientVars
    <3>4. AnsweredOnce'
      BY <3>1, <3>2, <3>3 DEF TableInv, AnsweredOnce
    <3> QED BY <3>1, <3>2, <3>3, <3>4 DEF TableInv
  <2>2. CASE RejectWaiters(waiters, conn) /\ same
    <3>1. \A c \in Clients : pc'[c] = pc[c] \/ (pc'[c] = "refused" /\ pc[c] = "waiting")
      BY <1>0, <2>2 DEF RejectWaiters
    <3> QED BY <1>f, <2>2, <3>1
  <2> QED BY <1>2, <2>1, <2>2 DEF AcceptHello, clientVars
<1>3. ASSUME NEW p \in Peers, PeerClosed(p) \/ PeerError(p) PROVE TableInv'
  <2>1. same /\ \A c \in Clients : pc'[c] = pc[c] \/ (pc'[c] = "refused" /\ pc[c] = "waiting")
    BY <1>0, <1>3 DEF PeerClosed, PeerError, PeerEnds, RejectWaiters, bridgeVars, clientVars
  <2> QED BY <1>f, <2>1
<1>4. ASSUME NEW p \in Peers, NEW r \in requests[p], PeerAnswer(p, r) PROVE TableInv'
  <2>1. UNCHANGED <<queued, sent, pc>>
    BY <1>4 DEF PeerAnswer
  <2>2. ASSUME NEW c \in Clients
        PROVE  /\ pending'[c] \subseteq pending[c]
               /\ \/ answers'[c] = answers[c]
                  \/ \E e \in pending[c] : /\ e \notin pending'[c]
                       /\ answers'[c] = Append(answers[c], [command |-> e.command,
                                                            of |-> <<r.client, r.command>>])
    <3>1. pending'[c] = IF c \in ListenersOf(p) THEN Unanswered(c, r.id) ELSE pending[c]
      BY <1>4 DEF PeerAnswer
    <3>2. CASE c \in ListenersOf(p) /\ conn[c] = "open" /\ \E e \in pending[c] : e.id = r.id
      <4>1. PICK e \in pending[c] : e = (CHOOSE f \in pending[c] : f.id = r.id) /\ e.id = r.id
        BY <3>2
      <4>2. answers'[c] = Append(answers[c], [command |-> e.command,
                                              of |-> <<r.client, r.command>>])
        BY <1>4, <3>2, <4>1 DEF PeerAnswer
      <4> QED BY <3>1, <3>2, <4>1, <4>2 DEF Unanswered
    <3>3. CASE ~(c \in ListenersOf(p) /\ conn[c] = "open" /\ \E e \in pending[c] : e.id = r.id)
      <4>1. answers'[c] = answers[c]
        BY <1>4, <3>3 DEF PeerAnswer
      <4> QED BY <3>1, <4>1 DEF Unanswered
    <3> QED BY <3>2, <3>3
  <2>3. ASSUME NEW c \in Clients
        PROVE  /\ \A i, j \in DOMAIN answers'[c] :
                    answers'[c][i].command = answers'[c][j].command => i = j
               /\ \A i \in DOMAIN answers'[c], e \in pending'[c] :
                    e.command # answers'[c][i].command
               /\ \A i \in DOMAIN answers'[c] : answers'[c][i].command \in sent[c]
               /\ pending[c] = {} => answers'[c] = answers[c]
    <3>1. /\ \A i, j \in DOMAIN answers[c] :
               answers[c][i].command = answers[c][j].command => i = j
          /\ \A i \in DOMAIN answers[c], e \in pending[c] : e.command # answers[c][i].command
          /\ \A i \in DOMAIN answers[c] : answers[c][i].command \in sent[c]
          /\ \A e \in pending[c] : e.command \in sent[c]
          /\ \A e, f \in pending[c] : e.command = f.command => e = f
      BY DEF TableInv, AnsweredOnce
    <3>2. CASE answers'[c] = answers[c]
      BY <2>2, <3>1, <3>2
    <3>3. ASSUME NEW e \in pending[c], e \notin pending'[c],
                 answers'[c] = Append(answers[c], [command |-> e.command,
                                                   of |-> <<r.client, r.command>>])
          PROVE  /\ \A i, j \in DOMAIN answers'[c] :
                      answers'[c][i].command = answers'[c][j].command => i = j
                 /\ \A i \in DOMAIN answers'[c], f \in pending'[c] :
                      f.command # answers'[c][i].command
                 /\ \A i \in DOMAIN answers'[c] : answers'[c][i].command \in sent[c]
      <4> DEFINE n == Len(answers[c])
      <4>1. answers[c] \in Seq(Answer) /\ n \in Nat
        BY <1>0
      <4>2. /\ DOMAIN answers'[c] = 1 .. (n + 1) /\ DOMAIN answers[c] = 1 .. n
            /\ answers'[c][n + 1].command = e.command
            /\ \A i \in 1 .. n : answers'[c][i] = answers[c][i]
        BY <3>3, <4>1
      <4>3. \A i \in 1 .. (n + 1) : i # n + 1 => i \in 1 .. n
        BY <4>1
      <4> HIDE DEF n
      <4>4. \A f \in pending'[c] : f \in pending[c] /\ f.command # e.command
        BY <2>2, <3>1, <3>3
      <4> QED BY <3>1, <4>2, <4>3, <4>4
    <3> QED BY <2>2, <3>2, <3>3
  <2>4. AnsweredOnce'
    BY <2>3 DEF AnsweredOnce
  <2> QED BY <2>1, <2>2, <2>3, <2>4 DEF TableInv
<1>5. ASSUME NEW p \in Peers, NEW s \in Sessions, PeerAttached(p, s) \/ PeerDetached(p, s)
      PROVE  TableInv'
  <2> same /\ pc' = pc
    BY <1>5 DEF PeerAttached, PeerDetached, clientVars
  <2> QED BY <1>f
<1>6. ASSUME NEW c \in Clients, ClientConnect(c) PROVE TableInv'
  <2>1. pc[c] = "none" /\ same
        /\ (pc' = [pc EXCEPT ![c] = "bridged"] \/ pc' = [pc EXCEPT ![c] = "waiting"])
    BY <1>6 DEF ClientConnect, PeerInv, clientVars
  <2>2. \A d \in Clients : pc'[d] = pc[d] \/ (pc[d] = "none" /\ pc'[d] # "none")
    BY <1>0, <2>1
  <2> QED BY <1>f, <2>1, <2>2
<1>7. ASSUME NEW c \in Clients, WaitTimeout(c) PROVE TableInv'
  <2>1. same /\ \A d \in Clients : pc'[d] = pc[d] \/ (pc'[d] = "refused" /\ pc[d] = "waiting")
    BY <1>0, <1>7 DEF WaitTimeout, RejectWaiters, bridgeVars, clientVars
  <2> QED BY <1>f, <2>1
<1>8. ASSUME NEW c \in Clients, NEW m \in Commands, ClientSend(c, m) PROVE TableInv'
  <2>1. /\ m \notin sent[c] /\ sent' = [sent EXCEPT ![c] = @ \cup {m}]
        /\ UNCHANGED <<pc, answers>>
    BY <1>8 DEF ClientSend
  <2>2. /\ \A d \in Clients : d # c => sent'[d] = sent[d]
        /\ sent'[c] = sent[c] \cup {m}
    BY <1>0, <2>1
  <2>3. CASE pc[c] = "waiting" /\ ClientSendWhileWaiting(c, m) /\ UNCHANGED pending
    <3>1. /\ \A d \in Clients : d # c => queued'[d] = queued[d]
          /\ queued'[c] = Append(queued[c], m) /\ queued[c] \in Seq(Commands)
      BY <1>0, <2>3 DEF ClientSendWhileWaiting
    <3>2. /\ \A x \in Commands : x \in sent[c] <=> \E i \in DOMAIN queued[c] : queued[c][i] = x
          /\ \A i, j \in DOMAIN queued[c] : queued[c][i] = queued[c][j] => i = j
      BY <2>3 DEF TableInv
    <3>3. /\ \A x \in Commands : x \in sent'[c] <=> \E i \in DOMAIN queued'[c] : queued'[c][i] = x
          /\ \A i, j \in DOMAIN queued'[c] : queued'[c][i] = queued'[c][j] => i = j
      <4> DEFINE n == Len(queued[c])
      <4>1. n \in Nat /\ DOMAIN queued'[c] = 1 .. (n + 1) /\ DOMAIN queued[c] = 1 .. n
            /\ queued'[c][n + 1] = m /\ \A i \in 1 .. n : queued'[c][i] = queued[c][i]
        BY <3>1
      <4>2. /\ \A i \in 1 .. (n + 1) : i = n + 1 \/ i \in 1 .. n
            /\ \A i \in 1 .. n : i \in 1 .. (n + 1)
            /\ n + 1 \in 1 .. (n + 1)
        BY <4>1
      <4>3. \A i \in 1 .. n : queued[c][i] \in Commands /\ queued[c][i] # m
        BY <2>1, <3>1, <3>2, <4>1
      <4> HIDE DEF n
      <4>4. ASSUME NEW x \in Commands
            PROVE  x \in sent'[c] <=> \E i \in DOMAIN queued'[c] : queued'[c][i] = x
        <5>1. CASE x = m
          BY <2>2, <4>1, <4>2, <5>1
        <5>2. CASE x # m
          <6>1. x \in sent'[c] <=> \E i \in 1 .. n : queued[c][i] = x
            BY <2>2, <3>2, <4>1, <5>2
          <6> QED BY <4>1, <4>2, <5>2, <6>1
        <5> QED BY <5>1, <5>2
      <4>5. \A i, j \in DOMAIN queued'[c] : queued'[c][i] = queued'[c][j] => i = j
        BY <3>2, <4>1, <4>2, <4>3
      <4> QED BY <4>4, <4>5
    <3>4. AnsweredOnce'
      BY <2>1, <2>3 DEF TableInv, AnsweredOnce
    <3>5. ASSUME NEW d \in Clients
          PROVE  /\ pc[d] # "bridged" => pending[d] = {} /\ answers[d] = <<>>
                 /\ pc[d] = "none" => sent'[d] = {} /\ queued'[d] = <<>>
                 /\ \A e \in pending[d] : e.command \in sent'[d]
                 /\ \A i \in DOMAIN answers[d] : answers[d][i].command \in sent'[d]
                 /\ \A e, f \in pending[d] : e.id = f.id \/ e.command = f.command => e = f
      BY <2>2, <2>3, <3>1 DEF TableInv
    <3>6. ASSUME NEW d \in Clients, d # c, pc[d] = "waiting"
          PROVE  /\ \A x \in Commands :
                      x \in sent'[d] <=> \E i \in DOMAIN queued'[d] : queued'[d][i] = x
                 /\ \A i, j \in DOMAIN queued'[d] : queued'[d][i] = queued'[d][j] => i = j
      BY <2>2, <3>1, <3>6 DEF TableInv
    <3> QED BY <2>1, <2>3, <3>3, <3>4, <3>5, <3>6 DEF TableInv
  <2>4. CASE pc[c] = "bridged" /\ Forward({c}, reverse[c], [d \in {c} |-> <<m>>])
             /\ UNCHANGED queued
    <3> DEFINE q == [d \in {c} |-> <<m>>]
    <3>1. /\ q[c] \in Seq(Commands) /\ DOMAIN q[c] = {1} /\ q[c][1] = m
          /\ {c} \in SUBSET Clients /\ reverse[c] \in Peers
      BY <2>4 DEF TypeInv, ClientTypes
    <3>2. /\ \A e \in pending[c] : e.command # m
          /\ \A i \in DOMAIN answers[c] : answers[c][i].command # m
      BY <2>1 DEF TableInv
    <3>3. /\ \A e \in pending'[c] : e \in pending[c] \/ e.command = m
          /\ \A e, f \in pending'[c] : e.id = f.id \/ e.command = f.command => e = f
      <4>1. Forward({c}, reverse[c], q)
        BY <2>4
      <4> HIDE DEF q
      <4>2. /\ \A i, j \in DOMAIN q[c] : q[c][i] = q[c][j] => i = j
            /\ \A i \in DOMAIN q[c], e \in pending[c] : e.command # q[c][i]
        BY <3>1, <3>2
      <4>3. /\ \A e \in pending'[c] :
                 e \in pending[c] \/ \E i \in DOMAIN q[c] : e.command = q[c][i]
            /\ \A e, f \in pending'[c] : e.id = f.id \/ e.command = f.command => e = f
        <5> c \in {c}
          OBVIOUS
        <5> QED BY <3>1, <4>1, <4>2, ForwardPending
      <4> QED BY <3>1, <4>3
    <3>4. \A d \in Clients : d # c => pending'[d] = pending[d]
      BY <2>4 DEF Forward
    <3>5. AnsweredOnce'
      BY <2>1, <3>2, <3>3, <3>4 DEF TableInv, AnsweredOnce
    <3>6. \A d \in Clients : pc'[d] = "none" \/ pc'[d] = "waiting" => d # c
      BY <2>1, <2>4
    <3> QED BY <2>1, <2>2, <2>4, <3>3, <3>4, <3>5, <3>6 DEF TableInv
  <2> QED BY <1>8, <2>3, <2>4 DEF ClientSend
<1>9. ASSUME NEW c \in Clients, ClientClosed(c) PROVE TableInv'
  <2> same /\ pc' = pc
    BY <1>9 DEF ClientClosed, bridgeVars, clientVars
  <2> QED BY <1>f
<1>10. CASE Close \/ ClientsServerClosed \/ ReverseServerClosed \/ UNCHANGED vars
  <2> same /\ pc' = pc
    BY <1>10 DEF Close, ClientsServerClosed, ReverseServerClosed, vars, bridgeVars, clientVars
  <2> QED BY <1>f
<1> QED
  BY <1>1, <1>2, <1>3, <1>4, <1>5, <1>6, <1>7, <1>8, <1>9, <1>10 DEF Next

\* What forwarding hands to the extension: what it had, and, if its socket is open, the
\* commands of the forwarding clients under the ids of their pending entries.
LEMMA ForwardHandsOver ==
    ASSUME TypeInv, NEW C \in SUBSET Clients, NEW p \in Peers, NEW commands,
           Forward(C, p, commands)
    PROVE  /\ \A x \in Peers : requests[x] \subseteq requests'[x]
           /\ ready[p] = "open" =>
                \A c \in C : \A e \in Numbered(c, commands[c]) :
                   [id |-> e.id, client |-> c, command |-> e.command] \in requests'[p]
<1> DEFINE new(c) == {[id |-> e.id, client |-> c, command |-> e.command] :
                      e \in Numbered(c, commands[c])}
<1>1. requests \in [Peers -> SUBSET Request]
  BY DEF TypeInv, TableTypes
<1>2. requests' = [requests EXCEPT ![p] = IF ready[p] # "open" THEN @
                                          ELSE @ \cup UNION {new(c) : c \in C}]
  BY DEF Forward
<1>3. \A c \in C : \A e \in Numbered(c, commands[c]) :
        [id |-> e.id, client |-> c, command |-> e.command] \in new(c)
  OBVIOUS
<1> HIDE DEF new
<1> QED BY <1>1, <1>2, <1>3

LEMMA ForwardRequests ==
    ASSUME TypeInv, NEW C \in SUBSET Clients, NEW p \in Peers, NEW commands,
           Forward(C, p, commands), NEW x \in Peers, NEW r \in requests'[x], r \notin requests[x]
    PROVE  /\ x = p /\ r.client \in C
           /\ \E e \in Numbered(r.client, commands[r.client]) :
                r.id = e.id /\ r.command = e.command
<1> DEFINE new(c) == {[id |-> e.id, client |-> c, command |-> e.command] :
                      e \in Numbered(c, commands[c])}
<1>1. requests \in [Peers -> SUBSET Request]
  BY DEF TypeInv, TableTypes
<1>2. requests' = [requests EXCEPT ![p] = IF ready[p] # "open" THEN @
                                          ELSE @ \cup UNION {new(c) : c \in C}]
  BY DEF Forward
<1>3. \A c \in C : \A n \in new(c) :
        /\ n.client = c
        /\ \E e \in Numbered(c, commands[c]) : n.id = e.id /\ n.command = e.command
  OBVIOUS
<1> HIDE DEF new
<1>4. x = p /\ r \in UNION {new(c) : c \in C}
  BY <1>1, <1>2
<1>5. PICK c \in C : r \in new(c)
  BY <1>4
<1>6. /\ r.client = c
      /\ \E e \in Numbered(c, commands[c]) : r.id = e.id /\ r.command = e.command
  BY <1>3, <1>5
<1> QED BY <1>4, <1>6

\* The requests stay matched when clients that are, or become, bridged to p forward to it.
LEMMA ForwardMatched ==
    ASSUME TypeInv, RequestsMatch, NEW C \in SUBSET Clients, NEW p \in Peers, NEW commands,
           \A c \in C : commands[c] \in Seq(Commands), Forward(C, p, commands),
           \A c \in C : reverse'[c] = p,
           \A c \in Clients : reverse[c] # NoPeer => reverse'[c] = reverse[c]
    PROVE  RequestsMatch'
<1>1. /\ requests \in [Peers -> SUBSET Request] /\ next_reverse_id \in [Clients -> Nat]
      /\ pending \in [Clients -> SUBSET Entries]
      /\ \A c \in Clients : \A e \in pending[c] : e.id < next_reverse_id[c]
  BY DEF TypeInv, TableTypes
<1>2. ASSUME NEW c \in C
      PROVE  /\ Numbered(c, commands[c]) \subseteq Entries
             /\ \A e \in Numbered(c, commands[c]) :
                  /\ next_reverse_id[c] <= e.id /\ e.id < next_reverse_id'[c]
                  /\ \A f \in Numbered(c, commands[c]) : e.id = f.id => e.command = f.command
             /\ pending'[c] = pending[c] \cup Numbered(c, commands[c])
             /\ next_reverse_id[c] <= next_reverse_id'[c] /\ next_reverse_id'[c] \in Nat
  <2> DEFINE q == commands[c]
  <2>1. /\ Numbered(c, q) \subseteq Entries
        /\ \A e \in Numbered(c, q) :
             /\ next_reverse_id[c] <= e.id /\ e.id < next_reverse_id[c] + Len(q)
             /\ \E i \in DOMAIN q : e.command = q[i] /\ e.id = next_reverse_id[c] + i - 1
        /\ next_reverse_id[c] + Len(q) \in Nat
    BY NumberedEntries
  <2>2. /\ next_reverse_id'[c] = next_reverse_id[c] + Len(q)
        /\ pending'[c] = pending[c] \cup Numbered(c, q)
    BY DEF Forward
  <2>3. DOMAIN q \subseteq Nat /\ next_reverse_id[c] \in Nat /\ Len(q) \in Nat
    BY <1>1
  <2>4. ASSUME NEW e \in Numbered(c, q), NEW f \in Numbered(c, q), e.id = f.id
        PROVE  e.command = f.command
    <3>1. PICK i \in DOMAIN q : e.command = q[i] /\ e.id = next_reverse_id[c] + i - 1
      BY <2>1
    <3>2. PICK j \in DOMAIN q : f.command = q[j] /\ f.id = next_reverse_id[c] + j - 1
      BY <2>1
    <3>3. i \in Nat /\ j \in Nat /\ next_reverse_id[c] \in Nat
      BY <2>3
    <3>4. next_reverse_id[c] + i - 1 = next_reverse_id[c] + j - 1
      BY <2>4, <3>1, <3>2
    <3>5. i = j
      BY <3>3, <3>4
    <3> QED BY <3>1, <3>2, <3>5
  <2> QED BY <2>1, <2>2, <2>3, <2>4
<1>3. ASSUME NEW c \in Clients, c \notin C
      PROVE  pending'[c] = pending[c] /\ next_reverse_id'[c] = next_reverse_id[c]
  BY <1>3 DEF Forward
<1>4. ASSUME NEW x \in Peers, NEW r \in requests[x]
      PROVE  /\ reverse'[r.client] = x /\ r.id < next_reverse_id'[r.client]
             /\ \A e \in pending'[r.client] : e.id = r.id => e.command = r.command
  <2>1. r.client \in Clients /\ r.id \in Nat
    BY <1>1 DEF Request
  <2>2. /\ reverse[r.client] = x /\ r.id < next_reverse_id[r.client]
        /\ \A e \in pending[r.client] : e.id = r.id => e.command = r.command
    BY DEF RequestsMatch
  <2>3. reverse'[r.client] = x
    BY <2>1, <2>2, ConstantsAssumption
  <2>4. CASE r.client \in C
    <3>1. \A e \in Numbered(r.client, commands[r.client]) : e.id # r.id
      <4>1. \A e \in Numbered(r.client, commands[r.client]) :
              next_reverse_id[r.client] <= e.id /\ e.id \in Nat
        BY <1>2, <2>4 DEF Entries
      <4>2. next_reverse_id[r.client] \in Nat
        BY <1>1, <2>1
      <4> QED BY <2>1, <2>2, <4>1, <4>2
    <3>2. r.id < next_reverse_id'[r.client]
      BY <1>1, <1>2, <2>1, <2>2, <2>4
    <3> QED BY <1>2, <2>2, <2>3, <2>4, <3>1, <3>2
  <2>5. CASE r.client \notin C
    BY <1>3, <2>1, <2>2, <2>3, <2>5
  <2> QED BY <2>4, <2>5
<1>5. ASSUME NEW r, r.client \in C,
             \E e \in Numbered(r.client, commands[r.client]) :
               r.id = e.id /\ r.command = e.command
      PROVE  /\ r.id < next_reverse_id'[r.client]
             /\ \A e \in pending'[r.client] : e.id = r.id => e.command = r.command
  <2>1. PICK e \in Numbered(r.client, commands[r.client]) :
          r.id = e.id /\ r.command = e.command
    BY <1>5
  <2>2. \A f \in pending[r.client] : f.id # e.id
    <3>1. e.id \in Nat /\ next_reverse_id[r.client] <= e.id
      BY <1>2, <1>5, <2>1 DEF Entries
    <3>2. \A f \in pending[r.client] : f.id \in Nat /\ f.id < next_reverse_id[r.client]
      BY <1>1, <1>5 DEF Entries
    <3>3. next_reverse_id[r.client] \in Nat
      BY <1>1, <1>5
    <3> QED BY <3>1, <3>2, <3>3
  <2> QED BY <1>2, <1>5, <2>1, <2>2
<1>6. ASSUME NEW x \in Peers, NEW r \in requests'[x], r \notin requests[x]
      PROVE  /\ x = p /\ r.client \in C
             /\ \E e \in Numbered(r.client, commands[r.client]) :
                  r.id = e.id /\ r.command = e.command
  BY <1>6, ForwardRequests
<1>7. ASSUME NEW x \in Peers, NEW r \in requests'[x]
      PROVE  /\ reverse'[r.client] = x /\ r.id < next_reverse_id'[r.client]
             /\ \A e \in pending'[r.client] : e.id = r.id => e.command = r.command
  BY <1>4, <1>5, <1>6
<1> QED BY <1>7 DEF RequestsMatch

LEMMA NextRequestInv ==
    /\ TypeInv /\ PeerInv /\ BridgeInv /\ TableInv /\ RequestInv
    /\ [Next]_vars
    => RequestInv'
<1> SUFFICES ASSUME TypeInv, PeerInv, BridgeInv, TableInv, RequestInv, [Next]_vars
             PROVE  RequestInv'
    OBVIOUS
<1> DEFINE keeps == \A c \in Clients : reverse[c] # NoPeer => reverse'[c] = reverse[c]
           fewer == /\ \A x \in Peers : requests'[x] \subseteq requests[x]
                    /\ \A c \in Clients : pending'[c] \subseteq pending[c]
                    /\ UNCHANGED next_reverse_id
           same == UNCHANGED <<reverse, next_reverse_id, pending, requests, answers>>
<1>0. /\ requests \in [Peers -> SUBSET Request] /\ reverse \in [Clients -> Peers \cup {NoPeer}]
      /\ pc \in [Clients -> {"none", "waiting", "bridged", "refused"}]
      /\ pending \in [Clients -> SUBSET Entries] /\ answers \in [Clients -> Seq(Answer)]
      /\ waiters \in SUBSET Clients /\ queued \in [Clients -> Seq(Commands)]
      /\ \A c \in Clients : reverse[c] # NoPeer <=> pc[c] = "bridged"
      /\ \A c \in Clients : c \in waiters <=> pc[c] = "waiting"
  BY DEF TypeInv, TableTypes, ClientTypes, BridgeInv, PeerInv, WaitOnlyWithoutPeer
\* A bridged client keeps its peer, whose requests may only become fewer.
<1>f. ASSUME keeps, fewer PROVE RequestsMatch'
  <2>1. ASSUME NEW p \in Peers, NEW r \in requests'[p]
        PROVE  /\ reverse'[r.client] = p /\ r.id < next_reverse_id'[r.client]
               /\ \A e \in pending'[r.client] : e.id = r.id => e.command = r.command
    <3>1. r \in requests[p] /\ r.client \in Clients
      BY <1>0, <1>f, <2>1 DEF Request
    <3>2. /\ reverse[r.client] = p /\ r.id < next_reverse_id[r.client]
          /\ \A e \in pending[r.client] : e.id = r.id => e.command = r.command
      BY <3>1 DEF RequestInv, RequestsMatch
    <3> QED BY <1>f, <3>1, <3>2, ConstantsAssumption
  <2> QED BY <2>1 DEF RequestsMatch
\* No answer arrives: a client that has answers was alone before if it is alone now.
<1>g. ASSUME keeps, UNCHANGED answers PROVE SoleClientOwnAnswers'
  <2>1. ASSUME NEW c \in Clients, \A d \in Clients \ {c} : reverse'[d] # reverse'[c],
               NEW i \in DOMAIN answers[c]
        PROVE  answers[c][i].of = <<c, answers[c][i].command>>
    <3>1. reverse[c] # NoPeer
      <4>1. answers[c] # <<>>
        BY <2>1
      <4> QED BY <1>0, <4>1 DEF TableInv
    <3>2. \A d \in Clients \ {c} : reverse[d] # reverse[c]
      BY <1>g, <2>1, <3>1
    <3> QED BY <2>1, <3>2 DEF RequestInv, SoleClientOwnAnswers
  <2> QED BY <1>g, <2>1 DEF SoleClientOwnAnswers
<1>s. ASSUME same PROVE RequestInv'
  BY <1>f, <1>g, <1>s DEF RequestInv
<1>1. ASSUME NEW p \in Peers,
             PeerConnect(p) \/ HelloTimeout(p) \/ RefuseHello(p) \/ PeerClosing(p)
      PROVE  same
  BY <1>1 DEF PeerConnect, HelloTimeout, RefuseHello, PeerClosing, bridgeVars, extensionVars,
     clientVars
<1>2. ASSUME NEW p \in Peers, AcceptHello(p) PROVE RequestInv'
  <2>1. CASE /\ reverse' = [c \in Clients |-> IF c \in waiters THEN p ELSE reverse[c]]
             /\ Forward(waiters, p, queued) /\ UNCHANGED clientVars
    <3>1. keeps /\ UNCHANGED answers
      BY <1>0, <2>1 DEF clientVars
    <3>2. /\ \A c \in waiters : queued[c] \in Seq(Commands)
          /\ \A c \in waiters : reverse'[c] = p
      BY <1>0, <2>1
    <3>3. RequestsMatch'
      BY <1>0, <2>1, <3>1, <3>2, ForwardMatched DEF RequestInv
    <3> QED BY <1>g, <3>1, <3>3 DEF RequestInv
  <2>2. CASE same
    BY <1>s, <2>2
  <2> QED BY <1>2, <2>1, <2>2 DEF AcceptHello, clientVars
<1>3. ASSUME NEW p \in Peers, PeerClosed(p) \/ PeerError(p) PROVE RequestInv'
  <2>1. /\ UNCHANGED <<reverse, next_reverse_id, pending, answers>>
        /\ requests' = [requests EXCEPT ![p] = {}]
    BY <1>3 DEF PeerClosed, PeerError, PeerEnds, bridgeVars, clientVars
  <2>2. fewer /\ keeps
    BY <1>0, <2>1
  <2> QED BY <1>f, <1>g, <2>1, <2>2 DEF RequestInv
<1>4. ASSUME NEW p \in Peers, NEW r \in requests[p], PeerAnswer(p, r) PROVE RequestInv'
  <2>1. /\ UNCHANGED <<reverse, next_reverse_id>> /\ fewer
    <3>1. /\ requests' = [requests EXCEPT ![p] = @ \ {r}]
          /\ pending' = [c \in Clients |-> IF c \in ListenersOf(p) THEN Unanswered(c, r.id)
                                           ELSE pending[c]]
          /\ UNCHANGED <<reverse, next_reverse_id>>
      BY <1>4 DEF PeerAnswer
    <3> QED BY <1>0, <3>1 DEF Unanswered
  <2>2. RequestsMatch'
    BY <1>f, <2>1
  <2>3. ASSUME NEW c \in Clients, \A d \in Clients \ {c} : reverse'[d] # reverse'[c],
               NEW i \in DOMAIN answers'[c]
        PROVE  answers'[c][i].of = <<c, answers'[c][i].command>>
    <3>1. \A d \in Clients \ {c} : reverse[d] # reverse[c]
      BY <2>1, <2>3
    <3>2. \A j \in DOMAIN answers[c] : answers[c][j].of = <<c, answers[c][j].command>>
      BY <3>1 DEF RequestInv, SoleClientOwnAnswers
    <3>3. CASE c \in ListenersOf(p) /\ conn[c] = "open" /\ \E e \in pending[c] : e.id = r.id
      <4>1. PICK e \in pending[c] : e = (CHOOSE f \in pending[c] : f.id = r.id) /\ e.id = r.id
        BY <3>3
      <4>2. answers'[c] = Append(answers[c], [command |-> e.command,
                                              of |-> <<r.client, r.command>>])
        BY <1>4, <3>3, <4>1 DEF PeerAnswer
      <4>3. r.client = c /\ r.command = e.command
        <5>1. r.client \in Clients /\ reverse[r.client] = p
          BY <1>0 DEF RequestInv, RequestsMatch, Request
        <5>2. reverse[c] = p
          BY <3>3 DEF ListenersOf
        <5>3. r.client = c
          BY <3>1, <5>1, <5>2
        <5> QED BY <4>1, <5>3 DEF RequestInv, RequestsMatch
      <4>4. /\ answers[c] \in Seq(Answer)
            /\ answers'[c] = Append(answers[c], [command |-> e.command, of |-> <<c, e.command>>])
        BY <1>0, <4>2, <4>3
      <4>5. CASE i \in DOMAIN answers[c]
        <5>1. answers'[c][i] = answers[c][i]
          BY <4>4, <4>5
        <5> QED BY <3>2, <4>5, <5>1
      <4>6. CASE i \notin DOMAIN answers[c]
        <5>1. i = Len(answers[c]) + 1
          BY <2>3, <4>4, <4>6
        <5>2. answers'[c][i] = [command |-> e.command, of |-> <<c, e.command>>]
          BY <4>4, <5>1
        <5> QED BY <5>2
      <4> QED BY <4>5, <4>6
    <3>4. CASE ~(c \in ListenersOf(p) /\ conn[c] = "open" /\ \E e \in pending[c] : e.id = r.id)
      <4>1. answers'[c] = answers[c]
        BY <1>4, <3>4 DEF PeerAnswer
      <4> QED BY <2>3, <3>2, <4>1
    <3> QED BY <3>3, <3>4
  <2> QED BY <2>2, <2>3 DEF RequestInv, SoleClientOwnAnswers
<1>5. ASSUME NEW p \in Peers, NEW s \in Sessions, PeerAttached(p, s) \/ PeerDetached(p, s)
      PROVE  same
  BY <1>5 DEF PeerAttached, PeerDetached, clientVars
<1>6. ASSUME NEW c \in Clients, ClientConnect(c) PROVE RequestInv'
  <2>1. reverse[c] = NoPeer
    BY <1>0, <1>6 DEF ClientConnect, PeerInv
  <2>2. /\ UNCHANGED <<next_reverse_id, pending, requests, answers>>
        /\ (reverse' = [reverse EXCEPT ![c] = socket] \/ UNCHANGED reverse)
    BY <1>6 DEF ClientConnect, extensionVars, clientVars
  <2>3. keeps /\ fewer
    BY <1>0, <2>1, <2>2
  <2> QED BY <1>f, <1>g, <2>2, <2>3 DEF RequestInv
<1>7. ASSUME NEW c \in Clients, WaitTimeout(c) \/ ClientClosed(c) PROVE same
  BY <1>7 DEF WaitTimeout, ClientClosed, bridgeVars, extensionVars, clientVars
<1>8. ASSUME NEW c \in Clients, NEW m \in Commands, ClientSend(c, m) PROVE RequestInv'
  <2>1. UNCHANGED <<reverse, answers>>
    BY <1>8 DEF ClientSend
  <2>2. CASE UNCHANGED <<next_reverse_id, pending, requests>>
    BY <1>s, <2>1, <2>2
  <2>3. CASE pc[c] = "bridged" /\ Forward({c}, reverse[c], [d \in {c} |-> <<m>>])
    <3> DEFINE q == [d \in {c} |-> <<m>>]
    <3>1. /\ {c} \in SUBSET Clients /\ reverse[c] \in Peers
          /\ \A d \in {c} : q[d] \in Seq(Commands)
          /\ \A d \in {c} : reverse'[d] = reverse[c]
          /\ Forward({c}, reverse[c], q) /\ keeps
      BY <1>0, <2>1, <2>3
    <3> HIDE DEF q
    <3>2. RequestsMatch'
      BY <3>1, ForwardMatched DEF RequestInv
    <3> QED BY <1>g, <2>1, <3>1, <3>2 DEF RequestInv
  <2> QED BY <1>8, <2>2, <2>3 DEF ClientSend
<1>9. CASE Close \/ ClientsServerClosed \/ ReverseServerClosed \/ UNCHANGED vars
  <2> same
    BY <1>9 DEF Close, ClientsServerClosed, ReverseServerClosed, vars, bridgeVars, extensionVars,
       clientVars
  <2> QED BY <1>s
<1> QED
  BY <1>s, <1>1, <1>2, <1>3, <1>4, <1>5, <1>6, <1>7, <1>8, <1>9 DEF Next

\* All that the clients in C have sent is in their commands, answered, or executed by p.
Covers(C, p, commands) ==
    \A c \in C :
        /\ commands[c] \in Seq(Commands)
        /\ \A m \in sent'[c] :
             \/ \E i \in DOMAIN commands[c] : commands[c][i] = m
             \/ \E i \in DOMAIN answers[c] : answers[c][i].command = m
             \/ \E e \in pending[c] :
                  /\ e.command = m
                  /\ [id |-> e.id, client |-> c, command |-> m] \in requests[p]

\* The clients in C forward to p's open socket what p is to execute; nobody else moves.
ForwardsAll(C, p, commands) ==
    /\ Forward(C, p, commands) /\ ready[p] = "open" /\ Covers(C, p, commands)
    /\ UNCHANGED answers /\ UNCHANGED conn
    /\ \A c \in Clients \ C : pc'[c] = pc[c] /\ reverse'[c] = reverse[c] /\ sent'[c] = sent[c]
    /\ \A c \in C : reverse'[c] = p
    /\ listening' \subseteq listening \cup C
    /\ \A x \in Peers : /\ ready'[x] = "open" => ready[x] = "open"
                        /\ ready'[x] = "none" => ready[x] = "none"

LEMMA NextAccountInv ==
    /\ TypeInv /\ PeerInv /\ BridgeInv /\ TableInv /\ AccountInv
    /\ [Next]_vars
    => AccountInv'
<1> SUFFICES ASSUME TypeInv, PeerInv, BridgeInv, TableInv, AccountInv, [Next]_vars
             PROVE  AccountInv'
    OBVIOUS
<1> DEFINE Served(c) == c \in listening /\ conn[c] = "open" /\ ready[reverse[c]] = "open"
           tables == UNCHANGED <<pending, requests, sent, answers>>
<1>0. /\ ready \in [Peers -> PeerStates] /\ conn \in [Clients -> ClientStates]
      /\ pc \in [Clients -> {"none", "waiting", "bridged", "refused"}]
      /\ reverse \in [Clients -> Peers \cup {NoPeer}]
      /\ waiters \in SUBSET Clients /\ listening \in SUBSET Clients
      /\ socket \in Peers \cup {NoPeer}
      /\ sent \in [Clients -> SUBSET Commands] /\ answers \in [Clients -> Seq(Answer)]
      /\ requests \in [Peers -> SUBSET Request] /\ pending \in [Clients -> SUBSET Entries]
      /\ queued \in [Clients -> Seq(Commands)]
      /\ \A c \in Clients : c \in waiters <=> pc[c] = "waiting"
      /\ \A c \in Clients : /\ reverse[c] # NoPeer <=> pc[c] = "bridged"
                            /\ c \in listening => pc[c] = "bridged"
  BY DEF TypeInv, PeerTypes, ClientTypes, TableTypes, PeerInv, WaitOnlyWithoutPeer, BridgeInv
<1>1. \A f \in [Clients -> ClientStates] : \A G :
        /\ Closing(f, G) \in [Clients -> ClientStates]
        /\ \A x \in Clients : Closing(f, G)[x] = "open" => f[x] = "open"
  BY ClosingClients
<1>c. \A G : \A x \in Clients : Closing(conn, G)[x] = "open" => conn[x] = "open"
  BY <1>0, <1>1
<1>2. \A G : \A x \in Peers : /\ Closing(ready, G)[x] = "open" => ready[x] = "open"
                              /\ Closing(ready, G)[x] = "none" => ready[x] = "none"
  <2> SUFFICES ASSUME NEW G, NEW x \in Peers
               PROVE  /\ Closing(ready, G)[x] = "open" => ready[x] = "open"
                      /\ Closing(ready, G)[x] = "none" => ready[x] = "none"
    OBVIOUS
  <2>1. /\ ready[x] # "open" \/ x \notin G => Closing(ready, G)[x] = ready[x]
        /\ ready[x] = "open" /\ x \in G => Closing(ready, G)[x] = "closing"
    BY <1>0, ClosingPeers
  <2> QED BY <2>1
<1>3. ASSUME NEW c \in Clients, Served(c), NEW m \in sent[c]
      PROVE  \/ \E i \in DOMAIN answers[c] : answers[c][i].command = m
             \/ \E e \in pending[c] :
                  /\ e.command = m
                  /\ [id |-> e.id, client |-> c, command |-> m] \in requests[reverse[c]]
  BY <1>3 DEF AccountInv, CommandsAccountedFor
\* Steps that begin no bridge: who is served now was served, and its tables stay.
<1>f. ASSUME UNCHANGED <<reverse, sent, answers, pending>>,
             \A c \in Clients : pc'[c] = "bridged" => pc[c] = "bridged",
             \A c \in Clients : c \in listening' /\ conn'[c] = "open" =>
                                  c \in listening /\ conn[c] = "open",
             listening' \subseteq Clients,
             \A x \in Peers : /\ ready'[x] = "open" => ready[x] = "open" \/ ready[x] = "none"
                              /\ ready'[x] = "none" => ready[x] = "none",
             \A x \in Peers : requests'[x] = requests[x] \/ ready'[x] # "open"
      PROVE  AccountInv'
  <2>1. ASSUME NEW c \in Clients, pc'[c] = "bridged"
        PROVE  ready'[reverse'[c]] # "none"
    <3>1. pc[c] = "bridged" /\ reverse[c] \in Peers /\ reverse'[c] = reverse[c]
      BY <1>0, <1>f, <2>1
    <3> QED BY <1>f, <3>1 DEF AccountInv
  <2>2. ASSUME NEW c \in listening', conn'[c] = "open", ready'[reverse'[c]] = "open"
        PROVE  c \in Clients /\ Served(c) /\ reverse'[c] = reverse[c]
               /\ requests'[reverse[c]] = requests[reverse[c]]
    <3>1. c \in Clients /\ c \in listening /\ conn[c] = "open" /\ reverse'[c] = reverse[c]
      BY <1>f, <2>2
    <3>2. reverse[c] \in Peers /\ ready[reverse[c]] # "none"
      BY <1>0, <3>1 DEF AccountInv
    <3> QED BY <1>f, <2>2, <3>1, <3>2
  <2>3. CommandsAccountedFor'
    <3> SUFFICES ASSUME NEW c \in listening', conn'[c] = "open", ready'[reverse'[c]] = "open",
                        NEW m \in sent'[c]
                 PROVE  \/ \E i \in DOMAIN answers'[c] : answers'[c][i].command = m
                        \/ \E e \in pending'[c] :
                             /\ e.command = m
                             /\ [id |-> e.id, client |-> c, command |-> m]
                                  \in requests'[reverse'[c]]
      BY DEF CommandsAccountedFor
    <3>1. c \in Clients /\ Served(c) /\ reverse'[c] = reverse[c] /\ m \in sent[c]
          /\ requests'[reverse[c]] = requests[reverse[c]]
      BY <1>f, <2>2
    <3> QED BY <1>3, <1>f, <3>1
  <2> QED BY <2>1, <2>3 DEF AccountInv
\* What forwarding does for those who forward and for those who do not.
<1>g. ASSUME NEW C \in SUBSET Clients, NEW p \in Peers, NEW commands,
             ForwardsAll(C, p, commands)
      PROVE  AccountInv'
  <2>1. ASSUME NEW c \in Clients, pc'[c] = "bridged" PROVE ready'[reverse'[c]] # "none"
    <3>1. CASE c \in C
      <4>1. reverse'[c] = p /\ ready[p] # "none"
        BY <1>g, <3>1 DEF ForwardsAll, Covers
      <4> QED BY <1>g, <4>1 DEF ForwardsAll, Covers
    <3>2. CASE c \notin C
      <4>1. pc[c] = "bridged" /\ reverse'[c] = reverse[c]
        BY <1>g, <2>1, <3>2 DEF ForwardsAll, Covers
      <4>2. reverse[c] \in Peers /\ ready[reverse[c]] # "none"
        BY <1>0, <4>1 DEF AccountInv
      <4> QED BY <1>g, <4>1, <4>2 DEF ForwardsAll, Covers
    <3> QED BY <3>1, <3>2
  <2>2. /\ \A x \in Peers : requests[x] \subseteq requests'[x]
        /\ \A c \in C : \A e \in Numbered(c, commands[c]) :
             [id |-> e.id, client |-> c, command |-> e.command] \in requests'[p]
    BY <1>g, ForwardHandsOver DEF ForwardsAll, Covers
  <2>3. ASSUME NEW c \in C, NEW m \in sent'[c]
        PROVE  \/ \E i \in DOMAIN answers[c] : answers[c][i].command = m
               \/ \E e \in pending'[c] :
                    /\ e.command = m
                    /\ [id |-> e.id, client |-> c, command |-> m] \in requests'[p]
    <3>1. /\ pending'[c] = pending[c] \cup Numbered(c, commands[c])
          /\ \A i \in DOMAIN commands[c] :
               \E e \in Numbered(c, commands[c]) : e.command = commands[c][i]
      <4>1. \A i \in DOMAIN commands[c] :
              \E e \in Numbered(c, commands[c]) : e.command = commands[c][i]
        BY <1>g, NumberedEntries DEF ForwardsAll, Covers
      <4> QED BY <1>g, <4>1 DEF ForwardsAll, Covers, Forward
    <3>2. CASE \E i \in DOMAIN commands[c] : commands[c][i] = m
      BY <2>2, <3>1, <3>2
    <3>3. CASE \E i \in DOMAIN answers[c] : answers[c][i].command = m
      BY <3>3
    <3>4. CASE \E e \in pending[c] :
                 /\ e.command = m
                 /\ [id |-> e.id, client |-> c, command |-> m] \in requests[p]
      BY <2>2, <3>1, <3>4
    <3> QED BY <1>g, <3>2, <3>3, <3>4 DEF ForwardsAll, Covers
  <2>4. ASSUME NEW c \in Clients \ C, c \in listening', conn'[c] = "open",
               ready'[reverse'[c]] = "open", NEW m \in sent'[c]
        PROVE  \/ \E i \in DOMAIN answers[c] : answers[c][i].command = m
               \/ \E e \in pending'[c] :
                    /\ e.command = m
                    /\ [id |-> e.id, client |-> c, command |-> m] \in requests'[reverse'[c]]
    <3>1. c \in listening /\ pending'[c] = pending[c] /\ reverse'[c] = reverse[c]
          /\ m \in sent[c] /\ conn[c] = "open"
      BY <1>g, <2>4 DEF ForwardsAll, Covers, Forward
    <3>2. reverse[c] \in Peers
      BY <1>0, <3>1
    <3>3. Served(c)
      BY <1>g, <2>4, <3>1, <3>2 DEF ForwardsAll, Covers
    <3> QED BY <1>3, <2>2, <3>1, <3>2, <3>3
  <2>5. CommandsAccountedFor'
    <3> SUFFICES ASSUME NEW c \in listening', conn'[c] = "open", ready'[reverse'[c]] = "open",
                        NEW m \in sent'[c]
                 PROVE  \/ \E i \in DOMAIN answers'[c] : answers'[c][i].command = m
                        \/ \E e \in pending'[c] :
                             /\ e.command = m
                             /\ [id |-> e.id, client |-> c, command |-> m]
                                  \in requests'[reverse'[c]]
      BY DEF CommandsAccountedFor
    <3>1. c \in Clients
      BY <1>0, <1>g DEF ForwardsAll, Covers
    <3>2. CASE c \in C
      BY <1>g, <2>3, <3>2 DEF ForwardsAll, Covers
    <3>3. CASE c \notin C
      BY <1>g, <2>4, <3>1, <3>3 DEF ForwardsAll, Covers
    <3> QED BY <3>2, <3>3
  <2> QED BY <2>1, <2>5 DEF AccountInv
<1>4. ASSUME NEW p \in Peers, PeerConnect(p) PROVE AccountInv'
  <2>1. tables /\ UNCHANGED <<reverse, pc, conn, listening>>
    BY <1>4 DEF PeerConnect, bridgeVars, extensionVars, clientVars
  <2>2. \A x \in Peers : /\ ready'[x] = "open" => ready[x] = "open" \/ ready[x] = "none"
                         /\ ready'[x] = "none" => ready[x] = "none"
    BY <1>0, <1>4 DEF PeerConnect
  <2> QED BY <1>0, <1>f, <2>1, <2>2
<1>5. ASSUME NEW p \in Peers, HelloTimeout(p) \/ RefuseHello(p) \/ PeerClosing(p)
      PROVE  AccountInv'
  <2>1. tables /\ UNCHANGED <<reverse, pc, conn, listening>> /\ ready' = Closing(ready, {p})
    BY <1>5 DEF HelloTimeout, RefuseHello, PeerClosing, bridgeVars, extensionVars, clientVars
  <2> QED BY <1>0, <1>2, <1>f, <2>1
<1>6. ASSUME NEW p \in Peers, AcceptHello(p) PROVE AccountInv'
  <2>1. /\ ready' = Closing(ready, Replaced(p)) /\ UNCHANGED <<sent, answers>>
    BY <1>6 DEF AcceptHello, clientVars
  <2>2. CASE /\ IsOpenSocket(p)
             /\ pc' = [c \in Clients |-> IF c \in waiters THEN "bridged" ELSE pc[c]]
             /\ reverse' = [c \in Clients |-> IF c \in waiters THEN p ELSE reverse[c]]
             /\ listening' = listening \cup waiters
             /\ Forward(waiters, p, queued) /\ UNCHANGED conn
    <3>1. \A c \in waiters : /\ queued[c] \in Seq(Commands)
                             /\ \A m \in sent[c] : \E i \in DOMAIN queued[c] : queued[c][i] = m
      BY <1>0 DEF TableInv
    <3>2. /\ ready[p] = "open"
          /\ \A c \in Clients \ waiters : pc'[c] = pc[c] /\ reverse'[c] = reverse[c]
                                          /\ sent'[c] = sent[c]
          /\ \A c \in waiters : reverse'[c] = p /\ sent'[c] = sent[c]
      BY <1>0, <2>1, <2>2 DEF IsOpenSocket
    <3>3. \A x \in Peers : /\ ready'[x] = "open" => ready[x] = "open"
                           /\ ready'[x] = "none" => ready[x] = "none"
      BY <1>2, <2>1
    <3>4. Covers(waiters, p, queued)
      BY <3>1, <3>2 DEF Covers
    <3>5. waiters \in SUBSET Clients /\ Forward(waiters, p, queued)
          /\ UNCHANGED answers /\ UNCHANGED conn
          /\ listening' \subseteq listening \cup waiters
      BY <1>0, <2>1, <2>2
    <3>6. \A c \in waiters : reverse'[c] = p
      BY <3>2
    <3>7. ForwardsAll(waiters, p, queued)
      BY <3>2, <3>3, <3>4, <3>5, <3>6 DEF ForwardsAll
    <3> QED BY <1>g, <3>5, <3>7
  <2>3. CASE /\ RejectWaiters(waiters, conn)
             /\ UNCHANGED <<reverse, listening, pending, requests>>
    <3>1. \A c \in Clients : pc'[c] = "bridged" => pc[c] = "bridged"
      BY <1>0, <2>3 DEF RejectWaiters
    <3>2. \A c \in Clients : conn'[c] = "open" => conn[c] = "open"
      BY <1>c, <2>3 DEF RejectWaiters
    <3>3. \A x \in Peers : /\ ready'[x] = "open" => ready[x] = "open"
                           /\ ready'[x] = "none" => ready[x] = "none"
      BY <1>2, <2>1
    <3> QED BY <1>0, <1>f, <2>1, <2>3, <3>1, <3>2, <3>3
  <2> QED BY <1>6, <2>2, <2>3 DEF AcceptHello
<1>7. ASSUME NEW p \in Peers, PeerClosed(p) \/ PeerError(p) PROVE AccountInv'
  <2>1. /\ ready' = [ready EXCEPT ![p] = "closed"] \/ ready' = [ready EXCEPT ![p] = "errored"]
        /\ PeerEnds(p)
    BY <1>7 DEF PeerClosed, PeerError
  <2>2. /\ UNCHANGED <<reverse, sent, answers, pending>>
        /\ requests' = [requests EXCEPT ![p] = {}] /\ listening' \subseteq listening
    BY <2>1 DEF PeerEnds, bridgeVars, clientVars
  <2>3. \A x \in Peers : /\ ready'[x] = "open" => x # p /\ ready[x] = "open"
                         /\ ready'[x] = "none" => ready[x] = "none"
                         /\ requests'[x] = requests[x] \/ ready'[x] # "open"
    BY <1>0, <2>1, <2>2
  <2>4. \A c \in Clients : /\ pc'[c] = "bridged" => pc[c] = "bridged"
                           /\ conn'[c] = "open" => conn[c] = "open"
    <3>1. /\ Closing(conn, BridgedTo(p)) \in [Clients -> ClientStates]
          /\ \A c \in Clients : Closing(conn, BridgedTo(p))[c] = "open" => conn[c] = "open"
      BY <1>0, <1>1
    <3>2. CASE RejectWaiters(waiters, Closing(conn, BridgedTo(p)))
      <4>1. conn' = Closing(Closing(conn, BridgedTo(p)), waiters)
        BY <3>2 DEF RejectWaiters
      <4>2. \A c \in Clients : pc'[c] = "bridged" => pc[c] = "bridged"
        BY <1>0, <3>2 DEF RejectWaiters
      <4>3. \A c \in Clients :
              conn'[c] = "open" => Closing(conn, BridgedTo(p))[c] = "open"
        BY <1>1, <3>1, <4>1
      <4> QED BY <3>1, <4>2, <4>3
    <3>3. CASE conn' = Closing(conn, BridgedTo(p)) /\ UNCHANGED pc
      BY <3>1, <3>3
    <3> QED BY <2>1, <3>2, <3>3 DEF PeerEnds
  <2> QED BY <1>0, <1>f, <2>2, <2>3, <2>4
<1>8. ASSUME NEW p \in Peers, NEW r \in requests[p], PeerAnswer(p, r) PROVE AccountInv'
  <2>1. /\ UNCHANGED <<ready, conn, pc, reverse, listening, sent>>
        /\ requests' = [requests EXCEPT ![p] = @ \ {r}]
    BY <1>8 DEF PeerAnswer, peerVars
  <2>2. ASSUME NEW c \in listening, conn[c] = "open", ready[reverse[c]] = "open",
               NEW m \in sent[c]
        PROVE  \/ \E i \in DOMAIN answers'[c] : answers'[c][i].command = m
               \/ \E e \in pending'[c] :
                    /\ e.command = m
                    /\ [id |-> e.id, client |-> c, command |-> m] \in requests'[reverse[c]]
    <3>1. c \in Clients /\ reverse[c] \in Peers /\ answers[c] \in Seq(Answer)
      BY <1>0
    <3>2. pending'[c] = IF c \in ListenersOf(p) THEN Unanswered(c, r.id) ELSE pending[c]
      BY <1>8, <3>1 DEF PeerAnswer
    <3>3. c \in ListenersOf(p) <=> reverse[c] = p
      BY DEF ListenersOf
    <3>4. \/ answers'[c] = answers[c]
          \/ \E a : answers'[c] = Append(answers[c], a)
      BY <1>8, <3>1 DEF PeerAnswer
    <3>5. \A i \in DOMAIN answers[c] : i \in DOMAIN answers'[c] /\ answers'[c][i] = answers[c][i]
      <4>1. CASE answers'[c] = answers[c]
        BY <4>1
      <4>2. ASSUME NEW a, answers'[c] = Append(answers[c], a)
            PROVE \A i \in DOMAIN answers[c] :
                    i \in DOMAIN answers'[c] /\ answers'[c][i] = answers[c][i]
        BY <3>1, <4>2
      <4> QED BY <3>4, <4>1, <4>2
    <3>6. CASE \E i \in DOMAIN answers[c] : answers[c][i].command = m
      BY <3>5, <3>6
    <3>7. ASSUME NEW e \in pending[c], e.command = m,
                 [id |-> e.id, client |-> c, command |-> m] \in requests[reverse[c]]
          PROVE  \/ \E i \in DOMAIN answers'[c] : answers'[c][i].command = m
                 \/ \E f \in pending'[c] :
                      /\ f.command = m
                      /\ [id |-> f.id, client |-> c, command |-> m] \in requests'[reverse[c]]
      <4>1. CASE reverse[c] = p /\ e.id = r.id
        <5>1. (CHOOSE f \in pending[c] : f.id = r.id) = e
          BY <3>1, <4>1 DEF TableInv
        <5>2. answers'[c] = Append(answers[c], [command |-> m, of |-> <<r.client, r.command>>])
          BY <1>8, <2>2, <3>1, <3>3, <3>7, <4>1, <5>1 DEF PeerAnswer
        <5> DEFINE n == Len(answers[c]) + 1
        <5>3. n \in DOMAIN answers'[c]
              /\ answers'[c][n] = [command |-> m, of |-> <<r.client, r.command>>]
          BY <3>1, <5>2
        <5> QED BY <5>3
      <4>2. CASE reverse[c] # p
        BY <1>0, <2>1, <3>1, <3>2, <3>3, <3>7, <4>2
      <4>3. CASE reverse[c] = p /\ e.id # r.id
        <5>1. e \in pending'[c]
          BY <3>2, <4>3 DEF Unanswered
        <5>2. requests'[p] = requests[p] \ {r}
          BY <1>0, <2>1
        <5>3. [id |-> e.id, client |-> c, command |-> m] # r
          BY <4>3
        <5> QED BY <3>7, <4>3, <5>1, <5>2, <5>3
      <4> QED BY <4>1, <4>2, <4>3
    <3>8. Served(c)
      BY <2>2
    <3> QED BY <1>3, <3>1, <3>6, <3>7, <3>8
  <2>3. CommandsAccountedFor'
    BY <2>1, <2>2 DEF CommandsAccountedFor
  <2> QED BY <2>1, <2>3 DEF AccountInv
<1>9. ASSUME NEW p \in Peers, NEW s \in Sessions, PeerAttached(p, s) \/ PeerDetached(p, s)
      PROVE  tables /\ UNCHANGED <<ready, reverse, pc, conn, listening>>
  BY <1>9 DEF PeerAttached, PeerDetached, peerVars, clientVars
<1>10. ASSUME NEW c \in Clients, ClientConnect(c) PROVE AccountInv'
  <2>1. /\ pc[c] = "none" /\ conn' = [conn EXCEPT ![c] = "open"]
        /\ tables /\ UNCHANGED ready
    BY <1>10 DEF ClientConnect, PeerInv, peerVars, extensionVars, clientVars, bridgeVars
  <2>2. sent[c] = {}
    BY <2>1 DEF TableInv
  <2>3. CASE /\ IsOpenSocket(socket) /\ pc' = [pc EXCEPT ![c] = "bridged"]
             /\ reverse' = [reverse EXCEPT ![c] = socket] /\ listening' = listening \cup {c}
    <3>1. socket \in Peers /\ ready[socket] = "open"
      BY <1>0, <2>3 DEF IsOpenSocket
    <3>2. \A d \in Clients : d # c => /\ pc'[d] = pc[d] /\ reverse'[d] = reverse[d]
                                      /\ conn'[d] = conn[d]
      BY <1>0, <2>1, <2>3
    <3>3. reverse'[c] = socket
      BY <1>0, <2>3
    <3>4. \A d \in Clients : pc'[d] = "bridged" => ready'[reverse'[d]] # "none"
      BY <2>1, <3>1, <3>2, <3>3 DEF AccountInv
    <3>5. CommandsAccountedFor'
      <4> SUFFICES ASSUME NEW d \in listening', conn'[d] = "open", ready'[reverse'[d]] = "open",
                          NEW m \in sent'[d]
                   PROVE  \/ \E i \in DOMAIN answers'[d] : answers'[d][i].command = m
                          \/ \E e \in pending'[d] :
                               /\ e.command = m
                               /\ [id |-> e.id, client |-> d, command |-> m]
                                    \in requests'[reverse'[d]]
        BY DEF CommandsAccountedFor
      <4>1. d \in listening /\ d \in Clients /\ d # c
        BY <1>0, <2>1, <2>2, <2>3
      <4>2. Served(d)
        BY <2>1, <3>2, <4>1
      <4> QED BY <1>3, <2>1, <3>2, <4>1, <4>2
    <3> QED BY <3>4, <3>5 DEF AccountInv
  <2>4. CASE pc' = [pc EXCEPT ![c] = "waiting"] /\ UNCHANGED <<reverse, listening>>
    <3>1. \A d \in Clients : pc'[d] = "bridged" => pc[d] = "bridged"
      BY <1>0, <2>4
    <3>2. c \notin listening
      BY <1>0, <2>1
    <3>3. \A d \in Clients : d \in listening' /\ conn'[d] = "open" =>
                               d \in listening /\ conn[d] = "open"
      BY <1>0, <2>1, <2>4, <3>2
    <3> QED BY <1>0, <1>f, <2>1, <2>4, <3>1, <3>3
  <2> QED BY <1>10, <2>3, <2>4 DEF ClientConnect
<1>11. ASSUME NEW c \in Clients, WaitTimeout(c) PROVE AccountInv'
  <2>1. tables /\ UNCHANGED <<ready, reverse, listening>>
    BY <1>11 DEF WaitTimeout, peerVars, bridgeVars, extensionVars, clientVars
  <2>2. \A d \in Clients : /\ pc'[d] = "bridged" => pc[d] = "bridged"
                           /\ conn'[d] = "open" => conn[d] = "open"
    BY <1>0, <1>1, <1>11 DEF WaitTimeout, RejectWaiters
  <2> QED BY <1>0, <1>f, <2>1, <2>2
<1>12. ASSUME NEW c \in Clients, NEW m \in Commands, ClientSend(c, m) PROVE AccountInv'
  <2>1. /\ sent' = [sent EXCEPT ![c] = @ \cup {m}]
        /\ UNCHANGED <<ready, conn, pc, reverse, listening, answers>>
    BY <1>12 DEF ClientSend, peerVars
  <2>2. CASE pc[c] = "waiting" /\ UNCHANGED <<pending, requests>>
    <3>1. c \notin listening
      BY <1>0, <2>2
    <3>2. \A d \in listening : sent'[d] = sent[d]
      BY <1>0, <2>1, <3>1
    <3>3. CommandsAccountedFor'
      BY <2>1, <2>2, <3>2, ZenonT(30) DEF AccountInv, CommandsAccountedFor
    <3> QED BY <2>1, <3>3 DEF AccountInv
  <2>3. CASE pc[c] = "bridged" /\ Forward({c}, reverse[c], [d \in {c} |-> <<m>>])
    <3>0. PICK q : q = [d \in {c} |-> <<m>>]
      OBVIOUS
    <3>1. /\ {c} \in SUBSET Clients /\ reverse[c] \in Peers
          /\ q[c] \in Seq(Commands) /\ 1 \in DOMAIN q[c] /\ q[c][1] = m
          /\ Forward({c}, reverse[c], q)
      BY <1>0, <2>3, <3>0
    <3>2. /\ \A d \in Clients : d # c => sent'[d] = sent[d]
          /\ sent'[c] = sent[c] \cup {m}
      BY <1>0, <2>1
    <3>3. CASE ready[reverse[c]] = "open" /\ Served(c)
      <4>1. PICK p \in Peers : p = reverse[c]
        BY <3>1
      <4>2. \A x \in sent'[c] :
              \/ \E i \in DOMAIN q[c] : q[c][i] = x
              \/ \E i \in DOMAIN answers[c] : answers[c][i].command = x
              \/ \E e \in pending[c] :
                   /\ e.command = x
                   /\ [id |-> e.id, client |-> c, command |-> x] \in requests[p]
        BY <1>3, <3>1, <3>2, <3>3, <4>1
      <4> DEFINE C == {c}
      <4>3. Covers(C, p, q)
        BY <2>1, <3>1, <4>2 DEF Covers
      <4>4. /\ \A d \in Clients \ C : pc'[d] = pc[d] /\ reverse'[d] = reverse[d]
                                      /\ sent'[d] = sent[d]
            /\ \A d \in C : reverse'[d] = p
            /\ listening' \subseteq listening \cup C
            /\ \A x \in Peers : /\ ready'[x] = "open" => ready[x] = "open"
                                /\ ready'[x] = "none" => ready[x] = "none"
        BY <2>1, <3>2, <4>1
      <4>5. /\ UNCHANGED answers /\ UNCHANGED conn /\ ready[p] = "open"
            /\ Forward(C, p, q)
        BY <2>1, <3>1, <3>3, <4>1
      <4> HIDE DEF C
      <4>6. ForwardsAll(C, p, q)
        BY <4>3, <4>4, <4>5 DEF ForwardsAll
      <4> QED BY <1>g, <3>1, <4>6 DEF C
    <3>4. CASE ~Served(c)
      <4>1. \A x \in Peers : requests[x] \subseteq requests'[x]
        BY <3>1, ForwardHandsOver
      <4>2. \A d \in Clients : d # c => pending'[d] = pending[d]
        BY <3>1 DEF Forward
      <4>3. CommandsAccountedFor'
        <5> SUFFICES ASSUME NEW d \in listening', conn'[d] = "open", ready'[reverse'[d]] = "open",
                            NEW x \in sent'[d]
                     PROVE  \/ \E i \in DOMAIN answers'[d] : answers'[d][i].command = x
                            \/ \E e \in pending'[d] :
                                 /\ e.command = x
                                 /\ [id |-> e.id, client |-> d, command |-> x]
                                      \in requests'[reverse'[d]]
          BY DEF CommandsAccountedFor
        <5>1. d \in listening /\ d \in Clients /\ Served(d) /\ d # c /\ reverse[d] \in Peers
          BY <1>0, <2>1, <3>4
        <5> QED BY <1>3, <2>1, <3>2, <4>1, <4>2, <5>1
      <4> QED BY <2>1, <4>3 DEF AccountInv
    <3> QED BY <3>3, <3>4
  <2> QED BY <1>12, <2>2, <2>3 DEF ClientSend
<1>13. ASSUME NEW c \in Clients, ClientClosed(c) PROVE AccountInv'
  <2>1. /\ tables /\ UNCHANGED <<ready, reverse, pc>>
        /\ conn' = [conn EXCEPT ![c] = "closed"] /\ listening' = listening \ {c}
    BY <1>13 DEF ClientClosed, peerVars, bridgeVars, extensionVars, clientVars
  <2>2. \A d \in Clients : conn'[d] = "open" => conn[d] = "open"
    BY <1>0, <2>1
  <2> QED BY <1>0, <1>f, <2>1, <2>2
<1>14. CASE Close
  <2>1. /\ tables /\ UNCHANGED <<reverse, pc, listening>>
        /\ conn' = Closing(conn, Clients) /\ ready' = Closing(ready, {socket})
    BY <1>14 DEF Close, bridgeVars, extensionVars, clientVars
  <2>2. \A c \in Clients : conn'[c] = "open" => conn[c] = "open"
    BY <1>c, <2>1
  <2>3. \A x \in Peers : /\ ready'[x] = "open" => ready[x] = "open"
                         /\ ready'[x] = "none" => ready[x] = "none"
    BY <1>2, <2>1
  <2> QED BY <1>0, <1>f, <2>1, <2>2, <2>3
<1>15. ASSUME tables, UNCHANGED <<ready, reverse, pc, conn, listening>> PROVE AccountInv'
  BY <1>15 DEF AccountInv, CommandsAccountedFor
<1>16. CASE ClientsServerClosed \/ ReverseServerClosed \/ UNCHANGED vars
  BY <1>15, <1>16 DEF ClientsServerClosed, ReverseServerClosed, vars, peerVars, bridgeVars,
     extensionVars, clientVars
<1> QED
  BY <1>4, <1>5, <1>6, <1>7, <1>8, <1>9, <1>10, <1>11, <1>12, <1>13, <1>14, <1>15, <1>16
  DEF Next

IInv == TypeInv /\ PeerInv /\ BridgeInv /\ TableInv /\ RequestInv /\ AccountInv

LEMMA AllStays == Spec => []IInv
<1>1. Init => TableInv /\ RequestInv /\ AccountInv
  BY DEF Init, TableInv, AnsweredOnce, RequestInv, RequestsMatch, SoleClientOwnAnswers, AccountInv,
     CommandsAccountedFor
<1>2. /\ TypeInv /\ PeerInv /\ BridgeInv
      /\ TableInv /\ RequestInv /\ AccountInv
      /\ [Next]_vars
      => TableInv' /\ RequestInv' /\ AccountInv'
  BY NextTableInv, NextRequestInv, NextAccountInv
<1> QED BY <1>1, <1>2, BridgesStay, PTL DEF Spec, IInv

\* No command is answered twice, whatever other clients of the same peer are doing.
THEOREM AnswersOnce == Spec => []AnsweredOnce
<1>1. IInv => AnsweredOnce
  BY DEF IInv, TableInv
<1> QED BY <1>1, AllStays, PTL

\* A client with a peer of its own is answered with the outcome of its own commands.
THEOREM SoleClientsServed == Spec => []SoleClientOwnAnswers
<1>1. IInv => SoleClientOwnAnswers
  BY DEF IInv, RequestInv
<1> QED BY <1>1, AllStays, PTL

\* While a client and its peer are connected, no command between them is lost.
THEOREM NothingLost == Spec => []CommandsAccountedFor
<1>1. IInv => CommandsAccountedFor
  BY DEF IInv, AccountInv
<1> QED BY <1>1, AllStays, PTL

=============================================================================
