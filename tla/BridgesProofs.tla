--------------------------- MODULE BridgesProofs ---------------------------
(***************************************************************************)
(* Proofs about Bridges, for every set of endpoints and every bound: the   *)
(* types, that a bridge has one connection at most and is neither given up *)
(* nor left over, and where answers go.                                    *)
(***************************************************************************)
EXTENDS Bridges, TLAPS

\* A socket is closed, or it was opened for an endpoint.
SocketInv ==
    \A s \in Sockets : \/ socket[s] = Closed
                       \/ socket[s].state # "closed" /\ socket[s].subject \in Endpoints

\* Without a worker there is nothing of the bridge.
WorkerInv ==
    /\ ~alive => ~timer /\ \A s \in Sockets : socket[s] = Closed
    /\ OneConnection /\ NeverGivenUp /\ StoppedIsQuiet

\* Where the peer is to which the answer of a command will go.
AnswerInv ==
    /\ kind # "nats" =>
         \A c \in handling : /\ socket[c.socket].state \in {"open", "closing"}
                             /\ socket[c.socket].subject = c.from
    /\ kind = "nats" /\ ~reconfigured =>
         /\ \A c \in handling : c.from = endpoint
         /\ \A s \in Sockets : socket[s].state = "open" => socket[s].subject = endpoint
    /\ AnswersReturn

IInv == TypeOK /\ SocketInv /\ WorkerInv /\ AnswerInv

Socket == [state : Readiness, at : Endpoints \cup {None}, subject : Endpoints \cup {None}]

LEMMA InitIInv == Init => IInv
<1> SUFFICES ASSUME Init PROVE IInv
    OBVIOUS
<1>0. None \notin Endpoints /\ MaxTerminations \in Nat /\ 0 \in 0 .. MaxTerminations
    BY BridgesAssumption
<1>1. socket \in [Sockets -> Socket] /\ \A s \in Sockets : socket[s] = Closed
    BY DEF Init, Closed, Socket, Readiness
<1>2. TypeOK
    BY <1>0, <1>1 DEF Init, TypeOK, Socket, NoAnswer, NoSocket
<1>3. SocketInv
    BY <1>1 DEF SocketInv
<1>4. WorkerInv
    BY <1>1 DEF Init, WorkerInv, OneConnection, NeverGivenUp, StoppedIsQuiet, Live, Closed
<1>5. AnswerInv
    BY <1>1 DEF Init, AnswerInv, AnswersReturn, NoAnswer, Closed
<1> QED BY <1>2, <1>3, <1>4, <1>5 DEF IInv

-----------------------------------------------------------------------------
\* What a call that connects makes of the sockets, for a bridge with one connection.
Connected(e) ==
    /\ socket' \in [Sockets -> Socket]
    /\ current' \in Sockets
    /\ \A s \in Sockets : \/ socket'[s] = socket[s]
                           \/ /\ socket[s] = Closed /\ ~InUse /\ current' = s
                              /\ socket'[s] = Opened(e)
    /\ InUse => UNCHANGED <<socket, current>>
    /\ socket'[current'].state \in {"connecting", "open"}
    /\ \A s \in Sockets : socket'[s].state \in {"connecting", "open"} => s = current'

LEMMA ConnectConnects ==
    ASSUME TypeOK, OneConnection, NEW e \in Endpoints, Connect(e)
    PROVE  Connected(e)
<1>0. /\ socket \in [Sockets -> Socket] /\ current \in Sockets \cup {NoSocket}
      /\ NoSocket \notin Sockets
    BY DEF TypeOK, Socket, Sockets, NoSocket
<1>1. CASE InUse
    BY <1>0, <1>1 DEF Connect, Busy, Connected, InUse, OneConnection, Live
<1>2. CASE ~InUse
    <2>1. PICK s \in Sockets : /\ socket[s] = Closed
                               /\ socket' = [socket EXCEPT ![s] = Opened(e)]
                               /\ current' = s
        BY <1>2 DEF Connect, Busy
    <2>2. Opened(e) \in Socket /\ Opened(e).state \in {"connecting", "open"}
        BY DEF Opened, Socket, Readiness
    <2>3. \A r \in Sockets : r # s => ~(socket[r].state \in {"connecting", "open"})
        BY <1>0, <1>2 DEF InUse, OneConnection, Live
    <2>4. socket' \in [Sockets -> Socket] /\ socket'[s] = Opened(e)
          /\ \A r \in Sockets : r # s => socket'[r] = socket[r]
        BY <1>0, <2>1, <2>2
    <2> QED BY <1>2, <2>1, <2>2, <2>3, <2>4 DEF Connected
<1> QED BY <1>1, <1>2

\* A socket just opened has the endpoint as its subject, and is open only if it is a port.
LEMMA OpenedFacts ==
    ASSUME NEW e \in Endpoints
    PROVE  /\ Opened(e) # Closed /\ Opened(e).state # "closed"
           /\ Opened(e).subject = e
           /\ kind = "nats" => Opened(e).state = "connecting"
    BY DEF Opened, Closed

-----------------------------------------------------------------------------
\* The parts of the invariant after a step that connects: start, the timer, the worker's
\* script. The endpoint is then e, and nothing has been answered.
LEMMA AfterConnect ==
    ASSUME IInv, NEW e \in Endpoints, Connect(e),
           UNCHANGED <<kind, up, handling, terminations, doc>>,
           endpoint' = e, alive' = TRUE, answer' = NoAnswer,
           timer' \in BOOLEAN, port' \in BOOLEAN, port' => doc,
           ensuring' \in {"idle", "checking", "creating"}, reconfigured' \in BOOLEAN,
           (~reconfigured') => (~reconfigured /\ (e = endpoint \/ (~InUse /\ handling = {})))
    PROVE  IInv'
<1>0. /\ TypeOK /\ SocketInv /\ WorkerInv /\ AnswerInv
      /\ Connected(e) /\ None \notin Endpoints /\ NoSocket \notin Sockets
    BY ConnectConnects, BridgesAssumption DEF IInv, WorkerInv, NoSocket, Sockets
<1>1. /\ Opened(e) # Closed /\ Opened(e).state # "closed" /\ Opened(e).subject = e
      /\ kind = "nats" => Opened(e).state = "connecting"
    BY OpenedFacts
<1>2. TypeOK'
    BY <1>0, <1>1 DEF TypeOK, Connected, Socket, NoAnswer, Sockets, Readiness, Closed
<1>3. SocketInv'
    BY <1>0, <1>1 DEF SocketInv, Connected
<1>4. WorkerInv'
    BY <1>0 DEF WorkerInv, Connected, OneConnection, NeverGivenUp, StoppedIsQuiet, Live
<1>5. CASE kind # "nats"
    <2>1. \A c \in handling : c.socket \in Sockets /\ socket'[c.socket] = socket[c.socket]
        <3> TAKE c \in handling
        <3>1. c.socket \in Sockets
            BY <1>0 DEF TypeOK
        <3>2. socket[c.socket].state \in {"open", "closing"}
            BY <1>0, <1>5 DEF AnswerInv
        <3>3. socket[c.socket] # Closed
            BY <3>2 DEF Closed
        <3> QED BY <1>0, <3>1, <3>3 DEF Connected
    <2>2. AnswerInv'
        BY <1>0, <1>5, <2>1 DEF AnswerInv, AnswersReturn, NoAnswer
    <2> QED BY <1>2, <1>3, <1>4, <2>2 DEF IInv
<1>6. CASE kind = "nats"
    <2>1. \A s \in Sockets : socket'[s].state = "open" => socket'[s] = socket[s] /\ InUse
        BY <1>0, <1>1, <1>6 DEF Connected, InUse, Live, WorkerInv, OneConnection
    <2>2. ~reconfigured' => /\ \A c \in handling' : c.from = endpoint'
                            /\ \A s \in Sockets : socket'[s].state = "open"
                                                   => socket'[s].subject = endpoint'
        BY <1>0, <1>6, <2>1 DEF AnswerInv
    <2>3. AnswerInv'
        BY <1>6, <2>2 DEF AnswerInv, AnswersReturn, NoAnswer
    <2> QED BY <1>2, <1>3, <1>4, <2>3 DEF IInv
<1> QED BY <1>5, <1>6

LEMMA StartIInv ==
    ASSUME IInv, NEW e \in Endpoints, Start(e)
    PROVE  IInv'
<1>1. TypeOK
    BY DEF IInv
<1>2. /\ alive /\ Connect(e) /\ endpoint' = e /\ answer' = NoAnswer
      /\ reconfigured' = (reconfigured \/ (e # endpoint /\ (InUse \/ handling # {})))
      /\ UNCHANGED <<up, timer, handling, kind, alive, terminations, doc, port, ensuring>>
    BY DEF Start, Quiet, Worker, keepAlive
<1>3. timer' \in BOOLEAN /\ port' \in BOOLEAN /\ (port' => doc)
      /\ ensuring' \in {"idle", "checking", "creating"} /\ reconfigured' \in BOOLEAN
    BY <1>1, <1>2 DEF TypeOK
<1>4. alive' = TRUE /\ UNCHANGED <<kind, up, handling, terminations, doc>>
    BY <1>1, <1>2 DEF TypeOK
<1>5. (~reconfigured') => (~reconfigured /\ (e = endpoint \/ (~InUse /\ handling = {})))
    BY <1>2
<1> QED BY <1>2, <1>3, <1>4, <1>5, AfterConnect

LEMMA TimerIInv ==
    ASSUME IInv, TimerFires
    PROVE  IInv'
<1>1. TypeOK /\ StoppedIsQuiet
    BY DEF IInv, WorkerInv
<1>2. /\ alive /\ timer /\ timer' = FALSE /\ Connect(endpoint) /\ answer' = NoAnswer
      /\ UNCHANGED <<up, endpoint, handling, reconfigured, kind, alive, terminations, doc, port,
                     ensuring>>
    BY DEF TimerFires, Quiet, Worker, keepAlive
<1>3. endpoint \in Endpoints
    BY <1>1, <1>2 DEF TypeOK, StoppedIsQuiet
<1>4. timer' \in BOOLEAN /\ port' \in BOOLEAN /\ (port' => doc)
      /\ ensuring' \in {"idle", "checking", "creating"} /\ reconfigured' \in BOOLEAN
    BY <1>1, <1>2 DEF TypeOK
<1>5. alive' = TRUE /\ UNCHANGED <<kind, up, handling, terminations, doc>>
    BY <1>1, <1>2 DEF TypeOK
<1>6. endpoint' = endpoint /\ (~reconfigured' => ~reconfigured)
    BY <1>2
<1> QED BY <1>2, <1>3, <1>4, <1>5, <1>6, AfterConnect

\* The worker's script starts the configured bridge, or finds everything as it is: closed.
LEMMA LoadIInv ==
    ASSUME IInv, NEW connects \in BOOLEAN, ~alive, connects => doc, Load(connects)
    PROVE  IInv'
<1>0. TypeOK /\ SocketInv /\ WorkerInv /\ AnswerInv /\ Default \in Endpoints
    BY BridgesAssumption DEF IInv
<1>1. /\ alive' = TRUE /\ port' = connects /\ ensuring' = "checking" /\ answer' = NoAnswer
      /\ UNCHANGED <<kind, up, timer, handling, terminations, doc, reconfigured>>
      /\ IF StartsConfigured THEN endpoint' = Default /\ Connect(Default)
         ELSE UNCHANGED <<endpoint, socket, current>>
    BY DEF Load, Quiet
<1>2. handling = {} /\ ~InUse
    BY <1>0 DEF TypeOK, InUse
<1>3. CASE StartsConfigured
    <2>1. timer' \in BOOLEAN /\ port' \in BOOLEAN /\ (port' => doc)
          /\ ensuring' \in {"idle", "checking", "creating"} /\ reconfigured' \in BOOLEAN
        BY <1>0, <1>1 DEF TypeOK
    <2>2. endpoint' = Default /\ Connect(Default) /\ (~reconfigured' => ~reconfigured)
        BY <1>1, <1>3
    <2> QED BY <1>0, <1>1, <1>2, <2>1, <2>2, AfterConnect
<1>4. CASE ~StartsConfigured
    <2>1. UNCHANGED <<endpoint, socket, current>>
        BY <1>1, <1>4
    <2>2. TypeOK'
        BY <1>0, <1>1, <2>1 DEF TypeOK, NoAnswer
    <2>3. SocketInv'
        BY <1>0, <2>1 DEF SocketInv
    <2>4. WorkerInv'
        BY <1>0, <1>1, <2>1 DEF WorkerInv, OneConnection, NeverGivenUp, StoppedIsQuiet, Live
    <2>5. AnswerInv'
        BY <1>0, <1>1, <2>1 DEF AnswerInv, AnswersReturn, NoAnswer
    <2> QED BY <2>2, <2>3, <2>4, <2>5 DEF IInv
<1> QED BY <1>3, <1>4

-----------------------------------------------------------------------------
LEMMA StopIInv ==
    ASSUME IInv, Stop
    PROVE  IInv'
<1>0. /\ TypeOK /\ SocketInv /\ WorkerInv /\ AnswerInv
      /\ None \notin Endpoints /\ NoSocket \notin Sockets
    BY BridgesAssumption DEF IInv, NoSocket, Sockets
<1>1. /\ alive /\ kind = "reverse"
      /\ endpoint' = None /\ timer' = FALSE /\ current' = NoSocket /\ answer' = NoAnswer
      /\ socket' = IF InUse THEN [socket EXCEPT ![current].state = "closing"] ELSE socket
      /\ UNCHANGED <<up, handling, reconfigured, kind, alive, terminations, doc, port, ensuring>>
    BY DEF Stop, Quiet, Worker, keepAlive
<1>2. /\ socket' \in [Sockets -> Socket]
      /\ \A s \in Sockets : \/ socket'[s] = socket[s]
                             \/ /\ socket[s].state \in {"connecting", "open"}
                                /\ socket'[s].state = "closing"
                                /\ socket'[s].subject = socket[s].subject
      /\ \A s \in Sockets : socket'[s].state \notin {"connecting", "open"}
    <2>1. CASE InUse
        <3>1. current \in Sockets /\ socket[current].state \in {"connecting", "open"}
            BY <1>0, <2>1 DEF InUse, Live, TypeOK
        <3>2. \A s \in Sockets : s # current => socket[s].state \notin {"connecting", "open"}
            BY <1>0 DEF WorkerInv, OneConnection, Live
        <3> QED BY <1>0, <1>1, <2>1, <3>1, <3>2 DEF TypeOK, Socket, Readiness
    <2>2. CASE ~InUse
        BY <1>0, <1>1, <2>2 DEF InUse, Live, WorkerInv, OneConnection, TypeOK, Socket
    <2> QED BY <2>1, <2>2
<1>3. TypeOK'
    BY <1>0, <1>1, <1>2 DEF TypeOK, Socket, NoAnswer
<1>4. SocketInv'
    BY <1>0, <1>2 DEF SocketInv, Closed
<1>5. WorkerInv'
    BY <1>1, <1>2 DEF WorkerInv, OneConnection, NeverGivenUp, StoppedIsQuiet, Live
<1>6. AnswerInv'
    <2>1. \A c \in handling : c.socket \in Sockets
        BY <1>0 DEF TypeOK
    <2>2. \A c \in handling : /\ socket'[c.socket].state \in {"open", "closing"}
                              /\ socket'[c.socket].subject = c.from
        BY <1>0, <1>1, <1>2, <2>1 DEF AnswerInv
    <2> QED BY <1>1, <2>2 DEF AnswerInv, AnswersReturn, NoAnswer
<1> QED BY <1>3, <1>4, <1>5, <1>6 DEF IInv

LEMMA SocketOpensIInv ==
    ASSUME IInv, NEW s \in Sockets, SocketOpens(s)
    PROVE  IInv'
<1>0. TypeOK /\ SocketInv /\ WorkerInv /\ AnswerInv /\ None \notin Endpoints
    BY BridgesAssumption DEF IInv
<1>1. /\ socket[s].state = "connecting"
      /\ socket' = [socket EXCEPT ![s].state = "open",
                                  ![s].subject = IF kind = "nats" THEN endpoint ELSE @]
      /\ answer' = NoAnswer
      /\ UNCHANGED <<up, endpoint, current, timer, handling, reconfigured, kind, alive,
                     terminations, doc, port, ensuring>>
    BY DEF SocketOpens, Quiet, Worker, keepAlive
<1>2. socket[s] # Closed /\ endpoint \in Endpoints /\ alive
    BY <1>0, <1>1 DEF Closed, WorkerInv, StoppedIsQuiet, Live, TypeOK
<1>3. /\ socket' \in [Sockets -> Socket]
      /\ socket'[s].state = "open"
      /\ socket'[s].subject = IF kind = "nats" THEN endpoint ELSE socket[s].subject
      /\ \A r \in Sockets : r # s => socket'[r] = socket[r]
    BY <1>0, <1>1, <1>2, ZenonT(30) DEF TypeOK, Socket, Readiness
<1>4. TypeOK'
    BY <1>0, <1>1, <1>3, ZenonT(30) DEF TypeOK, Socket, NoAnswer, Closed
<1>5. SocketInv'
    BY <1>0, <1>2, <1>3 DEF SocketInv
<1>6. WorkerInv'
    BY <1>0, <1>1, <1>2, <1>3 DEF WorkerInv, OneConnection, NeverGivenUp, StoppedIsQuiet, Live
<1>7. AnswerInv'
    <2>1. \A c \in handling : c.socket \in Sockets
        BY <1>0 DEF TypeOK
    <2> QED BY <1>0, <1>1, <1>3, <2>1 DEF AnswerInv, AnswersReturn, NoAnswer
<1> QED BY <1>4, <1>5, <1>6, <1>7 DEF IInv

LEMMA SocketClosesIInv ==
    ASSUME IInv, NEW s \in Sockets, SocketCloses(s)
    PROVE  IInv'
<1>0. TypeOK /\ SocketInv /\ WorkerInv /\ AnswerInv /\ None \notin Endpoints
    BY BridgesAssumption DEF IInv
<1>1. /\ socket[s].state = "open" /\ socket' = [socket EXCEPT ![s].state = "closing"]
      /\ answer' = NoAnswer
      /\ UNCHANGED <<up, endpoint, current, timer, handling, reconfigured, kind, alive,
                     terminations, doc, port, ensuring>>
    BY DEF SocketCloses, Quiet, Worker, keepAlive
<1>2. socket[s] # Closed /\ alive
    BY <1>0, <1>1 DEF Closed, WorkerInv
<1>3. /\ socket' \in [Sockets -> Socket]
      /\ socket'[s].state = "closing" /\ socket'[s].subject = socket[s].subject
      /\ \A r \in Sockets : r # s => socket'[r] = socket[r]
    BY <1>0, <1>1 DEF TypeOK, Socket, Readiness
<1>4. TypeOK'
    BY <1>0, <1>1, <1>3 DEF TypeOK, Socket, NoAnswer, Closed
<1>5. SocketInv'
    BY <1>0, <1>2, <1>3 DEF SocketInv
<1>6. WorkerInv'
    BY <1>0, <1>1, <1>2, <1>3 DEF WorkerInv, OneConnection, NeverGivenUp, StoppedIsQuiet, Live
<1>7. AnswerInv'
    <2>1. \A c \in handling : c.socket \in Sockets
        BY <1>0 DEF TypeOK
    <2> QED BY <1>0, <1>1, <1>3, <2>1 DEF AnswerInv, AnswersReturn, NoAnswer
<1> QED BY <1>4, <1>5, <1>6, <1>7 DEF IInv

LEMMA SocketClosedIInv ==
    ASSUME IInv, NEW s \in Sockets, SocketClosed(s)
    PROVE  IInv'
<1>0. /\ TypeOK /\ SocketInv /\ WorkerInv /\ AnswerInv
      /\ None \notin Endpoints /\ NoSocket \notin Sockets
    BY BridgesAssumption DEF IInv, NoSocket, Sockets
<1>1. /\ socket[s].state \in {"closing", "connecting", "open"}
      /\ socket' = [socket EXCEPT ![s] = Closed]
      /\ current' = IF current = s THEN NoSocket ELSE current
      /\ timer' = (timer \/ endpoint # None)
      /\ handling' = {c \in handling : kind = "nats" \/ c.socket # s}
      /\ answer' = NoAnswer
      /\ UNCHANGED <<up, endpoint, reconfigured, kind, alive, terminations, doc, port, ensuring>>
    BY DEF SocketClosed, Live, Disowned, Scheduled, Quiet, Worker, keepAlive
<1>2. socket[s] # Closed /\ alive
    BY <1>0, <1>1 DEF Closed, WorkerInv
<1>3. /\ socket' \in [Sockets -> Socket] /\ socket'[s] = Closed
      /\ \A r \in Sockets : r # s => socket'[r] = socket[r]
    BY <1>0, <1>1 DEF TypeOK, Socket, Readiness, Closed
<1>4. TypeOK'
    BY <1>0, <1>1, <1>2, <1>3 DEF TypeOK, Socket, NoAnswer
<1>5. SocketInv'
    BY <1>0, <1>3 DEF SocketInv
<1>6. WorkerInv'
    BY <1>0, <1>1, <1>2, <1>3
    DEF WorkerInv, OneConnection, NeverGivenUp, StoppedIsQuiet, Live, Closed
<1>7. AnswerInv'
    <2>1. \A c \in handling : c.socket \in Sockets
        BY <1>0 DEF TypeOK
    <2> QED BY <1>0, <1>1, <1>3, <2>1 DEF AnswerInv, AnswersReturn, NoAnswer, Closed
<1> QED BY <1>4, <1>5, <1>6, <1>7 DEF IInv

-----------------------------------------------------------------------------
LEMMA CommandArrivesIInv ==
    ASSUME IInv, NEW s \in Sockets, CommandArrives(s)
    PROVE  IInv'
<1>0. TypeOK /\ SocketInv /\ WorkerInv /\ AnswerInv
    BY DEF IInv
<1>1. /\ socket[s].state = "open" /\ answer' = NoAnswer
      /\ handling' = handling \cup {[socket |-> s, from |-> socket[s].subject]}
      /\ UNCHANGED <<up, endpoint, socket, current, timer, reconfigured, kind, alive,
                     terminations, doc, port, ensuring>>
    BY DEF CommandArrives, Quiet, Worker, keepAlive, bridge
<1>2. socket[s].subject \in Endpoints /\ alive
    BY <1>0, <1>1 DEF SocketInv, WorkerInv, Closed
<1>3. TypeOK'
    BY <1>0, <1>1, <1>2 DEF TypeOK, NoAnswer
<1>4. SocketInv' /\ WorkerInv'
    BY <1>0, <1>1 DEF SocketInv, WorkerInv, OneConnection, NeverGivenUp, StoppedIsQuiet, Live
<1>5. AnswerInv'
    BY <1>0, <1>1 DEF AnswerInv, AnswersReturn, NoAnswer
<1> QED BY <1>3, <1>4, <1>5 DEF IInv

LEMMA CommandAnsweredIInv ==
    ASSUME IInv, NEW c \in handling, CommandAnswered(c)
    PROVE  IInv'
<1>0. /\ TypeOK /\ SocketInv /\ WorkerInv /\ AnswerInv
      /\ None \notin Endpoints /\ NoSocket \notin Sockets
    BY BridgesAssumption DEF IInv, NoSocket, Sockets
<1>1. /\ handling' = handling \ {c}
      /\ UNCHANGED <<up, endpoint, socket, current, timer, reconfigured, kind, alive,
                     terminations, doc, port, ensuring>>
      /\ \/ answer' = NoAnswer
         \/ /\ Through(c) # NoSocket /\ socket[Through(c)].state = "open"
            /\ answer' = [from |-> c.from,
                          to |-> IF kind = "nats" THEN endpoint
                                 ELSE socket[Through(c)].subject]
    BY DEF CommandAnswered, Worker, keepAlive, bridge
<1>2. c.socket \in Sockets /\ c.from \in Endpoints
    BY <1>0 DEF TypeOK
<1>3. answer' = NoAnswer \/
        (answer'.from = c.from /\ answer' \in [from : Endpoints, to : Endpoints \cup {None}]
          /\ (kind = "nats" => answer'.to = endpoint)
          /\ (kind # "nats" => answer'.to = socket[c.socket].subject))
    <2>1. CASE kind = "nats"
        BY <1>0, <1>1, <1>2, <2>1 DEF TypeOK
    <2>2. CASE kind # "nats"
        BY <1>0, <1>1, <1>2, <2>2 DEF Through, Route, TypeOK
    <2> QED BY <2>1, <2>2
<1>4. TypeOK'
    BY <1>0, <1>1, <1>3 DEF TypeOK, NoAnswer
<1>5. SocketInv' /\ WorkerInv'
    BY <1>0, <1>1 DEF SocketInv, WorkerInv, OneConnection, NeverGivenUp, StoppedIsQuiet, Live
<1>6. AnswersReturn'
    BY <1>0, <1>1, <1>3 DEF AnswerInv, AnswersReturn, NoAnswer
<1>7. AnswerInv'
    BY <1>0, <1>1, <1>6 DEF AnswerInv
<1> QED BY <1>4, <1>5, <1>7 DEF IInv

-----------------------------------------------------------------------------
LEMMA TerminateIInv ==
    ASSUME IInv, Terminate
    PROVE  IInv'
<1>0. TypeOK /\ MaxTerminations \in Nat
    BY BridgesAssumption DEF IInv
<1>1. /\ terminations < MaxTerminations
      /\ alive' = FALSE /\ terminations' = terminations + 1
      /\ endpoint' = None /\ timer' = FALSE /\ current' = NoSocket
      /\ socket' = [s \in Sockets |-> Closed]
      /\ handling' = {} /\ reconfigured' = FALSE /\ answer' = NoAnswer
      /\ port' = FALSE /\ ensuring' = "idle" /\ doc' \in {doc, doc \/ ensuring = "creating"}
      /\ UNCHANGED <<kind, up>>
    BY DEF Terminate, Quiet
<1>2. Closed \in Socket
    BY DEF Closed, Socket, Readiness
<1>3. terminations' \in 0 .. MaxTerminations /\ doc' \in BOOLEAN
    <2>1. terminations' \in 0 .. MaxTerminations
        BY <1>0, <1>1 DEF TypeOK
    <2>2. doc \in BOOLEAN /\ (doc \/ ensuring = "creating") \in BOOLEAN
        BY <1>0 DEF TypeOK
    <2> QED BY <1>1, <2>1, <2>2
<1>4. TypeOK'
    BY <1>0, <1>1, <1>2, <1>3 DEF TypeOK, NoAnswer, Socket, NoSocket
<1>5. SocketInv' /\ WorkerInv'
    BY <1>1 DEF SocketInv, WorkerInv, OneConnection, NeverGivenUp, StoppedIsQuiet, Live, Closed
<1>6. AnswerInv'
    BY <1>1 DEF AnswerInv, AnswersReturn, NoAnswer, Closed
<1> QED BY <1>4, <1>5, <1>6 DEF IInv

\* Steps that leave the bridge and its commands alone.
LEMMA ElsewhereIInv ==
    ASSUME IInv, UNCHANGED <<kind, endpoint, socket, current, timer, reconfigured, handling,
                             alive, terminations>>,
           answer' \in {answer, NoAnswer}, up' \subseteq Endpoints,
           doc' \in BOOLEAN, port' \in BOOLEAN, port' => doc' /\ alive,
           ensuring' \in {"idle", "checking", "creating"}
    PROVE  IInv'
<1>0. TypeOK /\ SocketInv /\ WorkerInv /\ AnswerInv
    BY DEF IInv
<1>1. TypeOK'
    BY <1>0 DEF TypeOK, NoAnswer
<1>2. SocketInv' /\ WorkerInv'
    BY <1>0 DEF SocketInv, WorkerInv, OneConnection, NeverGivenUp, StoppedIsQuiet, Live
<1>3. AnswerInv'
    BY <1>0 DEF AnswerInv, AnswersReturn, NoAnswer
<1> QED BY <1>1, <1>2, <1>3 DEF IInv

LEMMA NextIInv == IInv /\ [Next]_vars => IInv'
<1> SUFFICES ASSUME IInv, [Next]_vars PROVE IInv'
    OBVIOUS
<1>0. /\ up \subseteq Endpoints /\ doc \in BOOLEAN /\ port \in BOOLEAN /\ alive \in BOOLEAN
      /\ port => doc /\ alive
      /\ ensuring \in {"idle", "checking", "creating"}
    BY DEF IInv, TypeOK
<1>1. CASE \E e \in Endpoints : Start(e)
    BY <1>1, StartIInv
<1>2. CASE Stop
    BY <1>2, StopIInv
<1>3. CASE TimerFires
    BY <1>3, TimerIInv
<1>4. CASE PeersChange
    <2>1. up' \subseteq Endpoints
        BY <1>0, <1>4 DEF PeersChange
    <2>2. UNCHANGED <<kind, endpoint, socket, current, timer, reconfigured, handling, alive,
                      terminations, doc, port, ensuring>> /\ answer' = NoAnswer
        BY <1>4 DEF PeersChange, Quiet, Worker, bridge, keepAlive
    <2> QED BY <1>0, <2>1, <2>2, ElsewhereIInv
<1>5. CASE \E s \in Sockets : SocketEvent(s) \/ CommandArrives(s)
    BY <1>5, SocketOpensIInv, SocketClosesIInv, SocketClosedIInv, CommandArrivesIInv
    DEF SocketEvent
<1>6. CASE \E c \in handling : CommandAnswered(c)
    BY <1>6, CommandAnsweredIInv
<1>7. CASE BrowserEvent
    BY <1>7, LoadIInv DEF BrowserEvent
<1>8. CASE DocumentConnects
    <2>1. CASE ~alive
        BY <1>8, <2>1, LoadIInv DEF DocumentConnects, Reconnects
    <2>2. CASE alive
        <3>1. /\ UNCHANGED <<kind, up, endpoint, socket, current, timer, reconfigured, handling,
                             alive, terminations, doc, ensuring>>
              /\ answer' = NoAnswer /\ port' = TRUE /\ doc
            BY <1>8, <2>2 DEF DocumentConnects, Reconnects, Quiet, bridge
        <3> QED BY <1>0, <2>2, <3>1, ElsewhereIInv
    <2> QED BY <2>1, <2>2
<1>9. CASE Terminate
    BY <1>9, TerminateIInv
<1>10. CASE Ensure \/ Checked \/ CreationEnds \/ DocumentGone
    <2>1. UNCHANGED <<kind, up, endpoint, socket, current, timer, reconfigured, handling, alive,
                      terminations>> /\ answer' = NoAnswer
        BY <1>10 DEF Ensure, Checked, CreationEnds, DocumentGone, Offscreen, Quiet, bridge
    <2>2. doc' \in BOOLEAN /\ port' \in BOOLEAN /\ (port' => doc' /\ alive)
          /\ ensuring' \in {"idle", "checking", "creating"}
        <3>1. CASE Ensure
            BY <1>0, <3>1 DEF Ensure
        <3>2. CASE Checked
            BY <1>0, <3>2 DEF Checked
        <3>3. CASE CreationEnds
            <4>1. CASE doc' = doc
                BY <1>0, <3>3, <4>1 DEF CreationEnds
            <4>2. CASE doc' = TRUE
                BY <1>0, <3>3, <4>2 DEF CreationEnds
            <4> QED BY <3>3, <4>1, <4>2 DEF CreationEnds
        <3>4. CASE DocumentGone
            BY <1>0, <3>4 DEF DocumentGone
        <3> QED BY <1>10, <3>1, <3>2, <3>3, <3>4
    <2> QED BY <1>0, <2>1, <2>2, ElsewhereIInv
<1>11. CASE UNCHANGED vars
    <2>1. UNCHANGED <<kind, up, endpoint, socket, current, timer, reconfigured, handling, answer,
                      alive, terminations, doc, port, ensuring>>
        BY <1>11 DEF vars, bridge, keepAlive
    <2> QED BY <1>0, <2>1, ElsewhereIInv
<1> QED BY <1>1, <1>2, <1>3, <1>4, <1>5, <1>6, <1>7, <1>8, <1>9, <1>10, <1>11 DEF Next

LEMMA AllStays == Spec => []IInv
    BY InitIInv, NextIInv, PTL DEF Spec

-----------------------------------------------------------------------------
\* Every variable of the bridge and of the offscreen document is in its domain; nothing
\* survives a terminated worker.
THEOREM TypeCorrect == Spec => []TypeOK
<1>1. IInv => TypeOK
    BY DEF IInv
<1> QED BY <1>1, AllStays, PTL

\* However start and stop of a bridge of ModCDPServer, its timer and late close events
\* interleave, the worker has one connection at most.
THEOREM OneAtMost == Spec => []OneConnection
<1>1. IInv => OneConnection
    BY DEF IInv, WorkerInv
<1> QED BY <1>1, AllStays, PTL

\* A bridge that was started and not stopped has a socket, or the timer that opens one.
THEOREM Persistent == Spec => []NeverGivenUp
<1>1. IInv => NeverGivenUp
    BY DEF IInv, WorkerInv
<1> QED BY <1>1, AllStays, PTL

\* stopReverseBridge leaves no timer and no live socket, nor does anything late bring
\* one back.
THEOREM StopsForGood == Spec => []StoppedIsQuiet
<1>1. IInv => StoppedIsQuiet
    BY DEF IInv, WorkerInv
<1> QED BY <1>1, AllStays, PTL

\* An answer reaches no peer but the one that sent the command, except over a NATS
\* bridge that was reconfigured under it.
THEOREM AnswersComeBack == Spec => []AnswersReturn
<1>1. IInv => AnswersReturn
    BY DEF IInv, AnswerInv
<1> QED BY <1>1, AllStays, PTL
=============================================================================
