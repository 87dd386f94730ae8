--------------------------- MODULE WsBridgeProofs ---------------------------
(***************************************************************************)
(* Proofs about WsBridge, for every number of commands and messages, and   *)
(* every set of sessions: the types, that no command is lost or overtaken, *)
(* that each is answered once and with its own answer, that the worker     *)
(* stays hidden, and who gets custom events. At the end, the proxy that    *)
(* accepts and closes the connections, which is ProxyLifecycle.            *)
(***************************************************************************)
EXTENDS WsBridge, ProxyLifecycle, TLAPS

SessionEvents == [type : {"event"}, method : {"attachedToTarget", "detachedFromTarget"},
                  session : AllSessions \cup {Root}, child : AllSessions,
                  target : Targets \cup {Root}]
OtherEvents == [type : {"event"}, method : {"sessionEvent", "customEvent", "upstreamEvent"},
                session : AllSessions \cup {Root}, child : {Root}, target : {Root}]
TargetEvents == [type : {"event"}, method : {"targetInfoChanged"}, session : {Root},
                 child : {Root}, target : Targets]
Responses == [type : {"response"}, id : Nat, of : Commands \cup {NoRequest},
              outcome : {"result", "error", "exception"}]
Messages == SessionEvents \cup OtherEvents \cup TargetEvents \cup Responses

TypeInv ==
    /\ phase \in {"connecting", "bridged"}
    /\ sent \in Seq([kind : Kinds, session : Sessions \cup {Root}]) /\ Len(sent) <= MaxCommands
    /\ inbox \in Seq(Nat) /\ earlyBuffer \in Seq(Nat) /\ forwarded \in Seq(Nat)
    /\ next_upstream_id \in Nat /\ next_upstream_id >= FirstId
    /\ requests \subseteq Requests
    /\ channel \in Seq(Messages) /\ Len(channel) <= MaxChannel
    /\ session \in [AllSessions -> {"free", "live", "gone"}]
    /\ hidden_session_ids \subseteq AllSessions /\ client_session_ids \subseteq Sessions
    /\ DOMAIN target_session_ids \subseteq Targets
    /\ unseen \subseteq Sessions

\* The commands are those that went upstream, then those buffered, then those not read,
\* each numbered by its place.
WireInv ==
    /\ Len(forwarded) + Len(earlyBuffer) + Len(inbox) = Len(sent)
    /\ \A i \in 1 .. Len(forwarded) : forwarded[i] = i
    /\ \A i \in 1 .. Len(earlyBuffer) : earlyBuffer[i] = Len(forwarded) + i
    /\ \A i \in 1 .. Len(inbox) : inbox[i] = Len(forwarded) + Len(earlyBuffer) + i
    /\ phase = "bridged" => earlyBuffer = <<>>

\* What pending holds of a command that went upstream, and is not answered.
PendingOK(p) ==
    \/ p = [kind |-> "internal"]
    \/ /\ p \in [kind : Kinds, client_id : 1 .. Len(forwarded),
                 client_session_id : Sessions \cup {Root}]
       /\ p.kind = sent[p.client_id].kind /\ p.client_session_id = sent[p.client_id].session
       /\ p.client_id \notin answered

\* The request or response of this upstream id is that of the command of.
Steers(id, of) ==
    /\ id < next_upstream_id
    /\ id \in DOMAIN pending /\ pending[id].kind # "internal" => pending[id].client_id = of

SteerInv ==
    /\ DOMAIN pending \subseteq FirstId .. next_upstream_id - 1
    /\ \A id \in DOMAIN pending : PendingOK(pending[id])
    /\ \A i, j \in DOMAIN pending :
         pending[i].kind # "internal" /\ pending[j].kind # "internal"
           /\ pending[i].client_id = pending[j].client_id => i = j
    /\ answered \subseteq 1 .. Len(forwarded)
    /\ \A c \in 1 .. Len(forwarded) : c \in answered \/ Waits(c)
    /\ \A r \in requests : Steers(r.id, r.of)
    /\ \A i \in 1 .. Len(channel) :
         channel[i].type = "response" => Steers(channel[i].id, channel[i].of)

\* What the client has just been sent.
OutInv ==
    /\ \A a \in Answers : /\ a.id \in answered /\ a.of = a.id
                          /\ a.session = sent[a.id].session
                          /\ a.outcome = "empty" => sent[a.id].kind = "modcdp_eval"
    /\ WorkerUnseen /\ EventsReachAll

At(i, method, s) ==
    channel[i].type = "event" /\ channel[i].method = method /\ channel[i].child = s

\* Nothing has been emitted while the proxy connects, and no session came to be.
StartInv ==
    /\ phase = "connecting" =>
         /\ channel = <<>> /\ client_session_ids = {} /\ hidden_session_ids = {}
         /\ \A s \in Sessions : session[s] = IF s \in unseen THEN "live" ELSE "free"
    /\ \A s \in unseen : session[s] # "free"
    /\ session[ExtSession] # "free"

\* The target of an event about the session s: a detach event may leave it out.
OfTarget(m, s) ==
    m.target = TargetOf(s) \/ (m.method = "detachedFromTarget" /\ m.target = Root)

\* Attach and detach events are of their session's target, and are true.
EventInv ==
    \A i \in 1 .. Len(channel), s \in AllSessions :
      /\ At(i, "attachedToTarget", s) \/ At(i, "detachedFromTarget", s) =>
           channel[i].session = Root /\ OfTarget(channel[i], s)
      /\ At(i, "attachedToTarget", s) =>
           /\ s \in Sessions \ unseen /\ session[s] # "free"
           /\ session[s] = "gone" => InFlight("detachedFromTarget", s)
      /\ At(i, "detachedFromTarget", s) => session[s] = "gone"

\* Each session has one of each at most, in this order.
OrderInv ==
    \A i, j \in 1 .. Len(channel), s \in AllSessions :
      /\ At(i, "attachedToTarget", s) /\ At(j, "attachedToTarget", s) => i = j
      /\ At(i, "detachedFromTarget", s) /\ At(j, "detachedFromTarget", s) => i = j
      /\ At(i, "attachedToTarget", s) /\ At(j, "detachedFromTarget", s) => i < j

\* Sessions on the worker whose events the client must not see.
Hideable == {s \in AllSessions \ unseen : TargetOf(s) = Worker}

\* It is known by the time that the first k messages are handled that s is hidden.
Known(s, k) == s \in hidden_session_ids \/ \E j \in 1 .. k : At(j, "attachedToTarget", s)

EventOf(i, s) ==
    channel[i].type = "event" /\ channel[i].method = "sessionEvent" /\ channel[i].session = s

HideInv ==
    /\ phase = "bridged" => \A s \in Hideable : Live(s) => Known(s, Len(channel))
    /\ \A i \in 1 .. Len(channel) : \A s \in Hideable : EventOf(i, s) =>
         Known(s, i - 1) /\ \A j \in 1 .. i - 1 : ~At(j, "detachedFromTarget", s)

QueueInv == StartInv /\ EventInv /\ OrderInv

SessionInv == QueueInv /\ HideInv /\ OrphansDetached /\ KnownAreAttached

IInv == TypeInv /\ WireInv /\ SteerInv /\ OutInv /\ SessionInv
-----------------------------------------------------------------------------
LEMMA Constants ==
    /\ FirstId \in Nat /\ OwnId \in Nat /\ OwnId < FirstId /\ MaxCommands \in Nat
    /\ MaxChannel \in Nat
    /\ Root \notin AllSessions /\ ExtSession \notin Sessions /\ ExtSession \in AllSessions
    /\ Sessions \subseteq AllSessions /\ \A s \in AllSessions : s # ExtSession => s \in Sessions
    /\ PageSessions \cap Orphans = {} /\ Page # Worker /\ Root # Worker
    BY BridgeAssumption DEF AllSessions

LEMMA TargetFacts ==
    /\ TargetOf(ExtSession) = Worker
    /\ \A s \in AllSessions : /\ TargetOf(s) \in Targets
                              /\ s \in PageSessions <=> TargetOf(s) # Worker
    /\ \A s \in Orphans : TargetOf(s) = Worker /\ s \in Sessions /\ s \notin PageSessions
    /\ \A s \in PageSessions : s \in Sessions
    BY Constants, BridgeAssumption DEF TargetOf, Targets, AllSessions, Sessions

LEMMA InitTypeInv == Init => TypeInv
<1> SUFFICES ASSUME Init PROVE TypeInv
    OBVIOUS
<1>1. requests \subseteq Requests
    BY Constants DEF Init, Requests, NoRequest
<1>2. session \in [AllSessions -> {"free", "live", "gone"}]
    BY DEF Init
<1>3. DOMAIN target_session_ids \subseteq Targets
    BY TargetFacts, Constants DEF Init, Targets
<1>4. /\ sent \in Seq([kind : Kinds, session : Sessions \cup {Root}]) /\ Len(sent) <= MaxCommands
      /\ inbox \in Seq(Nat) /\ earlyBuffer \in Seq(Nat) /\ forwarded \in Seq(Nat)
      /\ channel \in Seq(Messages) /\ Len(channel) <= MaxChannel
    BY Constants DEF Init
<1>5. /\ phase \in {"connecting", "bridged"}
      /\ next_upstream_id \in Nat /\ next_upstream_id >= FirstId
      /\ hidden_session_ids \subseteq AllSessions /\ client_session_ids \subseteq Sessions
      /\ unseen \subseteq Sessions
    BY Constants DEF Init
<1> QED BY <1>1, <1>2, <1>3, <1>4, <1>5 DEF TypeInv

LEMMA InitIInv == Init => IInv
<1> SUFFICES ASSUME Init PROVE IInv
    OBVIOUS
<1>1. TypeInv
    BY InitTypeInv
<1>2. WireInv
    BY DEF Init, WireInv
<1>3. SteerInv
    BY Constants DEF Init, SteerInv, Steers
<1>4. OutInv
    BY DEF Init, OutInv, Answers, Customs, WorkerUnseen, EventsReachAll
<1>5. QueueInv
    <2>1. channel = <<>> /\ Len(channel) = 0
        BY DEF Init
    <2>2. \A s \in Sessions : session[s] = IF s \in unseen THEN "live" ELSE "free"
        BY Constants DEF Init
    <2>3. session[ExtSession] = "live" /\ client_session_ids = {} /\ hidden_session_ids = {}
        BY Constants DEF Init
    <2>4. \A s \in unseen : session[s] # "free"
        BY Constants DEF Init
    <2>5. EventInv /\ OrderInv
        BY <2>1 DEF EventInv, OrderInv
    <2> QED BY <2>1, <2>2, <2>3, <2>4, <2>5 DEF QueueInv, StartInv
<1>6. HideInv
    BY DEF Init, HideInv
<1>7. OrphansDetached /\ KnownAreAttached
    BY Constants DEF Init, OrphansDetached, KnownAreAttached, Live, Sessions, AllSessions
<1> QED BY <1>1, <1>2, <1>3, <1>4, <1>5, <1>6, <1>7 DEF IInv, SessionInv

-----------------------------------------------------------------------------
(* The wire: from the client to the browser.                               *)

LEMMA Appended ==
    ASSUME NEW S, NEW s \in Seq(S), NEW e \in S
    PROVE  /\ Append(s, e) \in Seq(S) /\ Len(Append(s, e)) = Len(s) + 1
           /\ \A i \in 1 .. Len(s) : Append(s, e)[i] = s[i]
           /\ Append(s, e)[Len(s) + 1] = e
    OBVIOUS

LEMMA Taken ==
    ASSUME NEW S, NEW s \in Seq(S), s # <<>>
    PROVE  /\ Tail(s) \in Seq(S) /\ Len(Tail(s)) = Len(s) - 1 /\ Len(s) > 0
           /\ \A i \in 1 .. Len(s) - 1 : Tail(s)[i] = s[i + 1]
           /\ Head(s) = s[1] /\ Head(s) \in S
    OBVIOUS

LEMMA Joined ==
    ASSUME NEW S, NEW s \in Seq(S), NEW t \in Seq(S)
    PROVE  /\ s \o t \in Seq(S) /\ Len(s \o t) = Len(s) + Len(t)
           /\ \A i \in 1 .. Len(s) : (s \o t)[i] = s[i]
           /\ \A i \in 1 .. Len(t) : (s \o t)[Len(s) + i] = t[i]
    OBVIOUS

LEMMA Functional ==
    ASSUME NEW S, NEW s \in Seq(S)
    PROVE  DOMAIN s = 1 .. Len(s) /\ s = [i \in 1 .. Len(s) |-> s[i]]
    OBVIOUS

\* What WireInv is for.
LEMMA WireOrder == TypeInv /\ WireInv => OrderKept
<1> SUFFICES ASSUME TypeInv, WireInv PROVE OrderKept
    OBVIOUS
<1> DEFINE all == (forwarded \o earlyBuffer) \o inbox
           ids == [i \in DOMAIN sent |-> i]
<1>1. /\ inbox \in Seq(Nat) /\ earlyBuffer \in Seq(Nat) /\ forwarded \in Seq(Nat)
      /\ sent \in Seq([kind : Kinds, session : Sessions \cup {Root}])
    BY DEF TypeInv
<1>2. /\ forwarded \o earlyBuffer \in Seq(Nat)
      /\ Len(forwarded \o earlyBuffer) = Len(forwarded) + Len(earlyBuffer)
      /\ \A i \in 1 .. Len(forwarded) + Len(earlyBuffer) : (forwarded \o earlyBuffer)[i] = i
    BY <1>1, Joined DEF WireInv
<1>3. all \in Seq(Nat) /\ Len(all) = Len(sent) /\ \A i \in 1 .. Len(sent) : all[i] = i
    <2>1. /\ all \in Seq(Nat) /\ Len(all) = Len(forwarded \o earlyBuffer) + Len(inbox)
          /\ \A i \in 1 .. Len(forwarded \o earlyBuffer) : all[i] = (forwarded \o earlyBuffer)[i]
          /\ \A i \in 1 .. Len(inbox) : all[Len(forwarded \o earlyBuffer) + i] = inbox[i]
        BY <1>1, <1>2, Joined
    <2> HIDE DEF all
    <2>2. /\ Len(forwarded) + Len(earlyBuffer) + Len(inbox) = Len(sent)
          /\ \A i \in 1 .. Len(inbox) : inbox[i] = Len(forwarded) + Len(earlyBuffer) + i
          /\ Len(forwarded) \in Nat /\ Len(earlyBuffer) \in Nat /\ Len(inbox) \in Nat
        BY <1>1 DEF WireInv
    <2>3. \A i \in 1 .. Len(sent) : i \notin 1 .. Len(forwarded) + Len(earlyBuffer)
            => /\ i - (Len(forwarded) + Len(earlyBuffer)) \in 1 .. Len(inbox)
               /\ i = Len(forwarded \o earlyBuffer) + (i - (Len(forwarded) + Len(earlyBuffer)))
        BY <1>2, <2>2
    <2>4. ASSUME NEW i \in 1 .. Len(sent)
          PROVE  all[i] = i
        <3>1. CASE i \in 1 .. Len(forwarded) + Len(earlyBuffer)
            BY <1>2, <2>1, <3>1
        <3>2. CASE i \notin 1 .. Len(forwarded) + Len(earlyBuffer)
            <4>1. PICK k \in 1 .. Len(inbox) : k = i - (Len(forwarded) + Len(earlyBuffer))
                BY <2>3, <3>2
            <4>2. i = Len(forwarded \o earlyBuffer) + k /\ inbox[k] = i
                BY <1>2, <2>2, <4>1
            <4> QED BY <2>1, <4>2
        <3> QED BY <3>1, <3>2
    <2>5. Len(all) = Len(sent)
        BY <1>2, <2>1, <2>2
    <2> QED BY <2>1, <2>4, <2>5
<1> HIDE DEF all
<1>4. DOMAIN sent = 1 .. Len(sent)
    BY <1>1, Functional
<1>5. all = [i \in 1 .. Len(all) |-> all[i]]
    BY <1>3, Functional
<1>6. all = ids
    BY <1>3, <1>4, <1>5
<1> QED BY <1>6 DEF OrderKept, all

LEMMA ClientSendsWire ==
    ASSUME TypeInv, WireInv, NEW kind \in Kinds, NEW s \in Sessions \cup {Root},
           ClientSends(kind, s)
    PROVE  /\ WireInv' /\ Len(sent') = Len(sent) + 1 /\ Len(sent') <= MaxCommands
           /\ sent' \in Seq([kind : Kinds, session : Sessions \cup {Root}]) /\ inbox' \in Seq(Nat)
           /\ \A i \in 1 .. Len(sent) : sent'[i] = sent[i]
<1>0. /\ inbox \in Seq(Nat) /\ sent \in Seq([kind : Kinds, session : Sessions \cup {Root}])
      /\ Len(sent) \in Nat /\ Len(inbox) \in Nat /\ Len(forwarded) \in Nat /\ Len(earlyBuffer) \in Nat
      /\ MaxCommands \in Nat
    BY Constants DEF TypeInv
<1>1. /\ Len(sent) < MaxCommands /\ sent' = Append(sent, [kind |-> kind, session |-> s])
      /\ inbox' = Append(inbox, Len(sent')) /\ UNCHANGED <<phase, earlyBuffer, forwarded>>
    BY DEF ClientSends
<1>2. /\ sent' \in Seq([kind : Kinds, session : Sessions \cup {Root}])
      /\ Len(sent') = Len(sent) + 1 /\ \A i \in 1 .. Len(sent) : sent'[i] = sent[i]
    BY <1>0, <1>1, Appended, [kind |-> kind, session |-> s] \in [kind : Kinds, session : Sessions \cup {Root}]
<1>3. /\ inbox' \in Seq(Nat) /\ Len(inbox') = Len(inbox) + 1
      /\ \A i \in 1 .. Len(inbox) : inbox'[i] = inbox[i]
      /\ inbox'[Len(inbox) + 1] = Len(sent) + 1
    BY <1>0, <1>1, <1>2, Appended
<1>4. WireInv'
    BY <1>0, <1>1, <1>2, <1>3 DEF WireInv
<1> QED BY <1>0, <1>1, <1>2, <1>3, <1>4

LEMMA ReceiveEarlyWire ==
    ASSUME TypeInv, WireInv, ReceiveEarly
    PROVE  WireInv' /\ inbox' \in Seq(Nat) /\ earlyBuffer' \in Seq(Nat)
<1>0. /\ inbox \in Seq(Nat) /\ earlyBuffer \in Seq(Nat) /\ Len(sent) \in Nat
      /\ Len(inbox) \in Nat /\ Len(forwarded) \in Nat /\ Len(earlyBuffer) \in Nat
    BY DEF TypeInv
<1>1. /\ phase = "connecting" /\ inbox # <<>> /\ earlyBuffer' = Append(earlyBuffer, Head(inbox))
      /\ inbox' = Tail(inbox) /\ UNCHANGED <<phase, forwarded, sent>>
    BY DEF ReceiveEarly
<1>2. /\ inbox' \in Seq(Nat) /\ Len(inbox') = Len(inbox) - 1 /\ Len(inbox) > 0
      /\ \A i \in 1 .. Len(inbox) - 1 : inbox'[i] = inbox[i + 1]
      /\ Head(inbox) = inbox[1] /\ Head(inbox) \in Nat
    BY <1>0, <1>1, Taken
<1>3. /\ earlyBuffer' \in Seq(Nat) /\ Len(earlyBuffer') = Len(earlyBuffer) + 1
      /\ \A i \in 1 .. Len(earlyBuffer) : earlyBuffer'[i] = earlyBuffer[i]
      /\ earlyBuffer'[Len(earlyBuffer) + 1] = inbox[1]
    BY <1>0, <1>1, <1>2, Appended
<1>4. /\ Len(forwarded) + Len(earlyBuffer) + Len(inbox) = Len(sent)
      /\ inbox[1] = Len(forwarded) + Len(earlyBuffer) + 1
      /\ \A i \in 1 .. Len(inbox) - 1 : inbox'[i] = Len(forwarded) + Len(earlyBuffer) + 1 + i
    <2>0. Len(inbox) \in Nat /\ Len(forwarded) \in Nat /\ Len(earlyBuffer) \in Nat
        BY <1>0
    <2>1. /\ Len(forwarded) + Len(earlyBuffer) \in Nat
          /\ Len(forwarded) + Len(earlyBuffer) + Len(inbox) = Len(sent)
          /\ \A i \in 1 .. Len(inbox) : inbox[i] = Len(forwarded) + Len(earlyBuffer) + i
        BY <1>0 DEF WireInv
    <2>2. inbox[1] = Len(forwarded) + Len(earlyBuffer) + 1
        BY <1>2, <2>0, <2>1
    <2>3. ASSUME NEW i \in 1 .. Len(inbox) - 1
          PROVE  inbox'[i] = Len(forwarded) + Len(earlyBuffer) + 1 + i
        <3>1. i \in Int /\ i + 1 \in 1 .. Len(inbox)
            BY <2>0
        <3>2. inbox'[i] = inbox[i + 1]
            BY <1>2
        <3>3. inbox[i + 1] = Len(forwarded) + Len(earlyBuffer) + (i + 1)
            BY <2>1, <3>1
        <3> QED BY <2>0, <3>1, <3>2, <3>3
    <2> QED BY <2>1, <2>2, <2>3
<1>5. \A i \in 1 .. Len(earlyBuffer') : earlyBuffer'[i] = Len(forwarded) + i
    <2> TAKE i \in 1 .. Len(earlyBuffer')
    <2>1. CASE i \in 1 .. Len(earlyBuffer)
        BY <1>3, <2>1 DEF WireInv
    <2>2. CASE i = Len(earlyBuffer) + 1
        BY <1>0, <1>3, <1>4, <2>2
    <2> QED BY <1>0, <1>3, <2>1, <2>2
<1>6. /\ Len(forwarded') + Len(earlyBuffer') + Len(inbox') = Len(sent')
      /\ \A i \in 1 .. Len(inbox') : inbox'[i] = Len(forwarded') + Len(earlyBuffer') + i
      /\ UNCHANGED forwarded /\ phase' # "bridged"
    <2>1. forwarded' = forwarded /\ sent' = sent /\ phase' = "connecting"
        BY <1>1
    <2>2. Len(forwarded) + Len(earlyBuffer') = Len(forwarded) + Len(earlyBuffer) + 1
        BY <1>0, <1>3
    <2>3. Len(forwarded) + Len(earlyBuffer') + Len(inbox') = Len(sent)
        <3>1. /\ Len(inbox') = Len(inbox) - 1
              /\ Len(forwarded) + Len(earlyBuffer) + Len(inbox) = Len(sent)
            BY <1>2, <1>4
        <3>2. /\ Len(inbox) \in Nat /\ Len(forwarded) \in Nat /\ Len(earlyBuffer) \in Nat
              /\ Len(earlyBuffer') = Len(earlyBuffer) + 1
            BY <1>0, <1>3
        <3> QED BY <3>1, <3>2
    <2>4. \A i \in 1 .. Len(inbox') : inbox'[i] = Len(forwarded) + Len(earlyBuffer') + i
        BY <1>2, <1>4, <2>2
    <2> QED BY <2>1, <2>3, <2>4
<1>7. WireInv'
    BY <1>5, <1>6 DEF WireInv
<1> QED BY <1>2, <1>3, <1>7

\* When commands cs are forwarded, which come next on the wire.
Forwards(cs) ==
    /\ cs \in Seq(Nat) /\ forwarded' = forwarded \o cs /\ UNCHANGED sent
    /\ \A i \in 1 .. Len(cs) : cs[i] = Len(forwarded) + i
    /\ Len(forwarded) + Len(cs) <= Len(sent)

LEMMA ForwardedIs ==
    ASSUME TypeInv, WireInv, NEW cs, Forwards(cs)
    PROVE  /\ forwarded' \in Seq(Nat) /\ Len(forwarded') = Len(forwarded) + Len(cs)
           /\ \A i \in 1 .. Len(forwarded) + Len(cs) : forwarded'[i] = i
<1>1. /\ forwarded' \in Seq(Nat) /\ Len(forwarded') = Len(forwarded) + Len(cs)
      /\ \A i \in 1 .. Len(forwarded) : forwarded'[i] = forwarded[i]
      /\ \A i \in 1 .. Len(cs) : forwarded'[Len(forwarded) + i] = cs[i]
    BY Joined DEF Forwards, TypeInv
<1>2. /\ \A i \in 1 .. Len(forwarded) : forwarded[i] = i
      /\ \A i \in 1 .. Len(cs) : cs[i] = Len(forwarded) + i
      /\ Len(forwarded) \in Nat /\ Len(cs) \in Nat
    BY DEF WireInv, Forwards, TypeInv
<1>3. \A i \in 1 .. Len(forwarded) + Len(cs) : i \notin 1 .. Len(forwarded)
        => i - Len(forwarded) \in 1 .. Len(cs) /\ i = Len(forwarded) + (i - Len(forwarded))
    BY <1>2
<1> QED BY <1>1, <1>2, <1>3

LEMMA BridgeWire ==
    ASSUME TypeInv, WireInv, Bridge
    PROVE  WireInv' /\ Forwards(earlyBuffer) /\ HandleClientMessages(earlyBuffer)
<1>1. /\ earlyBuffer \in Seq(Nat) /\ forwarded \in Seq(Nat) /\ inbox \in Seq(Nat)
      /\ Len(sent) \in Nat
    BY DEF TypeInv
<1>2. /\ HandleClientMessages(earlyBuffer) /\ earlyBuffer' = <<>> /\ UNCHANGED <<sent, inbox>>
    BY DEF Bridge, Drained
<1>3. Forwards(earlyBuffer)
    BY <1>1, <1>2 DEF Forwards, HandleClientMessages, WireInv
<1>4. Len(earlyBuffer') = 0
    BY <1>2
<1>5. /\ Len(forwarded') = Len(forwarded) + Len(earlyBuffer)
      /\ \A i \in 1 .. Len(forwarded') : forwarded'[i] = i
    BY <1>3, ForwardedIs
<1>6. /\ Len(forwarded) + Len(earlyBuffer) + Len(inbox) = Len(sent)
      /\ \A i \in 1 .. Len(inbox) : inbox[i] = Len(forwarded) + Len(earlyBuffer) + i
      /\ Len(forwarded) \in Nat /\ Len(earlyBuffer) \in Nat /\ Len(inbox) \in Nat
    BY <1>1 DEF WireInv
<1>7. WireInv'
    BY <1>2, <1>4, <1>5, <1>6 DEF WireInv
<1> QED BY <1>2, <1>3, <1>7

LEMMA HandleClientMessageWire ==
    ASSUME TypeInv, WireInv, HandleClientMessage
    PROVE  /\ WireInv' /\ Forwards(<<Head(inbox)>>) /\ HandleClientMessages(<<Head(inbox)>>)
           /\ inbox' \in Seq(Nat)
<1>1. /\ earlyBuffer \in Seq(Nat) /\ forwarded \in Seq(Nat) /\ inbox \in Seq(Nat)
      /\ Len(sent) \in Nat /\ Len(forwarded) \in Nat /\ Len(inbox) \in Nat
    BY DEF TypeInv
<1>2. /\ HandleClientMessages(<<Head(inbox)>>) /\ inbox # <<>> /\ inbox' = Tail(inbox)
      /\ UNCHANGED <<sent, earlyBuffer, phase>> /\ phase = "bridged"
    BY DEF HandleClientMessage
<1>3. /\ inbox' \in Seq(Nat) /\ Len(inbox') = Len(inbox) - 1 /\ Len(inbox) > 0
      /\ \A i \in 1 .. Len(inbox) - 1 : inbox'[i] = inbox[i + 1]
      /\ Head(inbox) = inbox[1] /\ Head(inbox) \in Nat
    BY <1>1, <1>2, Taken
<1>4. PICK cs : cs = <<Head(inbox)>>
    OBVIOUS
<1>5. cs \in Seq(Nat) /\ Len(cs) = 1 /\ cs[1] = inbox[1]
    BY <1>3, <1>4
<1>6. earlyBuffer = <<>> /\ Len(earlyBuffer) = 0
    BY <1>2 DEF WireInv
<1>7. inbox[1] = Len(forwarded) + 1 /\ Len(forwarded) + 1 <= Len(sent)
    BY <1>1, <1>3, <1>6 DEF WireInv
<1>8. Forwards(cs)
    BY <1>1, <1>2, <1>4, <1>5, <1>7 DEF Forwards, HandleClientMessages
<1>9. /\ Len(forwarded') = Len(forwarded) + 1 /\ \A i \in 1 .. Len(forwarded) + 1 : forwarded'[i] = i
    BY <1>5, <1>8, ForwardedIs
<1>10. WireInv'
    BY <1>1, <1>2, <1>3, <1>6, <1>9 DEF WireInv
<1> QED BY <1>2, <1>3, <1>4, <1>8, <1>10

LEMMA WireKept ==
    ASSUME WireInv, UNCHANGED <<phase, wire>>
    PROVE  WireInv'
    BY DEF WireInv, wire
-----------------------------------------------------------------------------
(* Steering: each upstream id, while it is pending, is one command's.      *)

LEMMA ForwardedSent ==
    ASSUME TypeInv, WireInv
    PROVE  /\ Len(forwarded) \in Nat /\ Len(sent) \in Nat /\ Len(forwarded) <= Len(sent)
           /\ \A c \in 1 .. Len(forwarded) : c \in 1 .. Len(sent)
<1>1. /\ Len(forwarded) \in Nat /\ Len(earlyBuffer) \in Nat /\ Len(inbox) \in Nat
      /\ Len(sent) \in Nat
    BY DEF TypeInv
<1>2. Len(forwarded) + Len(earlyBuffer) + Len(inbox) = Len(sent)
    BY DEF WireInv
<1> QED BY <1>1, <1>2

\* Steps that leave the table as it is.
LEMMA SteerKept ==
    ASSUME TypeInv, WireInv, SteerInv, UNCHANGED <<tables, answered, forwarded>>,
           \A i \in 1 .. Len(sent) : sent'[i] = sent[i],
           requests' \subseteq requests,
           \A i \in 1 .. Len(channel') : channel'[i].type = "response"
             => Steers(channel'[i].id, channel'[i].of)
    PROVE  SteerInv'
<1>0. UNCHANGED <<next_upstream_id, pending, answered, forwarded>>
    BY DEF tables
<1>1. \A c \in 1 .. Len(forwarded) : sent'[c] = sent[c]
    BY ForwardedSent
<1>2. \A id \in DOMAIN pending : PendingOK(pending[id])'
    <2> TAKE id \in DOMAIN pending
    <2>1. PendingOK(pending[id])
        BY DEF SteerInv
    <2> QED BY <1>0, <1>1, <2>1 DEF PendingOK
<1>3. \A c \in 1 .. Len(forwarded) : c \in answered \/ Waits(c)'
    BY <1>0 DEF SteerInv, Waits
<1> QED BY <1>0, <1>2, <1>3 DEF SteerInv, Steers

LEMMA ChannelEmits ==
    ASSUME TypeInv, SteerInv, NEW m \in Messages, channel' = Append(channel, m),
           m.type = "response" => Steers(m.id, m.of)
    PROVE  \A i \in 1 .. Len(channel') : channel'[i].type = "response"
             => Steers(channel'[i].id, channel'[i].of)
<1>1. /\ Len(channel') = Len(channel) + 1 /\ Len(channel) \in Nat
      /\ \A i \in 1 .. Len(channel) : channel'[i] = channel[i]
      /\ channel'[Len(channel) + 1] = m
    BY Appended DEF TypeInv
<1> QED BY <1>1 DEF SteerInv

LEMMA ChannelTakes ==
    ASSUME TypeInv, channel # <<>>, channel' = Tail(channel)
    PROVE  /\ channel' \in Seq(Messages) /\ Len(channel') = Len(channel) - 1
           /\ Len(channel) \in Nat /\ Len(channel) > 0 /\ Len(channel') <= MaxChannel
           /\ \A i \in 1 .. Len(channel') : i + 1 \in 1 .. Len(channel) /\ channel'[i] = channel[i + 1]
           /\ Message = channel[1] /\ Message \in Messages
<1>1. channel \in Seq(Messages) /\ Len(channel) \in Nat /\ MaxChannel \in Nat /\ Len(channel) <= MaxChannel
    BY Constants DEF TypeInv
<1>2. /\ channel' \in Seq(Messages) /\ Len(channel') = Len(channel) - 1 /\ Len(channel) > 0
      /\ \A i \in 1 .. Len(channel) - 1 : channel'[i] = channel[i + 1]
      /\ Message = channel[1] /\ Message \in Messages
    BY <1>1, Taken DEF Message
<1>3. \A i \in 1 .. Len(channel') : i \in 1 .. Len(channel) - 1 /\ i + 1 \in 1 .. Len(channel)
    BY <1>1, <1>2
<1> QED BY <1>1, <1>2, <1>3

LEMMA SteerTakes ==
    ASSUME TypeInv, SteerInv, channel # <<>>, channel' = Tail(channel)
    PROVE  \A i \in 1 .. Len(channel') : channel'[i].type = "response"
             => Steers(channel'[i].id, channel'[i].of)
    BY ChannelTakes DEF SteerInv

\* What handling the commands cs does to the table.
LEMMA Tabled ==
    ASSUME TypeInv, WireInv, SteerInv, NEW cs, Forwards(cs), HandleClientMessages(cs),
           NEW ids, ids = next_upstream_id .. next_upstream_id + Len(cs) - 1
    PROVE  /\ next_upstream_id' = next_upstream_id + Len(cs)
           /\ DOMAIN pending' = ids \cup DOMAIN pending
           /\ \A n \in DOMAIN pending : n \notin ids /\ pending'[n] = pending[n]
           /\ \A n \in ids :
                /\ n + Len(forwarded) + 1 - next_upstream_id \in Len(forwarded) + 1 .. Len(forwarded')
                /\ pending'[n] = Steered(n + Len(forwarded) + 1 - next_upstream_id)
           /\ requests' = requests \cup
                {Request(n, n + Len(forwarded) + 1 - next_upstream_id) : n \in ids}
<1>0. /\ next_upstream_id \in Nat /\ Len(cs) \in Nat /\ Len(forwarded) \in Nat
      /\ FirstId \in Nat
    BY Constants DEF TypeInv, Forwards
<1>1. /\ \A i \in 1 .. Len(cs) : cs[i] = Len(forwarded) + i
      /\ DOMAIN cs = 1 .. Len(cs)
    BY Functional DEF Forwards
<1>2. Len(forwarded') = Len(forwarded) + Len(cs)
    BY ForwardedIs
<1>3. {next_upstream_id + i - 1 : i \in DOMAIN cs} = ids
    <2>1. \A i \in DOMAIN cs : next_upstream_id + i - 1 \in ids
        BY <1>0, <1>1
    <2>2. \A n \in ids : n - next_upstream_id + 1 \in DOMAIN cs
                       /\ n = next_upstream_id + (n - next_upstream_id + 1) - 1
        BY <1>0, <1>1
    <2> QED BY <2>1, <2>2
<1>4. \A n \in ids : /\ cs[n - next_upstream_id + 1] = n + Len(forwarded) + 1 - next_upstream_id
                     /\ n + Len(forwarded) + 1 - next_upstream_id \in Len(forwarded) + 1 .. Len(forwarded')
    <2> TAKE n \in ids
    <2>1. n \in Int /\ n - next_upstream_id + 1 \in 1 .. Len(cs)
        BY <1>0
    <2>2. cs[n - next_upstream_id + 1] = Len(forwarded) + (n - next_upstream_id + 1)
        BY <1>1, <2>1
    <2>3. Len(forwarded) + (n - next_upstream_id + 1) = n + Len(forwarded) + 1 - next_upstream_id
        BY <1>0, <2>1
    <2>4. n + Len(forwarded) + 1 - next_upstream_id \in Len(forwarded) + 1 .. Len(forwarded) + Len(cs)
        BY <1>0, <2>1
    <2> QED BY <1>2, <2>2, <2>3, <2>4
<1>5. \A n \in DOMAIN pending : n \notin ids
    BY <1>0 DEF SteerInv
<1>6. /\ next_upstream_id' = next_upstream_id + Len(cs)
      /\ pending' = [n \in ids \cup DOMAIN pending |->
                       IF n \in ids THEN Steered(cs[n - next_upstream_id + 1]) ELSE pending[n]]
      /\ requests' = requests \cup {Request(n, cs[n - next_upstream_id + 1]) : n \in ids}
    BY <1>3 DEF HandleClientMessages, TakeIds
<1>7. requests' = requests \cup {Request(n, n + Len(forwarded) + 1 - next_upstream_id) : n \in ids}
    BY <1>4, <1>6
<1> QED BY <1>4, <1>5, <1>6, <1>7

SteersThen(id, c) ==
    /\ id < next_upstream_id'
    /\ id \in DOMAIN pending' /\ pending'[id].kind # "internal" => pending'[id].client_id = c

LEMMA ForwardsSteer ==
    ASSUME TypeInv, WireInv, SteerInv, NEW cs, Forwards(cs), HandleClientMessages(cs),
           UNCHANGED <<channel, answered>>
    PROVE  /\ SteerInv' /\ requests' \subseteq Requests
           /\ next_upstream_id' \in Nat /\ next_upstream_id' >= FirstId
           /\ requests \subseteq requests'
<1>0. /\ next_upstream_id \in Nat /\ Len(cs) \in Nat /\ Len(forwarded) \in Nat
      /\ FirstId \in Nat /\ next_upstream_id >= FirstId /\ requests \subseteq Requests
      /\ Len(sent) \in Nat /\ Len(sent) <= MaxCommands /\ MaxCommands \in Nat
      /\ \A c \in 1 .. Len(sent) : sent[c] \in [kind : Kinds, session : Sessions \cup {Root}]
    <2>1. /\ next_upstream_id \in Nat /\ Len(cs) \in Nat /\ Len(forwarded) \in Nat
          /\ next_upstream_id >= FirstId /\ requests \subseteq Requests
          /\ Len(sent) <= MaxCommands
        BY DEF TypeInv, Forwards
    <2>2. PICK S : S = [kind : Kinds, session : Sessions \cup {Root}]
        OBVIOUS
    <2>3. sent \in Seq(S)
        BY <2>2 DEF TypeInv
    <2>4. Len(sent) \in Nat /\ \A c \in 1 .. Len(sent) : sent[c] \in S
        BY <2>3
    <2> QED BY <2>1, <2>2, <2>4, Constants
<1>1. PICK ids : ids = next_upstream_id .. next_upstream_id + Len(cs) - 1
    OBVIOUS
<1> DEFINE of(n) == n + Len(forwarded) + 1 - next_upstream_id
<1>2. /\ next_upstream_id' = next_upstream_id + Len(cs)
      /\ DOMAIN pending' = ids \cup DOMAIN pending
      /\ \A n \in DOMAIN pending : n \notin ids /\ pending'[n] = pending[n]
      /\ \A n \in ids : of(n) \in Len(forwarded) + 1 .. Len(forwarded') /\ pending'[n] = Steered(of(n))
      /\ requests' = requests \cup {Request(n, of(n)) : n \in ids}
    BY <1>1, Tabled, ZenonT(30)
<1>3. /\ Len(forwarded') = Len(forwarded) + Len(cs) /\ Len(forwarded') \in Nat
      /\ Len(forwarded') <= Len(sent) /\ UNCHANGED sent
    BY <1>0, ForwardedIs DEF Forwards
<1>4. \A m, n \in ids : /\ n \in Nat /\ n < next_upstream_id' /\ n >= FirstId
                        /\ n >= next_upstream_id
                        /\ of(m) = of(n) => m = n
    <2>0. /\ next_upstream_id \in Nat /\ Len(cs) \in Nat /\ Len(forwarded) \in Nat
          /\ FirstId \in Nat /\ next_upstream_id >= FirstId
          /\ next_upstream_id' = next_upstream_id + Len(cs)
        BY <1>0, <1>2
    <2>1. \A n \in ids : n \in Int /\ n >= next_upstream_id /\ n < next_upstream_id + Len(cs)
        BY <1>1, <2>0
    <2>2. \A n \in ids : n \in Nat /\ n < next_upstream_id' /\ n >= FirstId
        BY <2>0, <2>1
    <2>3. \A m, n \in ids : of(m) = of(n) => m = n
        BY <2>0, <2>1
    <2> QED BY <2>1, <2>2, <2>3
<1>5. \A n \in ids : /\ of(n) \in 1 .. Len(forwarded') /\ of(n) \notin 1 .. Len(forwarded)
                     /\ of(n) \in 1 .. Len(sent) /\ of(n) \in Commands
    <2> TAKE n \in ids
    <2>1. of(n) \in Len(forwarded) + 1 .. Len(forwarded')
        BY <1>2
    <2> HIDE DEF of
    <2> QED BY <1>0, <1>3, <2>1 DEF Commands
<1> HIDE DEF of
<1>6. \A n \in ids : /\ sent[of(n)] \in [kind : Kinds, session : Sessions \cup {Root}]
                     /\ of(n) \notin answered
    BY <1>0, <1>5 DEF SteerInv
<1>7. \A n \in ids : PendingOK(pending[n])'
    <2> TAKE n \in ids
    <2>1. pending'[n] = [kind |-> sent[of(n)].kind, client_id |-> of(n),
                        client_session_id |-> sent[of(n)].session]
        BY <1>2 DEF Steered
    <2> QED BY <1>3, <1>5, <1>6, <2>1 DEF PendingOK
<1>8. \A n \in DOMAIN pending : PendingOK(pending[n])'
    <2> TAKE n \in DOMAIN pending
    <2>1. PendingOK(pending[n]) /\ pending'[n] = pending[n]
        BY <1>2 DEF SteerInv
    <2>2. 1 .. Len(forwarded) \subseteq 1 .. Len(forwarded')
        BY <1>0, <1>3
    <2> QED BY <1>3, <2>1, <2>2 DEF PendingOK
<1>9. \A n \in ids : /\ pending'[n].kind # "internal" /\ pending'[n].client_id = of(n)
    BY <1>2, <1>6 DEF Steered, Kinds
<1>10. \A n \in DOMAIN pending : pending'[n].kind # "internal"
         => pending'[n].client_id \in 1 .. Len(forwarded)
    BY <1>2 DEF SteerInv, PendingOK
<1>11. \A i, j \in DOMAIN pending' :
         pending'[i].kind # "internal" /\ pending'[j].kind # "internal"
           /\ pending'[i].client_id = pending'[j].client_id => i = j
    <2> SUFFICES ASSUME NEW i \in DOMAIN pending', NEW j \in DOMAIN pending',
                        pending'[i].kind # "internal", pending'[j].kind # "internal",
                        pending'[i].client_id = pending'[j].client_id
                 PROVE  i = j
        OBVIOUS
    <2>1. CASE i \in ids /\ j \in ids
        BY <1>4, <1>9, <2>1
    <2>2. CASE i \notin ids /\ j \notin ids
        BY <1>2, <2>2 DEF SteerInv
    <2>3. CASE i \in ids /\ j \notin ids
        BY <1>2, <1>5, <1>9, <1>10, <2>3
    <2>4. CASE i \notin ids /\ j \in ids
        BY <1>2, <1>5, <1>9, <1>10, <2>4
    <2> QED BY <2>1, <2>2, <2>3, <2>4
<1>12. \A c \in 1 .. Len(forwarded') : c \in answered \/ Waits(c)'
    <2> TAKE c \in 1 .. Len(forwarded')
    <2>1. CASE c \in 1 .. Len(forwarded)
        BY <1>2, <2>1 DEF SteerInv, Waits
    <2>2. CASE c \notin 1 .. Len(forwarded)
        <3>1. PICK n \in ids : n = next_upstream_id + c - Len(forwarded) - 1
            <4>1. /\ c \in Int /\ c > Len(forwarded) /\ c <= Len(forwarded) + Len(cs)
                  /\ Len(forwarded) \in Nat /\ Len(cs) \in Nat /\ next_upstream_id \in Nat
                BY <1>0, <1>3, <2>2
            <4> DEFINE n == next_upstream_id + c - Len(forwarded) - 1
            <4>2. /\ n \in Int /\ n >= next_upstream_id
                  /\ n <= next_upstream_id + Len(cs) - 1
                BY <4>1
            <4>3. n \in ids
                BY <1>1, <4>1, <4>2
            <4> QED BY <4>3
        <3>2. of(n) = c
            BY <1>0, <1>3, <3>1 DEF of
        <3> QED BY <1>2, <1>9, <3>1, <3>2 DEF Waits
    <2> QED BY <2>1, <2>2
<1>13. \A id \in Nat : \A c : Steers(id, c) => SteersThen(id, c)
    BY <1>0, <1>2, <1>4 DEF Steers, SteersThen
<1>14. \A n \in ids : SteersThen(n, of(n))
    BY <1>4, <1>9 DEF SteersThen
<1>15. requests' \subseteq Requests
    <2>1. \A n \in ids : Request(n, of(n)) \in Requests
        BY <1>4, <1>5, <1>6, Constants DEF Request, Requests, AllSessions
    <2> QED BY <1>0, <1>2, <2>1
<1>16. \A r \in requests' : SteersThen(r.id, r.of)
    <2>1. \A r \in requests : SteersThen(r.id, r.of)
        BY <1>0, <1>13 DEF SteerInv, Requests
    <2>2. \A n \in ids : Request(n, of(n)).id = n /\ Request(n, of(n)).of = of(n)
        BY DEF Request
    <2> QED BY <1>2, <1>14, <2>1, <2>2
<1>17. \A i \in 1 .. Len(channel') :
         channel'[i].type = "response" => SteersThen(channel'[i].id, channel'[i].of)
    <2> TAKE i \in 1 .. Len(channel')
    <2>1. channel' = channel /\ channel[i] \in Messages
        BY DEF TypeInv
    <2>2. channel[i].type = "response" => channel[i].id \in Nat
        BY <2>1 DEF Messages, Responses, SessionEvents, OtherEvents, TargetEvents
    <2> QED BY <1>13, <2>1, <2>2 DEF SteerInv
<1>18. DOMAIN pending' \subseteq FirstId .. next_upstream_id' - 1
    BY <1>0, <1>2, <1>4 DEF SteerInv
<1>19. answered' \subseteq 1 .. Len(forwarded')
    BY <1>0, <1>3 DEF SteerInv
<1>20. SteerInv'
    <2>1. \A id \in DOMAIN pending' : PendingOK(pending[id])'
        BY <1>2, <1>7, <1>8
    <2> QED BY <1>11, <1>12, <1>16, <1>17, <1>18, <1>19, <2>1 DEF SteerInv, Steers, SteersThen
<1> QED BY <1>0, <1>2, <1>15, <1>20
-----------------------------------------------------------------------------
(* Sessions: what is in flight, and what the proxy knows of it.            *)

IsFor(m, method, s) == m.type = "event" /\ m.method = method /\ m.child = s

LEMMA InFlightIs ==
    ASSUME TypeInv
    PROVE  \A x : \A s : InFlight(x, s) <=> \E i \in 1 .. Len(channel) : At(i, x, s)
<1>1. DOMAIN channel = 1 .. Len(channel)
    BY Functional DEF TypeInv
<1> QED BY <1>1 DEF InFlight, At

\* A message m joins the queue.
Joins(m) ==
    /\ Len(channel) \in Nat /\ Len(channel') = Len(channel) + 1
    /\ \A i \in 1 .. Len(channel) : channel'[i] = channel[i]
    /\ channel'[Len(channel) + 1] = m
    /\ channel' \in Seq(Messages) /\ channel \in Seq(Messages)

LEMMA EmitsJoins ==
    ASSUME TypeInv, NEW m \in Messages, Emits(m)
    PROVE  Joins(m)
    BY Appended DEF TypeInv, Emits, Joins

AtThen(i, x, s) ==
    channel'[i].type = "event" /\ channel'[i].method = x /\ channel'[i].child = s

LEMMA PrimedAt ==
    ASSUME channel' \in Seq(Messages)
    PROVE  /\ \A i, x, s : At(i, x, s)' <=> AtThen(i, x, s)
           /\ \A x, s : InFlight(x, s)' <=> \E i \in 1 .. Len(channel') : AtThen(i, x, s)
<1>1. DOMAIN channel' = 1 .. Len(channel')
    BY Functional
<1> QED BY <1>1 DEF InFlight, At, AtThen

LEMMA JoinedAt ==
    ASSUME TypeInv, NEW m, Joins(m)
    PROVE  /\ \A i \in 1 .. Len(channel') : i \in 1 .. Len(channel) \/ i = Len(channel) + 1
           /\ \A i \in 1 .. Len(channel) : i \in 1 .. Len(channel') /\ i # Len(channel) + 1
           /\ Len(channel) + 1 \in 1 .. Len(channel')
           /\ \A i \in 1 .. Len(channel) : \A x, s : AtThen(i, x, s) <=> At(i, x, s)
           /\ \A x, s : AtThen(Len(channel) + 1, x, s) <=> IsFor(m, x, s)
           /\ \A x, s : InFlight(x, s)' <=> InFlight(x, s) \/ IsFor(m, x, s)
<1>1. /\ Len(channel) \in Nat /\ Len(channel') = Len(channel) + 1
      /\ \A i \in 1 .. Len(channel) : channel'[i] = channel[i]
      /\ channel'[Len(channel) + 1] = m /\ channel' \in Seq(Messages)
    BY DEF Joins
<1>2. /\ \A i \in 1 .. Len(channel') : i \in 1 .. Len(channel) \/ i = Len(channel) + 1
      /\ \A i \in 1 .. Len(channel) : i \in 1 .. Len(channel') /\ i # Len(channel) + 1
      /\ Len(channel) + 1 \in 1 .. Len(channel')
    BY <1>1
<1>3. /\ \A i \in 1 .. Len(channel) : \A x, s : AtThen(i, x, s) <=> At(i, x, s)
      /\ \A x, s : AtThen(Len(channel) + 1, x, s) <=> IsFor(m, x, s)
    BY <1>1 DEF At, AtThen, IsFor
<1>4. \A x, s : InFlight(x, s)' <=> InFlight(x, s) \/ IsFor(m, x, s)
    <2> TAKE x, s
    <2>1. InFlight(x, s) <=> \E i \in 1 .. Len(channel) : At(i, x, s)
        BY InFlightIs
    <2>2. InFlight(x, s)' <=> \E i \in 1 .. Len(channel') : AtThen(i, x, s)
        BY <1>1, PrimedAt
    <2> QED BY <1>2, <1>3, <2>1, <2>2
<1> QED BY <1>2, <1>3, <1>4

LEMMA TakenAt ==
    ASSUME TypeInv, channel # <<>>, channel' = Tail(channel)
    PROVE  /\ \A i \in 1 .. Len(channel') : /\ i + 1 \in 1 .. Len(channel)
                                            /\ channel'[i] = channel[i + 1]
           /\ \A i \in 1 .. Len(channel) : i # 1 => i - 1 \in 1 .. Len(channel')
           /\ 1 \in 1 .. Len(channel)
           /\ \A i \in 1 .. Len(channel') : \A x, s : AtThen(i, x, s) <=> At(i + 1, x, s)
           /\ \A x, s : At(1, x, s) <=> IsFor(Message, x, s)
           /\ \A x, s : InFlight(x, s) <=> InFlight(x, s)' \/ IsFor(Message, x, s)
<1>1. /\ channel' \in Seq(Messages) /\ Len(channel') = Len(channel) - 1
      /\ Len(channel) \in Nat /\ Len(channel) > 0
      /\ \A i \in 1 .. Len(channel') : i + 1 \in 1 .. Len(channel) /\ channel'[i] = channel[i + 1]
      /\ Message = channel[1]
    BY ChannelTakes
<1>2. /\ \A i \in 1 .. Len(channel) : i # 1 => i - 1 \in 1 .. Len(channel') /\ (i - 1) + 1 = i
      /\ 1 \in 1 .. Len(channel)
    BY <1>1
<1>3. /\ \A i \in 1 .. Len(channel') : \A x, s : AtThen(i, x, s) <=> At(i + 1, x, s)
      /\ \A x, s : At(1, x, s) <=> IsFor(Message, x, s)
    BY <1>1 DEF At, AtThen, IsFor
<1>4. \A x, s : InFlight(x, s) <=> InFlight(x, s)' \/ IsFor(Message, x, s)
    <2> TAKE x, s
    <2>1. InFlight(x, s) <=> \E i \in 1 .. Len(channel) : At(i, x, s)
        BY InFlightIs
    <2>2. InFlight(x, s)' <=> \E i \in 1 .. Len(channel') : AtThen(i, x, s)
        BY <1>1, PrimedAt
    <2>3. ASSUME NEW i \in 1 .. Len(channel), At(i, x, s), i # 1
          PROVE  AtThen(i - 1, x, s)
        BY <1>2, <1>3, <2>3
    <2> QED BY <1>1, <1>2, <1>3, <2>1, <2>2, <2>3
<1> QED BY <1>1, <1>2, <1>3, <1>4

AttachedEvent(s) == Event("attachedToTarget", Root, s, TargetOf(s))
DetachedEvent(s, target) == Event("detachedFromTarget", Root, s, target)
Neutral(m) == \A s : ~IsFor(m, "attachedToTarget", s) /\ ~IsFor(m, "detachedFromTarget", s)

\* No orphan loses the request to detach it, but those that are not live.
RequestsKept ==
    \A r \in requests : r.detach \in Orphans => r \in requests' \/ session'[r.detach] # "live"

EventThen(i, s) ==
    channel'[i].type = "event" /\ channel'[i].method = "sessionEvent" /\ channel'[i].session = s
KnownThen(s, k) == s \in hidden_session_ids' \/ \E j \in 1 .. k : AtThen(j, "attachedToTarget", s)

LEMMA HidesThen ==
    ASSUME UNCHANGED unseen,
           phase' = "bridged" => \A s \in Hideable : session'[s] = "live" => KnownThen(s, Len(channel')),
           \A i \in 1 .. Len(channel') : \A s \in Hideable : EventThen(i, s) =>
             KnownThen(s, i - 1) /\ \A j \in 1 .. i - 1 : ~AtThen(j, "detachedFromTarget", s)
    PROVE  HideInv'
    BY DEF HideInv, Known, KnownThen, At, AtThen, EventOf, EventThen, Hideable, Live

\* The browser emits an event of a session, a response, or one of something else.
LEMMA EmitsNeutral ==
    ASSUME TypeInv, SessionInv, NEW m, Joins(m), Neutral(m), phase = "bridged",
           UNCHANGED <<phase, hides, session, unseen>>, RequestsKept,
           \A s \in AllSessions : m.type = "event" /\ m.method = "sessionEvent" /\ m.session = s
             => Live(s)
    PROVE  SessionInv'
<1>0. /\ UNCHANGED <<phase, hidden_session_ids, client_session_ids, session, unseen>>
      /\ StartInv /\ EventInv /\ OrderInv /\ HideInv /\ OrphansDetached /\ KnownAreAttached
      /\ channel' \in Seq(Messages)
    BY DEF hides, SessionInv, QueueInv, Joins
<1> DEFINE n == Len(channel) + 1
<1>1. /\ \A i \in 1 .. Len(channel') : i \in 1 .. Len(channel) \/ i = n
      /\ \A i \in 1 .. Len(channel) : i \in 1 .. Len(channel') /\ i # n
      /\ n \in 1 .. Len(channel') /\ n - 1 = Len(channel) /\ Len(channel') = n
      /\ \A i \in 1 .. Len(channel) : \A x, s : AtThen(i, x, s) <=> At(i, x, s)
      /\ \A x, s : AtThen(n, x, s) <=> IsFor(m, x, s)
      /\ \A x, s : InFlight(x, s)' <=> InFlight(x, s) \/ IsFor(m, x, s)
      /\ \A i \in 1 .. Len(channel) : channel'[i] = channel[i]
      /\ channel'[n] = m
      /\ \A i \in 1 .. Len(channel) : 1 .. i - 1 \subseteq 1 .. Len(channel)
    BY JoinedAt DEF Joins
<1> HIDE DEF n
<1>2. /\ \A s : /\ InFlight("attachedToTarget", s)' <=> InFlight("attachedToTarget", s)
                /\ InFlight("detachedFromTarget", s)' <=> InFlight("detachedFromTarget", s)
      /\ \A s : ~AtThen(n, "attachedToTarget", s) /\ ~AtThen(n, "detachedFromTarget", s)
    BY <1>1 DEF Neutral
<1>3. StartInv'
    BY <1>0 DEF StartInv
<1>4. EventInv'
    <2> SUFFICES ASSUME NEW i \in 1 .. Len(channel'), NEW s \in AllSessions,
                        AtThen(i, "attachedToTarget", s) \/ AtThen(i, "detachedFromTarget", s)
                 PROVE  /\ channel'[i].session = Root /\ OfTarget(channel'[i], s)
                        /\ AtThen(i, "attachedToTarget", s) =>
                             /\ s \in Sessions \ unseen /\ session[s] # "free"
                             /\ session[s] = "gone" => InFlight("detachedFromTarget", s)'
                        /\ AtThen(i, "detachedFromTarget", s) => session[s] = "gone"
        BY <1>0, PrimedAt DEF EventInv
    <2>1. i \in 1 .. Len(channel) /\ channel'[i] = channel[i]
        BY <1>1, <1>2
    <2> QED BY <1>0, <1>1, <1>2, <2>1 DEF EventInv
<1>5. OrderInv'
    <2> SUFFICES \A i, j \in 1 .. Len(channel'), s \in AllSessions :
          /\ AtThen(i, "attachedToTarget", s) /\ AtThen(j, "attachedToTarget", s) => i = j
          /\ AtThen(i, "detachedFromTarget", s) /\ AtThen(j, "detachedFromTarget", s) => i = j
          /\ AtThen(i, "attachedToTarget", s) /\ AtThen(j, "detachedFromTarget", s) => i < j
        BY <1>0, PrimedAt DEF OrderInv
    <2> QED BY <1>0, <1>1, <1>2 DEF OrderInv
<1>6. HideInv'
    <2>1. \A s \in Hideable : Live(s) => KnownThen(s, n)
        BY <1>0, <1>1 DEF HideInv, Known, KnownThen
    <2>2. ASSUME NEW i \in 1 .. Len(channel), NEW s \in Hideable, EventThen(i, s)
          PROVE  KnownThen(s, i - 1) /\ \A j \in 1 .. i - 1 : ~AtThen(j, "detachedFromTarget", s)
        <3>1. EventOf(i, s)
            BY <1>1, <2>2 DEF EventOf, EventThen
        <3>2. Known(s, i - 1) /\ \A j \in 1 .. i - 1 : ~At(j, "detachedFromTarget", s)
            BY <1>0, <3>1 DEF HideInv
        <3> QED BY <1>0, <1>1, <3>2 DEF Known, KnownThen
    <2>3. ASSUME NEW s \in Hideable, EventThen(n, s)
          PROVE  KnownThen(s, n - 1) /\ \A j \in 1 .. n - 1 : ~AtThen(j, "detachedFromTarget", s)
        <3>1. Live(s) /\ s \in AllSessions
            BY <1>1, <2>3 DEF EventThen, Hideable
        <3>2. Known(s, Len(channel)) /\ \A j \in 1 .. Len(channel) : ~At(j, "detachedFromTarget", s)
            BY <1>0, <3>1 DEF HideInv, EventInv, Live
        <3> QED BY <1>0, <1>1, <3>2 DEF Known, KnownThen
    <2>4. \A i \in 1 .. Len(channel') : \A s \in Hideable : EventThen(i, s) =>
            KnownThen(s, i - 1) /\ \A j \in 1 .. i - 1 : ~AtThen(j, "detachedFromTarget", s)
        BY <1>1, <2>2, <2>3
    <2> QED BY <1>0, <1>1, <2>1, <2>4, HidesThen DEF Live
<1>7. OrphansDetached'
    BY <1>0, <1>2 DEF OrphansDetached, RequestsKept, Live
<1>8. KnownAreAttached'
    BY <1>0, <1>2 DEF KnownAreAttached, Live
<1> QED BY <1>3, <1>4, <1>5, <1>6, <1>7, <1>8 DEF SessionInv, QueueInv

\* The browser attaches a session.
LEMMA EmitsAttached ==
    ASSUME TypeInv, SessionInv, NEW s0 \in Sessions, NEW m, m = AttachedEvent(s0), Joins(m),
           phase = "bridged", session[s0] = "free",
           session' = [session EXCEPT ![s0] = "live"],
           UNCHANGED <<phase, hides, requests, unseen>>
    PROVE  SessionInv'
<1>0. /\ UNCHANGED <<phase, hidden_session_ids, client_session_ids, requests, unseen>>
      /\ StartInv /\ EventInv /\ OrderInv /\ HideInv /\ OrphansDetached /\ KnownAreAttached
      /\ channel' \in Seq(Messages)
      /\ session'[s0] = "live" /\ \A s \in AllSessions : s # s0 => session'[s] = session[s]
      /\ s0 \in AllSessions /\ s0 \notin unseen /\ unseen \subseteq AllSessions
    BY Constants DEF hides, SessionInv, QueueInv, Joins, TypeInv, StartInv
<1> DEFINE n == Len(channel) + 1
<1>1. /\ \A i \in 1 .. Len(channel') : i \in 1 .. Len(channel) \/ i = n
      /\ \A i \in 1 .. Len(channel) : i \in 1 .. Len(channel') /\ i # n /\ i < n
      /\ n \in 1 .. Len(channel') /\ n - 1 = Len(channel) /\ Len(channel') = n
      /\ \A i \in 1 .. Len(channel) : \A x, s : AtThen(i, x, s) <=> At(i, x, s)
      /\ \A x, s : AtThen(n, x, s) <=> IsFor(m, x, s)
      /\ \A x, s : InFlight(x, s)' <=> InFlight(x, s) \/ IsFor(m, x, s)
      /\ \A i \in 1 .. Len(channel) : channel'[i] = channel[i]
      /\ channel'[n] = m
      /\ \A i \in 1 .. Len(channel) : 1 .. i - 1 \subseteq 1 .. Len(channel)
    BY JoinedAt DEF Joins
<1> HIDE DEF n
<1>2. /\ \A s : IsFor(m, "attachedToTarget", s) <=> s = s0
      /\ \A s : ~IsFor(m, "detachedFromTarget", s)
      /\ m.session = Root /\ OfTarget(m, s0)
    BY DEF IsFor, AttachedEvent, Event, OfTarget
<1>3. /\ \A s : /\ InFlight("attachedToTarget", s)' <=> InFlight("attachedToTarget", s) \/ s = s0
                /\ InFlight("detachedFromTarget", s)' <=> InFlight("detachedFromTarget", s)
      /\ \A i \in 1 .. Len(channel) : /\ ~At(i, "attachedToTarget", s0)
                                      /\ ~At(i, "detachedFromTarget", s0)
      /\ ~InFlight("attachedToTarget", s0)
    <2>1. \A i \in 1 .. Len(channel) : ~At(i, "attachedToTarget", s0) /\ ~At(i, "detachedFromTarget", s0)
        BY <1>0 DEF EventInv
    <2>2. ~InFlight("attachedToTarget", s0)
        BY <2>1, InFlightIs
    <2> QED BY <1>1, <1>2, <2>1, <2>2
<1>4. StartInv'
    <2>1. \A s \in unseen : session'[s] # "free"
        BY <1>0 DEF StartInv
    <2>2. session'[ExtSession] # "free"
        BY <1>0, Constants DEF StartInv
    <2> QED BY <1>0, <2>1, <2>2 DEF StartInv
<1>5. EventInv'
    <2> SUFFICES ASSUME NEW i \in 1 .. Len(channel'), NEW s \in AllSessions,
                        AtThen(i, "attachedToTarget", s) \/ AtThen(i, "detachedFromTarget", s)
                 PROVE  /\ channel'[i].session = Root /\ OfTarget(channel'[i], s)
                        /\ AtThen(i, "attachedToTarget", s) =>
                             /\ s \in Sessions \ unseen /\ session'[s] # "free"
                             /\ session'[s] = "gone" => InFlight("detachedFromTarget", s)'
                        /\ AtThen(i, "detachedFromTarget", s) => session'[s] = "gone"
        BY <1>0, PrimedAt DEF EventInv
    <2>1. CASE i = n
        BY <1>0, <1>1, <1>2, <2>1
    <2>2. CASE i # n
        <3>1. /\ i \in 1 .. Len(channel) /\ channel'[i] = channel[i]
              /\ At(i, "attachedToTarget", s) \/ At(i, "detachedFromTarget", s)
              /\ AtThen(i, "attachedToTarget", s) <=> At(i, "attachedToTarget", s)
              /\ AtThen(i, "detachedFromTarget", s) <=> At(i, "detachedFromTarget", s)
            BY <1>1, <2>2
        <3>2. s # s0 /\ session'[s] = session[s]
            BY <1>0, <1>3, <3>1
        <3> QED BY <1>0, <1>3, <3>1, <3>2 DEF EventInv
    <2> QED BY <2>1, <2>2
<1>6. OrderInv'
    <2> SUFFICES \A i, j \in 1 .. Len(channel'), s \in AllSessions :
          /\ AtThen(i, "attachedToTarget", s) /\ AtThen(j, "attachedToTarget", s) => i = j
          /\ AtThen(i, "detachedFromTarget", s) /\ AtThen(j, "detachedFromTarget", s) => i = j
          /\ AtThen(i, "attachedToTarget", s) /\ AtThen(j, "detachedFromTarget", s) => i < j
        BY <1>0, PrimedAt DEF OrderInv
    <2> QED BY <1>0, <1>1, <1>2, <1>3 DEF OrderInv
<1>7. HideInv'
    <2>1. \A s \in Hideable : session'[s] = "live" => KnownThen(s, n)
        BY <1>0, <1>1, <1>2 DEF HideInv, Known, KnownThen, Hideable, Live
    <2>2. ASSUME NEW i \in 1 .. Len(channel'), NEW s \in Hideable, EventThen(i, s)
          PROVE  KnownThen(s, i - 1) /\ \A j \in 1 .. i - 1 : ~AtThen(j, "detachedFromTarget", s)
        <3>1. i \in 1 .. Len(channel) /\ EventOf(i, s)
            BY <1>1, <2>2 DEF EventOf, EventThen, AttachedEvent, Event
        <3>2. Known(s, i - 1) /\ \A j \in 1 .. i - 1 : ~At(j, "detachedFromTarget", s)
            BY <1>0, <3>1 DEF HideInv
        <3> QED BY <1>0, <1>1, <3>1, <3>2 DEF Known, KnownThen
    <2> QED BY <1>0, <1>1, <2>1, <2>2, HidesThen
<1>8. OrphansDetached'
    BY <1>0, <1>3, TargetFacts, Constants DEF OrphansDetached, Live
<1>9. KnownAreAttached'
    BY <1>0, <1>3, TargetFacts, Constants DEF KnownAreAttached, Live
<1> QED BY <1>4, <1>5, <1>6, <1>7, <1>8, <1>9 DEF SessionInv, QueueInv

\* A session of the browser ends.
LEMMA EmitsDetached ==
    ASSUME TypeInv, SessionInv, NEW s0 \in AllSessions, NEW m, Joins(m),
           NEW target \in {TargetOf(s0), Root}, m = DetachedEvent(s0, target),
           phase = "bridged", session[s0] = "live",
           session' = [session EXCEPT ![s0] = "gone"],
           UNCHANGED <<phase, hides, unseen>>, RequestsKept
    PROVE  SessionInv'
<1>0. /\ UNCHANGED <<phase, hidden_session_ids, client_session_ids, unseen>>
      /\ StartInv /\ EventInv /\ OrderInv /\ HideInv /\ OrphansDetached /\ KnownAreAttached
      /\ channel' \in Seq(Messages)
      /\ session'[s0] = "gone" /\ \A s \in AllSessions : s # s0 => session'[s] = session[s]
      /\ unseen \subseteq AllSessions
    BY Constants DEF hides, SessionInv, QueueInv, Joins, TypeInv
<1> DEFINE n == Len(channel) + 1
<1>1. /\ \A i \in 1 .. Len(channel') : i \in 1 .. Len(channel) \/ i = n
      /\ \A i \in 1 .. Len(channel) : i \in 1 .. Len(channel') /\ i # n /\ i < n
      /\ n \in 1 .. Len(channel') /\ n - 1 = Len(channel) /\ Len(channel') = n
      /\ \A i \in 1 .. Len(channel) : \A x, s : AtThen(i, x, s) <=> At(i, x, s)
      /\ \A x, s : AtThen(n, x, s) <=> IsFor(m, x, s)
      /\ \A x, s : InFlight(x, s)' <=> InFlight(x, s) \/ IsFor(m, x, s)
      /\ \A i \in 1 .. Len(channel) : channel'[i] = channel[i]
      /\ channel'[n] = m
      /\ \A i \in 1 .. Len(channel) : 1 .. i - 1 \subseteq 1 .. Len(channel)
    BY JoinedAt DEF Joins
<1> HIDE DEF n
<1>2. /\ \A s : IsFor(m, "detachedFromTarget", s) <=> s = s0
      /\ \A s : ~IsFor(m, "attachedToTarget", s)
      /\ m.session = Root /\ OfTarget(m, s0)
    BY DEF IsFor, DetachedEvent, Event, OfTarget
<1>3. /\ \A s : /\ InFlight("detachedFromTarget", s)' <=> InFlight("detachedFromTarget", s) \/ s = s0
                /\ InFlight("attachedToTarget", s)' <=> InFlight("attachedToTarget", s)
      /\ \A i \in 1 .. Len(channel) : ~At(i, "detachedFromTarget", s0)
    <2>1. \A i \in 1 .. Len(channel) : ~At(i, "detachedFromTarget", s0)
        BY <1>0 DEF EventInv
    <2> QED BY <1>1, <1>2, <2>1
<1>4. StartInv'
    <2>1. \A s \in unseen : session'[s] # "free"
        BY <1>0 DEF StartInv
    <2>2. session'[ExtSession] # "free"
        BY <1>0, Constants DEF StartInv
    <2> QED BY <1>0, <2>1, <2>2 DEF StartInv
<1>5. EventInv'
    <2> SUFFICES ASSUME NEW i \in 1 .. Len(channel'), NEW s \in AllSessions,
                        AtThen(i, "attachedToTarget", s) \/ AtThen(i, "detachedFromTarget", s)
                 PROVE  /\ channel'[i].session = Root /\ OfTarget(channel'[i], s)
                        /\ AtThen(i, "attachedToTarget", s) =>
                             /\ s \in Sessions \ unseen /\ session'[s] # "free"
                             /\ session'[s] = "gone" => InFlight("detachedFromTarget", s)'
                        /\ AtThen(i, "detachedFromTarget", s) => session'[s] = "gone"
        BY <1>0, PrimedAt DEF EventInv
    <2>1. CASE i = n
        BY <1>0, <1>1, <1>2, <2>1
    <2>2. CASE i # n
        <3>1. /\ i \in 1 .. Len(channel) /\ channel'[i] = channel[i]
              /\ At(i, "attachedToTarget", s) \/ At(i, "detachedFromTarget", s)
              /\ AtThen(i, "attachedToTarget", s) <=> At(i, "attachedToTarget", s)
              /\ AtThen(i, "detachedFromTarget", s) <=> At(i, "detachedFromTarget", s)
            BY <1>1, <2>2
        <3>2. CASE s # s0
            BY <1>0, <1>3, <3>1, <3>2 DEF EventInv
        <3>3. CASE s = s0
            BY <1>0, <1>3, <3>1, <3>3 DEF EventInv
        <3> QED BY <3>2, <3>3
    <2> QED BY <2>1, <2>2
<1>6. OrderInv'
    <2> SUFFICES \A i, j \in 1 .. Len(channel'), s \in AllSessions :
          /\ AtThen(i, "attachedToTarget", s) /\ AtThen(j, "attachedToTarget", s) => i = j
          /\ AtThen(i, "detachedFromTarget", s) /\ AtThen(j, "detachedFromTarget", s) => i = j
          /\ AtThen(i, "attachedToTarget", s) /\ AtThen(j, "detachedFromTarget", s) => i < j
        BY <1>0, PrimedAt DEF OrderInv
    <2> QED BY <1>0, <1>1, <1>2, <1>3 DEF OrderInv
<1>7. HideInv'
    <2>1. \A s \in Hideable : session'[s] = "live" => KnownThen(s, n)
        BY <1>0, <1>1 DEF HideInv, Known, KnownThen, Hideable, Live
    <2>2. ASSUME NEW i \in 1 .. Len(channel'), NEW s \in Hideable, EventThen(i, s)
          PROVE  KnownThen(s, i - 1) /\ \A j \in 1 .. i - 1 : ~AtThen(j, "detachedFromTarget", s)
        <3>1. i \in 1 .. Len(channel) /\ EventOf(i, s)
            BY <1>1, <2>2 DEF EventOf, EventThen, DetachedEvent, Event
        <3>2. Known(s, i - 1) /\ \A j \in 1 .. i - 1 : ~At(j, "detachedFromTarget", s)
            BY <1>0, <3>1 DEF HideInv
        <3> QED BY <1>0, <1>1, <3>1, <3>2 DEF Known, KnownThen
    <2> QED BY <1>0, <1>1, <2>1, <2>2, HidesThen
<1>8. OrphansDetached'
    BY <1>0, <1>3, TargetFacts, Constants DEF OrphansDetached, RequestsKept, Live
<1>9. KnownAreAttached'
    BY <1>0, <1>3, TargetFacts, Constants DEF KnownAreAttached, Live
<1> QED BY <1>4, <1>5, <1>6, <1>7, <1>8, <1>9 DEF SessionInv, QueueInv

\* The proxy handles a response or an event of another kind.
LEMMA TakesNeutral ==
    ASSUME TypeInv, SessionInv, channel # <<>>, channel' = Tail(channel), Neutral(Message),
           UNCHANGED <<phase, hides, requests, session, unseen>>
    PROVE  SessionInv'
<1>0. /\ UNCHANGED <<phase, hidden_session_ids, client_session_ids, requests, session, unseen>>
      /\ StartInv /\ EventInv /\ OrderInv /\ HideInv /\ OrphansDetached /\ KnownAreAttached
      /\ channel' \in Seq(Messages) /\ Len(channel') = Len(channel) - 1 /\ Len(channel) \in Nat
      /\ Len(channel') \in Nat /\ Len(channel) > 0
    BY ChannelTakes DEF hides, SessionInv, QueueInv
<1>1. /\ \A i \in 1 .. Len(channel') : /\ i + 1 \in 1 .. Len(channel)
                                       /\ channel'[i] = channel[i + 1]
      /\ \A i \in 1 .. Len(channel) : i # 1 => i - 1 \in 1 .. Len(channel')
      /\ 1 \in 1 .. Len(channel)
      /\ \A i \in 1 .. Len(channel') : \A x, s : AtThen(i, x, s) <=> At(i + 1, x, s)
      /\ \A x, s : At(1, x, s) <=> IsFor(Message, x, s)
      /\ \A x, s : InFlight(x, s) <=> InFlight(x, s)' \/ IsFor(Message, x, s)
      /\ Message = channel[1] /\ Message \in Messages
    BY TakenAt, ChannelTakes
<1>2. \A s : /\ InFlight("attachedToTarget", s)' <=> InFlight("attachedToTarget", s)
             /\ InFlight("detachedFromTarget", s)' <=> InFlight("detachedFromTarget", s)
             /\ ~At(1, "attachedToTarget", s) /\ ~At(1, "detachedFromTarget", s)
    BY <1>1 DEF Neutral
<1>3. StartInv'
    <2>1. phase # "connecting"
        BY DEF SessionInv, QueueInv, StartInv
    <2> QED BY <1>0, <2>1 DEF StartInv
<1>4. /\ hidden_session_ids \subseteq hidden_session_ids'
      /\ \A s \in Hideable : At(1, "attachedToTarget", s) => s \in hidden_session_ids'
    BY <1>0, <1>2
<1>5. EventInv'
    <2> SUFFICES ASSUME NEW i \in 1 .. Len(channel'), NEW s \in AllSessions,
                        AtThen(i, "attachedToTarget", s) \/ AtThen(i, "detachedFromTarget", s)
                 PROVE  /\ channel'[i].session = Root /\ OfTarget(channel'[i], s)
                        /\ AtThen(i, "attachedToTarget", s) =>
                             /\ s \in Sessions \ unseen /\ session[s] # "free"
                             /\ session[s] = "gone" => InFlight("detachedFromTarget", s)'
                        /\ AtThen(i, "detachedFromTarget", s) => session[s] = "gone"
        BY <1>0, PrimedAt DEF EventInv
    <2>1. PICK k \in 1 .. Len(channel) : k = i + 1
        BY <1>1
    <2>2. /\ AtThen(i, "attachedToTarget", s) <=> At(k, "attachedToTarget", s)
          /\ AtThen(i, "detachedFromTarget", s) <=> At(k, "detachedFromTarget", s)
          /\ channel'[i] = channel[k]
        BY <1>1, <2>1
    <2> QED BY <1>0, <1>2, <2>1, <2>2 DEF EventInv
<1>6. OrderInv'
    <2> SUFFICES ASSUME NEW i \in 1 .. Len(channel'), NEW j \in 1 .. Len(channel'),
                        NEW s \in AllSessions
                 PROVE  /\ AtThen(i, "attachedToTarget", s) /\ AtThen(j, "attachedToTarget", s) => i = j
                        /\ AtThen(i, "detachedFromTarget", s) /\ AtThen(j, "detachedFromTarget", s)
                             => i = j
                        /\ AtThen(i, "attachedToTarget", s) /\ AtThen(j, "detachedFromTarget", s)
                             => i < j
        BY <1>0, PrimedAt DEF OrderInv
    <2>1. PICK k, l \in 1 .. Len(channel) : k = i + 1 /\ l = j + 1
        BY <1>1
    <2>2. (k = l => i = j) /\ (k < l => i < j)
        BY <2>1
    <2> QED BY <1>0, <1>1, <2>1, <2>2 DEF OrderInv
<1>7. HideInv'
    <2>1. ASSUME NEW s \in Hideable, NEW k \in Int, k >= 0, k <= Len(channel'), Known(s, k + 1)
          PROVE  KnownThen(s, k)
        <3>1. CASE s \in hidden_session_ids
            BY <1>0, <1>4, <2>1, <3>1 DEF KnownThen
        <3>2. CASE s \notin hidden_session_ids
            <4>1. PICK j \in 1 .. k + 1 : At(j, "attachedToTarget", s)
                BY <2>1, <3>2 DEF Known
            <4>2. CASE j = 1
                BY <1>4, <4>1, <4>2 DEF KnownThen
            <4>3. CASE j # 1
                <5>1. PICK l \in 1 .. k : j = l + 1
                    BY <2>1, <4>3
                <5>2. l \in 1 .. Len(channel')
                    BY <1>0, <2>1, <5>1
                <5> QED BY <1>1, <4>1, <5>1, <5>2 DEF KnownThen
            <4> QED BY <4>2, <4>3
        <3> QED BY <3>1, <3>2
    <2>2. ASSUME NEW s \in Hideable, session'[s] = "live", phase' = "bridged"
          PROVE  KnownThen(s, Len(channel'))
        <3>1. Known(s, Len(channel)) /\ Len(channel) = Len(channel') + 1
            BY <1>0, <2>2 DEF HideInv, Live
        <3> QED BY <1>0, <2>1, <3>1
    <2>3. ASSUME NEW i \in 1 .. Len(channel'), NEW s \in Hideable, EventThen(i, s)
          PROVE  KnownThen(s, i - 1) /\ \A j \in 1 .. i - 1 : ~AtThen(j, "detachedFromTarget", s)
        <3>1. PICK k \in 1 .. Len(channel) : k = i + 1
            BY <1>1
        <3>2. EventOf(k, s)
            BY <1>1, <2>3, <3>1 DEF EventOf, EventThen
        <3>3. Known(s, k - 1) /\ \A j \in 1 .. k - 1 : ~At(j, "detachedFromTarget", s)
            BY <1>0, <3>2 DEF HideInv
        <3>4. /\ i - 1 \in Int /\ i - 1 >= 0 /\ i - 1 <= Len(channel') /\ k - 1 = (i - 1) + 1
              /\ 1 \in 1 .. k - 1
              /\ \A j \in 1 .. i - 1 : j + 1 \in 1 .. k - 1 /\ j \in 1 .. Len(channel')
            BY <1>0, <3>1
        <3>5. \A j \in 1 .. i - 1 : ~AtThen(j, "detachedFromTarget", s)
            BY <1>1, <3>3, <3>4
        <3>6. Known(s, (i - 1) + 1)
            BY <3>3, <3>4
        <3> QED BY <2>1, <3>3, <3>4, <3>5, <3>6
    <2> QED BY <1>0, <2>2, <2>3, HidesThen
<1>8. OrphansDetached'
    BY <1>0, <1>2 DEF OrphansDetached, Live
<1>9. KnownAreAttached'
    BY <1>0, <1>2 DEF KnownAreAttached, Live
<1> QED BY <1>3, <1>5, <1>6, <1>7, <1>8, <1>9 DEF SessionInv, QueueInv

\* The proxy handles an attach event.
LEMMA TakesAttached ==
    ASSUME TypeInv, SessionInv, HandleAttached, NEW s0, s0 = Message.child
    PROVE  /\ SessionInv' /\ hidden_session_ids' \subseteq AllSessions
           /\ client_session_ids' \subseteq Sessions /\ s0 \in Sessions \ unseen
           /\ Message.target = TargetOf(s0) /\ Message.session = Root
<1>0. /\ UNCHANGED <<phase, session, unseen>>
      /\ channel # <<>> /\ channel' = Tail(channel) /\ phase = "bridged"
      /\ Message.type = "event" /\ Message.method = "attachedToTarget"
      /\ StartInv /\ EventInv /\ OrderInv /\ HideInv /\ OrphansDetached /\ KnownAreAttached
      /\ channel' \in Seq(Messages) /\ Len(channel') = Len(channel) - 1 /\ Len(channel) \in Nat
      /\ Len(channel') \in Nat /\ Len(channel) > 0
    BY ChannelTakes DEF SessionInv, QueueInv, HandleAttached, EventHandled, Takes, Is
<1>1. /\ \A i \in 1 .. Len(channel') : /\ i + 1 \in 1 .. Len(channel)
                                       /\ channel'[i] = channel[i + 1]
      /\ \A i \in 1 .. Len(channel) : i # 1 => i - 1 \in 1 .. Len(channel')
      /\ 1 \in 1 .. Len(channel)
      /\ \A i \in 1 .. Len(channel') : \A x, s : AtThen(i, x, s) <=> At(i + 1, x, s)
      /\ \A x, s : At(1, x, s) <=> IsFor(Message, x, s)
      /\ \A x, s : InFlight(x, s) <=> InFlight(x, s)' \/ IsFor(Message, x, s)
      /\ Message = channel[1] /\ Message \in Messages
    BY <1>0, TakenAt, ChannelTakes
<1>2. /\ \A s : IsFor(Message, "attachedToTarget", s) <=> s = s0
      /\ \A s : ~IsFor(Message, "detachedFromTarget", s)
      /\ s0 \in AllSessions /\ s0 \in Sessions \ unseen /\ session[s0] # "free"
      /\ Message.target = TargetOf(s0) /\ Message.session = Root
      /\ session[s0] = "gone" => InFlight("detachedFromTarget", s0)
    <2>1. /\ \A s : IsFor(Message, "attachedToTarget", s) <=> s = s0
          /\ \A s : ~IsFor(Message, "detachedFromTarget", s)
        BY <1>0 DEF IsFor
    <2>2. s0 \in AllSessions /\ At(1, "attachedToTarget", s0)
        BY <1>0, <1>1, <2>1 DEF Messages, SessionEvents, OtherEvents, TargetEvents, Responses
    <2>3. OfTarget(Message, s0) /\ Message.method # "detachedFromTarget"
        BY <1>0, <1>1, <2>2 DEF EventInv
    <2>4. Message.target = TargetOf(s0)
        BY <2>3 DEF OfTarget
    <2> QED BY <1>0, <1>1, <2>1, <2>2, <2>4 DEF EventInv
<1>3. /\ \A s : s # s0 => (InFlight("attachedToTarget", s)' <=> InFlight("attachedToTarget", s))
      /\ \A s : InFlight("detachedFromTarget", s)' <=> InFlight("detachedFromTarget", s)
      /\ ~InFlight("attachedToTarget", s0)'
    <2>1. ASSUME NEW i \in 1 .. Len(channel') PROVE ~AtThen(i, "attachedToTarget", s0)
        <3>1. PICK k \in 1 .. Len(channel) : k = i + 1 /\ k # 1
            BY <1>1
        <3> QED BY <1>0, <1>1, <1>2, <3>1 DEF OrderInv
    <2>2. ~InFlight("attachedToTarget", s0)'
        BY <1>0, <2>1, PrimedAt
    <2> QED BY <1>1, <1>2, <2>2
<1>4. /\ hidden_session_ids \subseteq hidden_session_ids'
      /\ \A s \in Hideable : At(1, "attachedToTarget", s) => s \in hidden_session_ids'
    <2>1. CASE Message.target = Worker
        BY <1>1, <1>2, <2>1 DEF HandleAttached, Hides
    <2>2. CASE Message.target # Worker
        BY <1>1, <1>2, <2>2 DEF HandleAttached, Hides, Hideable
    <2> QED BY <2>1, <2>2
<1>5. EventInv'
    <2> SUFFICES ASSUME NEW i \in 1 .. Len(channel'), NEW s \in AllSessions,
                        AtThen(i, "attachedToTarget", s) \/ AtThen(i, "detachedFromTarget", s)
                 PROVE  /\ channel'[i].session = Root /\ OfTarget(channel'[i], s)
                        /\ AtThen(i, "attachedToTarget", s) =>
                             /\ s \in Sessions \ unseen /\ session[s] # "free"
                             /\ session[s] = "gone" => InFlight("detachedFromTarget", s)'
                        /\ AtThen(i, "detachedFromTarget", s) => session[s] = "gone"
        BY <1>0, PrimedAt DEF EventInv
    <2>1. PICK k \in 1 .. Len(channel) : k = i + 1
        BY <1>1
    <2>2. /\ AtThen(i, "attachedToTarget", s) <=> At(k, "attachedToTarget", s)
          /\ AtThen(i, "detachedFromTarget", s) <=> At(k, "detachedFromTarget", s)
          /\ channel'[i] = channel[k]
        BY <1>1, <2>1
    <2> QED BY <1>0, <1>3, <2>1, <2>2 DEF EventInv
<1>6. OrderInv'
    <2> SUFFICES ASSUME NEW i \in 1 .. Len(channel'), NEW j \in 1 .. Len(channel'),
                        NEW s \in AllSessions
                 PROVE  /\ AtThen(i, "attachedToTarget", s) /\ AtThen(j, "attachedToTarget", s) => i = j
                        /\ AtThen(i, "detachedFromTarget", s) /\ AtThen(j, "detachedFromTarget", s)
                             => i = j
                        /\ AtThen(i, "attachedToTarget", s) /\ AtThen(j, "detachedFromTarget", s)
                             => i < j
        BY <1>0, PrimedAt DEF OrderInv
    <2>1. PICK k, l \in 1 .. Len(channel) : k = i + 1 /\ l = j + 1
        BY <1>1
    <2>2. (k = l => i = j) /\ (k < l => i < j)
        BY <2>1
    <2> QED BY <1>0, <1>1, <2>1, <2>2 DEF OrderInv
<1>7. HideInv'
    <2>1. ASSUME NEW s \in Hideable, NEW k \in Int, k >= 0, k <= Len(channel'), Known(s, k + 1)
          PROVE  KnownThen(s, k)
        <3>1. CASE s \in hidden_session_ids
            BY <1>0, <1>4, <2>1, <3>1 DEF KnownThen
        <3>2. CASE s \notin hidden_session_ids
            <4>1. PICK j \in 1 .. k + 1 : At(j, "attachedToTarget", s)
                BY <2>1, <3>2 DEF Known
            <4>2. CASE j = 1
                BY <1>4, <4>1, <4>2 DEF KnownThen
            <4>3. CASE j # 1
                <5>1. PICK l \in 1 .. k : j = l + 1
                    BY <2>1, <4>3
                <5>2. l \in 1 .. Len(channel')
                    BY <1>0, <2>1, <5>1
                <5> QED BY <1>1, <4>1, <5>1, <5>2 DEF KnownThen
            <4> QED BY <4>2, <4>3
        <3> QED BY <3>1, <3>2
    <2>2. ASSUME NEW s \in Hideable, session'[s] = "live", phase' = "bridged"
          PROVE  KnownThen(s, Len(channel'))
        <3>1. Known(s, Len(channel)) /\ Len(channel) = Len(channel') + 1
            BY <1>0, <2>2 DEF HideInv, Live
        <3> QED BY <1>0, <2>1, <3>1
    <2>3. ASSUME NEW i \in 1 .. Len(channel'), NEW s \in Hideable, EventThen(i, s)
          PROVE  KnownThen(s, i - 1) /\ \A j \in 1 .. i - 1 : ~AtThen(j, "detachedFromTarget", s)
        <3>1. PICK k \in 1 .. Len(channel) : k = i + 1
            BY <1>1
        <3>2. EventOf(k, s)
            BY <1>1, <2>3, <3>1 DEF EventOf, EventThen
        <3>3. Known(s, k - 1) /\ \A j \in 1 .. k - 1 : ~At(j, "detachedFromTarget", s)
            BY <1>0, <3>2 DEF HideInv
        <3>4. /\ i - 1 \in Int /\ i - 1 >= 0 /\ i - 1 <= Len(channel') /\ k - 1 = (i - 1) + 1
              /\ 1 \in 1 .. k - 1
              /\ \A j \in 1 .. i - 1 : j + 1 \in 1 .. k - 1 /\ j \in 1 .. Len(channel')
            BY <1>0, <3>1
        <3>5. \A j \in 1 .. i - 1 : ~AtThen(j, "detachedFromTarget", s)
            BY <1>1, <3>3, <3>4
        <3>6. Known(s, (i - 1) + 1)
            BY <3>3, <3>4
        <3> QED BY <2>1, <3>3, <3>4, <3>5, <3>6
    <2> QED BY <1>0, <2>2, <2>3, HidesThen
<1>8. OrphansDetached'
    <2>1. CASE Message.target = Worker
        <3>1. requests' = requests \cup
                {[id |-> next_upstream_id, of |-> NoRequest, session |-> Root, detach |-> s0]}
            BY <2>1 DEF HandleAttached, Hides
        <3>2. \E r \in requests' : r.detach = s0
            <4>1. PICK q : q = [id |-> next_upstream_id, of |-> NoRequest, session |-> Root,
                               detach |-> s0]
                OBVIOUS
            <4>2. q \in requests' /\ q.detach = s0
                BY <3>1, <4>1
            <4> QED BY <4>2
        <3>3. requests \subseteq requests'
            BY <3>1
        <3> QED BY <1>0, <1>3, <3>2, <3>3 DEF OrphansDetached, Live
    <2>2. CASE Message.target # Worker
        <3>1. requests' = requests /\ s0 \notin Orphans
            BY <1>2, <2>2, TargetFacts DEF HandleAttached, Hides
        <3> QED BY <1>0, <1>3, <3>1 DEF OrphansDetached, Live
    <2> QED BY <2>1, <2>2
<1>9. KnownAreAttached' /\ client_session_ids' \subseteq Sessions
    <2>1. client_session_ids \subseteq Sessions
        BY DEF TypeInv
    <2>2. CASE Message.target = Worker
        <3>1. client_session_ids' = client_session_ids /\ s0 \notin PageSessions
            BY <1>2, <2>2, TargetFacts DEF HandleAttached, Hides
        <3> QED BY <1>0, <1>3, <2>1, <3>1 DEF KnownAreAttached, Live
    <2>3. CASE Message.target # Worker
        <3>1. client_session_ids' = client_session_ids \cup {s0} /\ s0 \in PageSessions
            BY <1>2, <2>3, TargetFacts DEF HandleAttached, Hides
        <3>2. session[s0] = "live" \/ (session[s0] = "gone" /\ InFlight("detachedFromTarget", s0)')
            BY <1>2, <1>3 DEF TypeInv
        <3> QED BY <1>0, <1>2, <1>3, <2>1, <3>1, <3>2 DEF KnownAreAttached, Live
    <2> QED BY <2>2, <2>3
<1>10. hidden_session_ids' \subseteq AllSessions
    BY <1>2 DEF TypeInv, HandleAttached
<1>11. StartInv'
    BY <1>0 DEF StartInv
<1> QED BY <1>2, <1>5, <1>6, <1>7, <1>8, <1>9, <1>10, <1>11 DEF SessionInv, QueueInv

\* The proxy handles a detach event.
LEMMA TakesDetached ==
    ASSUME TypeInv, SessionInv, HandleDetached, NEW s0, s0 = Message.child
    PROVE  /\ SessionInv' /\ OfTarget(Message, s0) /\ Message.session = Root
           /\ session[s0] = "gone"
<1>0. /\ UNCHANGED <<phase, session, unseen, requests>>
      /\ channel # <<>> /\ channel' = Tail(channel) /\ phase = "bridged"
      /\ Message.type = "event" /\ Message.method = "detachedFromTarget"
      /\ hidden_session_ids' = hidden_session_ids \ {s0}
      /\ StartInv /\ EventInv /\ OrderInv /\ HideInv /\ OrphansDetached /\ KnownAreAttached
      /\ channel' \in Seq(Messages) /\ Len(channel') = Len(channel) - 1 /\ Len(channel) \in Nat
      /\ Len(channel') \in Nat /\ Len(channel) > 0
    BY ChannelTakes DEF SessionInv, QueueInv, HandleDetached, EventHandled, Takes, Is
<1>1. /\ \A i \in 1 .. Len(channel') : /\ i + 1 \in 1 .. Len(channel)
                                       /\ channel'[i] = channel[i + 1]
      /\ \A i \in 1 .. Len(channel) : i # 1 => i - 1 \in 1 .. Len(channel')
      /\ 1 \in 1 .. Len(channel)
      /\ \A i \in 1 .. Len(channel') : \A x, s : AtThen(i, x, s) <=> At(i + 1, x, s)
      /\ \A x, s : At(1, x, s) <=> IsFor(Message, x, s)
      /\ \A x, s : InFlight(x, s) <=> InFlight(x, s)' \/ IsFor(Message, x, s)
      /\ Message = channel[1] /\ Message \in Messages
    BY <1>0, TakenAt, ChannelTakes
<1>2. /\ \A s : IsFor(Message, "detachedFromTarget", s) <=> s = s0
      /\ \A s : ~IsFor(Message, "attachedToTarget", s)
      /\ s0 \in AllSessions /\ session[s0] = "gone"
      /\ OfTarget(Message, s0) /\ Message.session = Root
    <2>1. /\ \A s : IsFor(Message, "detachedFromTarget", s) <=> s = s0
          /\ \A s : ~IsFor(Message, "attachedToTarget", s)
        BY <1>0 DEF IsFor
    <2>2. s0 \in AllSessions /\ At(1, "detachedFromTarget", s0)
        BY <1>0, <1>1, <2>1 DEF Messages, SessionEvents, OtherEvents, TargetEvents, Responses
    <2> QED BY <1>0, <1>1, <2>1, <2>2 DEF EventInv
<1>3. /\ \A s : s # s0 => (InFlight("detachedFromTarget", s)' <=> InFlight("detachedFromTarget", s))
      /\ \A s : InFlight("attachedToTarget", s)' <=> InFlight("attachedToTarget", s)
      /\ ~InFlight("detachedFromTarget", s0)'
      /\ \A i \in 1 .. Len(channel') : ~AtThen(i, "attachedToTarget", s0)
    <2>1. ASSUME NEW i \in 1 .. Len(channel')
          PROVE  ~AtThen(i, "detachedFromTarget", s0) /\ ~AtThen(i, "attachedToTarget", s0)
        <3>1. PICK k \in 1 .. Len(channel) : k = i + 1 /\ k # 1 /\ ~(k < 1)
            BY <1>1
        <3> QED BY <1>0, <1>1, <1>2, <3>1 DEF OrderInv
    <2>2. ~InFlight("detachedFromTarget", s0)'
        BY <1>0, <2>1, PrimedAt
    <2> QED BY <1>1, <1>2, <2>1, <2>2
<1>4. /\ \A s \in hidden_session_ids : s # s0 => s \in hidden_session_ids'
      /\ \A s \in Hideable : At(1, "attachedToTarget", s) => s \in hidden_session_ids'
    BY <1>0, <1>1, <1>2
<1>5. EventInv'
    <2> SUFFICES ASSUME NEW i \in 1 .. Len(channel'), NEW s \in AllSessions,
                        AtThen(i, "attachedToTarget", s) \/ AtThen(i, "detachedFromTarget", s)
                 PROVE  /\ channel'[i].session = Root /\ OfTarget(channel'[i], s)
                        /\ AtThen(i, "attachedToTarget", s) =>
                             /\ s \in Sessions \ unseen /\ session[s] # "free"
                             /\ session[s] = "gone" => InFlight("detachedFromTarget", s)'
                        /\ AtThen(i, "detachedFromTarget", s) => session[s] = "gone"
        BY <1>0, PrimedAt DEF EventInv
    <2>1. PICK k \in 1 .. Len(channel) : k = i + 1
        BY <1>1
    <2>2. /\ AtThen(i, "attachedToTarget", s) <=> At(k, "attachedToTarget", s)
          /\ AtThen(i, "detachedFromTarget", s) <=> At(k, "detachedFromTarget", s)
          /\ channel'[i] = channel[k]
        BY <1>1, <2>1
    <2>3. CASE s = s0
        BY <1>0, <1>2, <1>3, <2>1, <2>2, <2>3 DEF EventInv
    <2>4. CASE s # s0
        BY <1>0, <1>3, <2>1, <2>2, <2>4 DEF EventInv
    <2> QED BY <2>3, <2>4
<1>6. OrderInv'
    <2> SUFFICES ASSUME NEW i \in 1 .. Len(channel'), NEW j \in 1 .. Len(channel'),
                        NEW s \in AllSessions
                 PROVE  /\ AtThen(i, "attachedToTarget", s) /\ AtThen(j, "attachedToTarget", s) => i = j
                        /\ AtThen(i, "detachedFromTarget", s) /\ AtThen(j, "detachedFromTarget", s)
                             => i = j
                        /\ AtThen(i, "attachedToTarget", s) /\ AtThen(j, "detachedFromTarget", s)
                             => i < j
        BY <1>0, PrimedAt DEF OrderInv
    <2>1. PICK k, l \in 1 .. Len(channel) : k = i + 1 /\ l = j + 1
        BY <1>1
    <2>2. (k = l => i = j) /\ (k < l => i < j)
        BY <2>1
    <2> QED BY <1>0, <1>1, <2>1, <2>2 DEF OrderInv
<1>7. HideInv'
    <2>1. ASSUME NEW s \in Hideable, NEW k \in Int, k >= 0, k <= Len(channel'), Known(s, k + 1),
                 s # s0
          PROVE  KnownThen(s, k)
        <3>1. CASE s \in hidden_session_ids
            BY <1>0, <1>4, <2>1, <3>1 DEF KnownThen
        <3>2. CASE s \notin hidden_session_ids
            <4>1. PICK j \in 1 .. k + 1 : At(j, "attachedToTarget", s)
                BY <2>1, <3>2 DEF Known
            <4>2. CASE j = 1
                BY <1>4, <4>1, <4>2 DEF KnownThen
            <4>3. CASE j # 1
                <5>1. PICK l \in 1 .. k : j = l + 1
                    BY <2>1, <4>3
                <5>2. l \in 1 .. Len(channel')
                    BY <1>0, <2>1, <5>1
                <5> QED BY <1>1, <4>1, <5>1, <5>2 DEF KnownThen
            <4> QED BY <4>2, <4>3
        <3> QED BY <3>1, <3>2
    <2>2. ASSUME NEW s \in Hideable, session'[s] = "live", phase' = "bridged"
          PROVE  KnownThen(s, Len(channel'))
        <3>1. Known(s, Len(channel)) /\ Len(channel) = Len(channel') + 1 /\ s # s0
            BY <1>0, <1>2, <2>2 DEF HideInv, Live, Hideable
        <3> QED BY <1>0, <2>1, <3>1
    <2>3. ASSUME NEW i \in 1 .. Len(channel'), NEW s \in Hideable, EventThen(i, s)
          PROVE  KnownThen(s, i - 1) /\ \A j \in 1 .. i - 1 : ~AtThen(j, "detachedFromTarget", s)
        <3>1. PICK k \in 1 .. Len(channel) : k = i + 1
            BY <1>1
        <3>2. EventOf(k, s)
            BY <1>1, <2>3, <3>1 DEF EventOf, EventThen
        <3>3. Known(s, k - 1) /\ \A j \in 1 .. k - 1 : ~At(j, "detachedFromTarget", s)
            BY <1>0, <3>2 DEF HideInv
        <3>4. /\ i - 1 \in Int /\ i - 1 >= 0 /\ i - 1 <= Len(channel') /\ k - 1 = (i - 1) + 1
              /\ 1 \in 1 .. k - 1
              /\ \A j \in 1 .. i - 1 : j + 1 \in 1 .. k - 1 /\ j \in 1 .. Len(channel')
            BY <1>0, <3>1
        <3>5. \A j \in 1 .. i - 1 : ~AtThen(j, "detachedFromTarget", s)
            BY <1>1, <3>3, <3>4
        <3>6. Known(s, (i - 1) + 1) /\ s # s0
            BY <1>1, <1>2, <3>3, <3>4
        <3> QED BY <2>1, <3>3, <3>4, <3>5, <3>6
    <2> QED BY <1>0, <2>2, <2>3, HidesThen
<1>8. OrphansDetached'
    BY <1>0, <1>3 DEF OrphansDetached, Live
<1>9. KnownAreAttached'
    <2>1. client_session_ids' = client_session_ids \ {s0}
        <3>1. CASE Message.target = Worker
            <4>1. client_session_ids' = client_session_ids
                BY <3>1 DEF HandleDetached, Hides
            <4>2. s0 \notin PageSessions
                BY <1>2, <3>1, TargetFacts, Constants DEF OfTarget
            <4> QED BY <1>0, <4>1, <4>2 DEF KnownAreAttached
        <3>2. CASE Message.target # Worker
            BY <3>2 DEF HandleDetached, Hides, ForgetSession
        <3> QED BY <3>1, <3>2
    <2> QED BY <1>0, <1>2, <1>3, <2>1 DEF KnownAreAttached, Live
<1>10. StartInv'
    BY <1>0 DEF StartInv
<1> QED BY <1>2, <1>5, <1>6, <1>7, <1>8, <1>9, <1>10 DEF SessionInv, QueueInv

\* Steps of the client, and of the proxy with it.
LEMMA SessionKept ==
    ASSUME SessionInv, UNCHANGED <<phase, channel, session, hides, unseen>>,
           requests \subseteq requests'
    PROVE  SessionInv'
<1>0. /\ UNCHANGED <<phase, channel, session, hidden_session_ids, client_session_ids, unseen>>
      /\ StartInv /\ EventInv /\ OrderInv /\ HideInv /\ OrphansDetached /\ KnownAreAttached
    BY DEF hides, SessionInv, QueueInv
<1>1. \A x, s : InFlight(x, s)' <=> InFlight(x, s)
    BY <1>0 DEF InFlight
<1>2. StartInv' /\ OrderInv'
    BY <1>0 DEF StartInv, OrderInv, At
<1>3. EventInv'
    BY <1>0 DEF EventInv, At, InFlight
<1>4. HideInv'
    BY <1>0 DEF HideInv, Known, At, EventOf, Hideable, Live
<1>5. OrphansDetached'
    BY <1>0, <1>1 DEF OrphansDetached, Live
<1>6. KnownAreAttached'
    BY <1>0, <1>1 DEF KnownAreAttached, Live
<1> QED BY <1>2, <1>3, <1>4, <1>5, <1>6 DEF SessionInv, QueueInv

LEMMA BridgeSessions ==
    ASSUME SessionInv, Bridge
    PROVE  SessionInv'
<1>0. /\ UNCHANGED <<channel, session, client_session_ids, unseen>>
      /\ phase' = "bridged" /\ hidden_session_ids' = {ExtSession}
      /\ channel = <<>> /\ client_session_ids = {}
      /\ \A s \in Sessions : session[s] = IF s \in unseen THEN "live" ELSE "free"
      /\ \A s \in unseen : session[s] # "free"
      /\ session[ExtSession] # "free"
    BY DEF Bridge, SessionInv, QueueInv, StartInv
<1>1. Len(channel) = 0 /\ DOMAIN channel = {}
    BY <1>0
<1>2. StartInv' /\ EventInv' /\ OrderInv'
    BY <1>0, <1>1 DEF StartInv, EventInv, OrderInv
<1>3. HideInv'
    <2>1. \A s \in Hideable : session[s] = "live" => s = ExtSession
        BY <1>0, Constants DEF Hideable
    <2> QED BY <1>0, <1>1, <2>1 DEF HideInv, Known, Hideable, Live
<1>4. OrphansDetached'
    BY <1>0, TargetFacts DEF OrphansDetached, Live
<1>5. KnownAreAttached'
    BY <1>0, TargetFacts DEF KnownAreAttached, Live
<1> QED BY <1>2, <1>3, <1>4, <1>5 DEF SessionInv, QueueInv
-----------------------------------------------------------------------------
(* What the client is sent.                                                *)

LEMMA NothingOut == ASSUME out' = {} PROVE OutInv'
    BY DEF OutInv, Answers, Customs, WorkerUnseen, EventsReachAll

\* An event that the proxy passes on is no answer and no custom event.
LEMMA EventOut ==
    ASSUME out' = {Message}, Message.method \notin {"answer", "customEvent", "upstreamEvent"},
           Message.target # Worker,
           \A s \in AllSessions \ unseen : Message.session = s => TargetOf(s) # Worker,
           EndWithoutTarget(Message), UNCHANGED <<unseen, session>>
    PROVE  OutInv'
<1>1. Answers' = {} /\ Customs' = {}
    BY DEF Answers, Customs
<1>2. WorkerUnseen'
    BY DEF WorkerUnseen, EndWithoutTarget
<1> QED BY <1>1, <1>2 DEF OutInv, EventsReachAll

\* A custom event, for every session that the client has attached.
LEMMA BindingOut == ASSUME HandleBinding PROVE OutInv'
<1>1. CASE out' = {}
    BY <1>1, NothingOut
<1>2. CASE out' = {[method |-> Message.method, session |-> s] : s \in FanoutTo}
    <2>1. Message.method \in {"customEvent", "upstreamEvent"}
        BY DEF HandleBinding, Is
    <2>2. \A m \in out' : m.method = Message.method
        BY <1>2
    <2>3. Answers' = {} /\ Customs' = out'
        BY <2>1, <2>2 DEF Answers, Customs
    <2>4. UNCHANGED client_session_ids
        BY DEF HandleBinding, hides
    <2>5. EventsReachAll'
        BY <1>2, <2>2, <2>3, <2>4 DEF EventsReachAll, FanoutTo
    <2>6. WorkerUnseen'
        BY <2>3 DEF WorkerUnseen
    <2> QED BY <2>3, <2>5, <2>6 DEF OutInv
<1> QED BY <1>1, <1>2 DEF HandleBinding

\* An event of a session that is not hidden.
LEMMA SessionEventOut ==
    ASSUME TypeInv, SessionInv, HandleEvent
    PROVE  OutInv' /\ Neutral(Message)
<1>0. /\ channel # <<>> /\ Message \in Messages /\ Message = channel[1] /\ 1 \in 1 .. Len(channel)
      /\ Message.type = "event" /\ Message.method \in {"sessionEvent", "targetInfoChanged"}
      /\ UNCHANGED <<unseen, session>>
    BY ChannelTakes DEF HandleEvent, Is, Takes, EventHandled
<1>1. Message.method = "targetInfoChanged" => Message.session = Root
    BY <1>0 DEF Messages, SessionEvents, OtherEvents, TargetEvents, Responses
<1>2. \A s \in Hideable : Message.session = s => s \in hidden_session_ids
    <2> TAKE s \in Hideable
    <2> HAVE Message.session = s
    <2>1. Message.method = "sessionEvent"
        BY <1>0, <1>1, Constants DEF Hideable
    <2>2. Known(s, 0)
        BY <1>0, <2>1 DEF SessionInv, HideInv, EventOf
    <2> QED BY <2>2 DEF Known
<1>3. OutInv'
    <2>1. CASE out' = {}
        BY <2>1, NothingOut
    <2>2. CASE out' # {}
        <3>1. /\ out' = {Message} /\ Message.session \notin hidden_session_ids
              /\ Message.target # Worker
            BY <2>2 DEF HandleEvent, Hides
        <3>2. Message.child = Root
            BY <1>0 DEF Messages, SessionEvents, OtherEvents, TargetEvents, Responses
        <3>3. EndWithoutTarget(Message)
            BY <3>2, Constants, TargetFacts DEF EndWithoutTarget
        <3> QED BY <1>0, <1>2, <3>1, <3>3, EventOut DEF Hideable
    <2> QED BY <2>1, <2>2
<1>4. Neutral(Message)
    BY <1>0 DEF Neutral, IsFor
<1> QED BY <1>3, <1>4

\* A response with an id that is not pending concerns no command of the client.
LEMMA ForeignResponse ==
    ASSUME TypeInv, WireInv, SteerInv, HandleResponse, Message.id \notin DOMAIN pending
    PROVE  SteerInv' /\ OutInv'
<1>1. /\ out' = {} /\ UNCHANGED <<tables, answered, forwarded, sent, requests>>
      /\ channel # <<>> /\ channel' = Tail(channel)
    BY DEF HandleResponse, Takes, tables, wire
<1> QED BY <1>1, NothingOut, SteerTakes, SteerKept

\* Another answers the one command that waits with its id.
LEMMA OwnResponse ==
    ASSUME TypeInv, WireInv, SteerInv, HandleResponse, Message.id \in DOMAIN pending
    PROVE  SteerInv' /\ OutInv'
<1>1. PICK i, p : i = Message.id /\ p = pending[i]
    OBVIOUS
<1>2. /\ channel # <<>> /\ channel' = Tail(channel) /\ Message.type = "response"
      /\ pending' = [j \in DOMAIN pending \ {i} |-> pending[j]]
      /\ UNCHANGED <<forwarded, sent, requests, next_upstream_id>>
      /\ p.kind = "internal" => out' = {} /\ answered' = answered
      /\ p.kind # "internal" => out' = {Answer(p, Message)}
                                /\ answered' = answered \cup {p.client_id}
    BY <1>1 DEF HandleResponse, Takes, Unanswered, wire
<1>3. /\ PendingOK(p) /\ i \in DOMAIN pending /\ Message = channel[1] /\ Message \in Messages
      /\ 1 \in 1 .. Len(channel)
      /\ p.kind # "internal" => p.client_id = Message.of
    BY <1>1, <1>2, ChannelTakes DEF SteerInv, Steers
<1>4. \A j \in DOMAIN pending' : /\ j \in DOMAIN pending /\ j # i /\ pending'[j] = pending[j]
    BY <1>2
<1>5. \A j \in DOMAIN pending' : PendingOK(pending[j])'
    <2> TAKE j \in DOMAIN pending'
    <2>1. PendingOK(pending[j]) /\ pending'[j] = pending[j]
        BY <1>4 DEF SteerInv
    <2>2. pending[j].kind # "internal" /\ p.kind # "internal" => pending[j].client_id # p.client_id
        BY <1>1, <1>3, <1>4 DEF SteerInv
    <2>3. CASE pending[j] = [kind |-> "internal"]
        BY <2>1, <2>3 DEF PendingOK
    <2>4. CASE pending[j] # [kind |-> "internal"]
        <3>1. /\ pending[j].client_id \notin answered'
              /\ pending[j] \in [kind : Kinds, client_id : 1 .. Len(forwarded),
                                 client_session_id : Sessions \cup {Root}]
              /\ pending[j].kind = sent[pending[j].client_id].kind
              /\ pending[j].client_session_id = sent[pending[j].client_id].session
            BY <1>2, <2>1, <2>2, <2>4 DEF PendingOK, Kinds
        <3> QED BY <1>2, <2>1, <3>1 DEF PendingOK
    <2> QED BY <2>3, <2>4
<1>6. \A j, k \in DOMAIN pending' :
         pending'[j].kind # "internal" /\ pending'[k].kind # "internal"
           /\ pending'[j].client_id = pending'[k].client_id => j = k
    BY <1>4 DEF SteerInv
<1>7. answered' \subseteq 1 .. Len(forwarded) /\ answered \subseteq answered'
    <2>1. answered \subseteq 1 .. Len(forwarded)
        BY DEF SteerInv
    <2>2. p.kind # "internal" => p.client_id \in 1 .. Len(forwarded)
        BY <1>3 DEF PendingOK
    <2>3. CASE p.kind = "internal"
        BY <1>2, <2>1, <2>3
    <2>4. CASE p.kind # "internal"
        BY <1>2, <2>1, <2>2, <2>4
    <2> QED BY <2>3, <2>4
<1>8. \A c \in 1 .. Len(forwarded) : c \in answered' \/ Waits(c)'
    <2> TAKE c \in 1 .. Len(forwarded)
    <2>1. CASE c \in answered
        BY <1>7, <2>1
    <2>2. CASE c \notin answered
        <3>1. PICK j \in DOMAIN pending : pending[j].kind # "internal" /\ pending[j].client_id = c
            BY <2>2 DEF SteerInv, Waits
        <3>2. CASE j = i
            BY <1>1, <1>2, <3>1, <3>2
        <3>3. CASE j # i
            BY <1>2, <3>1, <3>3 DEF Waits
        <3> QED BY <3>2, <3>3
    <2> QED BY <2>1, <2>2
<1>9. \A id, c : Steers(id, c) => SteersThen(id, c)
    BY <1>2, <1>4 DEF Steers, SteersThen
<1>10. \A r \in requests' : SteersThen(r.id, r.of)
    BY <1>2, <1>9 DEF SteerInv
<1>11. \A k \in 1 .. Len(channel') :
         channel'[k].type = "response" => SteersThen(channel'[k].id, channel'[k].of)
    BY <1>2, <1>9, SteerTakes
<1>12. SteerInv'
    <2>1. DOMAIN pending' \subseteq FirstId .. next_upstream_id' - 1
        BY <1>2 DEF SteerInv
    <2> QED BY <1>2, <1>5, <1>6, <1>7, <1>8, <1>10, <1>11, <2>1 DEF SteerInv, Steers, SteersThen
<1>13. OutInv'
    <2>1. CASE p.kind = "internal"
        BY <1>2, <2>1, NothingOut
    <2>2. CASE p.kind # "internal"
        <3>1. PICK a : a = Answer(p, Message)
            OBVIOUS
        <3>2. out' = {a} /\ a.method = "answer" /\ a.id = p.client_id /\ a.of = Message.of
              /\ a.session = p.client_session_id /\ p.client_id \in answered'
            BY <1>2, <2>2, <3>1 DEF Answer
        <3>3. p.kind = sent[p.client_id].kind /\ p.client_session_id = sent[p.client_id].session
            BY <1>3, <2>2 DEF PendingOK
        <3>4. a.outcome = "empty" => p.kind = "modcdp_eval"
            <4>1. Message.outcome \in {"result", "error", "exception"}
                BY <1>2, <1>3 DEF Messages, SessionEvents, OtherEvents, TargetEvents, Responses
            <4> QED BY <3>1, <4>1 DEF Answer
        <3>5. Answers' = {a} /\ Customs' = {} /\ UNCHANGED sent
            BY <1>2, <3>2 DEF Answers, Customs
        <3>6. WorkerUnseen' /\ EventsReachAll'
            BY <3>2, <3>5 DEF WorkerUnseen, EventsReachAll
        <3> QED BY <1>3, <2>2, <3>2, <3>3, <3>4, <3>5, <3>6 DEF OutInv
    <2> QED BY <2>1, <2>2
<1> QED BY <1>12, <1>13

\* The proxy asks for the detachment of a session on the worker.
LEMMA InternalSteers ==
    ASSUME TypeInv, WireInv, SteerInv, UNCHANGED <<forwarded, sent, answered>>,
           channel # <<>>, channel' = Tail(channel), NEW s \in Sessions,
           pending' = Put(pending, next_upstream_id, [kind |-> "internal"]), TakeIds(1),
           requests' = requests \cup
             {[id |-> next_upstream_id, of |-> NoRequest, session |-> Root, detach |-> s]}
    PROVE  /\ SteerInv' /\ requests' \subseteq Requests
           /\ next_upstream_id' \in Nat /\ next_upstream_id' >= FirstId
<1>1. PICK n : n = next_upstream_id
    OBVIOUS
<1>2. n \in Nat /\ n >= FirstId /\ FirstId \in Nat /\ next_upstream_id' = n + 1
    BY <1>1, Constants DEF TypeInv, TakeIds
<1>3. /\ DOMAIN pending' = {n} \cup DOMAIN pending /\ pending'[n] = [kind |-> "internal"]
      /\ \A j \in DOMAIN pending : j # n /\ pending'[j] = pending[j]
    <2>1. \A j \in DOMAIN pending : j # n
        BY <1>1, <1>2 DEF SteerInv
    <2> QED BY <1>1, <2>1 DEF Put
<1>4. PICK q : q = [id |-> n, of |-> NoRequest, session |-> Root, detach |-> s]
    OBVIOUS
<1>5. requests' = requests \cup {q} /\ q.id = n /\ q.of = NoRequest /\ q \in Requests
    BY <1>1, <1>2, <1>4, Constants DEF Requests
<1>6. \A id \in Nat : \A c : Steers(id, c) => SteersThen(id, c)
    BY <1>1, <1>2, <1>3 DEF Steers, SteersThen
<1>7. requests \subseteq Requests /\ \A r \in requests : r.id \in Nat
    BY DEF TypeInv, Requests
<1>8. \A r \in requests' : SteersThen(r.id, r.of)
    <2>1. SteersThen(q.id, q.of)
        BY <1>2, <1>3, <1>5 DEF SteersThen
    <2> QED BY <1>5, <1>6, <1>7, <2>1 DEF SteerInv
<1>9. \A k \in 1 .. Len(channel') :
         channel'[k].type = "response" => SteersThen(channel'[k].id, channel'[k].of)
    <2> TAKE k \in 1 .. Len(channel')
    <2>1. channel'[k] \in Messages
        BY ChannelTakes
    <2>2. channel'[k].type = "response" => channel'[k].id \in Nat
        BY <2>1 DEF Messages, Responses, SessionEvents, OtherEvents, TargetEvents
    <2> QED BY <1>6, <2>2, SteerTakes
<1>10. \A j \in DOMAIN pending' : PendingOK(pending[j])'
    <2> TAKE j \in DOMAIN pending'
    <2>1. CASE j = n
        BY <1>3, <2>1 DEF PendingOK
    <2>2. CASE j # n
        <3>1. PendingOK(pending[j]) /\ pending'[j] = pending[j]
            BY <1>3, <2>2 DEF SteerInv
        <3> QED BY <3>1 DEF PendingOK
    <2> QED BY <2>1, <2>2
<1>11. \A c \in 1 .. Len(forwarded) : c \in answered \/ Waits(c)'
    BY <1>3 DEF SteerInv, Waits
<1>12. \A j, k \in DOMAIN pending' :
         pending'[j].kind # "internal" /\ pending'[k].kind # "internal"
           /\ pending'[j].client_id = pending'[k].client_id => j = k
    BY <1>3 DEF SteerInv
<1>13. DOMAIN pending' \subseteq FirstId .. next_upstream_id' - 1
    BY <1>2, <1>3, <1>1 DEF SteerInv
<1>14. SteerInv'
    BY <1>8, <1>9, <1>10, <1>11, <1>12, <1>13 DEF SteerInv, Steers, SteersThen
<1> QED BY <1>2, <1>5, <1>7, <1>14
-----------------------------------------------------------------------------
(* The steps.                                                              *)

\* What TypeInv says of the variables but those of the wire and of the channel.
LEMMA TypeKept ==
    ASSUME TypeInv, UNCHANGED <<phase, wire, hides, session, unseen>>,
           channel' \in Seq(Messages), Len(channel') <= MaxChannel,
           requests' \subseteq Requests, next_upstream_id' \in Nat, next_upstream_id' >= FirstId
    PROVE  TypeInv'
    BY DEF TypeInv, wire, hides

\* The browser emits m: what is left of each kind of step is its sessions.
LEMMA BrowserStep ==
    ASSUME IInv, NEW m \in Messages, Emits(m), Room, out' = {},
           m.type = "response" => Steers(m.id, m.of),
           requests' \subseteq requests, BrowserOnly,
           session' \in [AllSessions -> {"free", "live", "gone"}], SessionInv'
    PROVE  IInv'
<1>1. TypeInv /\ WireInv /\ SteerInv
    BY DEF IInv
<1>2. /\ UNCHANGED <<phase, wire, tables, hides, answered, unseen, forwarded, sent>>
      /\ UNCHANGED <<inbox, earlyBuffer, next_upstream_id, hidden_session_ids,
                     client_session_ids, target_session_ids>>
    BY DEF BrowserOnly, wire, tables, hides
<1>3. /\ channel' = Append(channel, m) /\ channel' \in Seq(Messages)
      /\ Len(channel') = Len(channel) + 1 /\ Len(channel) < MaxChannel
      /\ Len(channel) \in Nat /\ MaxChannel \in Nat
    BY <1>1, EmitsJoins, Constants DEF Emits, Joins, Room
<1>4. TypeInv'
    <2>1. Len(channel') <= MaxChannel
        BY <1>3
    <2> QED BY <1>1, <1>2, <1>3, <2>1 DEF TypeInv
<1>5. WireInv'
    BY <1>1, <1>2, WireKept
<1>6. SteerInv'
    BY <1>1, <1>2, <1>3, ChannelEmits, SteerKept
<1> QED BY <1>4, <1>5, <1>6, NothingOut DEF IInv

LEMMA Answering ==
    ASSUME IInv, NEW r \in requests, BrowserAnswers(r)
    PROVE  IInv'
<1>1. PICK outcome \in {"result", "error", "exception"} :
        Emits([type |-> "response", id |-> r.id, of |-> r.of, outcome |-> outcome])
    BY DEF BrowserAnswers
<1>2. PICK m : m = [type |-> "response", id |-> r.id, of |-> r.of, outcome |-> outcome]
    OBVIOUS
<1>3. /\ TypeInv /\ SessionInv /\ r \in Requests /\ Steers(r.id, r.of)
      /\ phase = "bridged" /\ BrowserOnly /\ UNCHANGED <<session, phase, hides, unseen>>
      /\ out' = {} /\ requests' = requests \ {r} /\ r.detach = Root /\ Room
    BY DEF IInv, TypeInv, SteerInv, BrowserAnswers, Room, BrowserOnly
<1>4. m \in Messages /\ m.type = "response" /\ m.id = r.id /\ m.of = r.of /\ Neutral(m)
    BY <1>2, <1>3 DEF Messages, Responses, Requests, Neutral, IsFor
<1>5. Joins(m)
    BY <1>1, <1>2, <1>3, <1>4, EmitsJoins
<1>6. RequestsKept
    BY <1>3, Constants DEF RequestsKept, Sessions
<1>7. SessionInv'
    BY <1>3, <1>4, <1>5, <1>6, EmitsNeutral
<1> QED BY <1>1, <1>2, <1>3, <1>4, <1>7, BrowserStep DEF TypeInv

LEMMA Attaching ==
    ASSUME IInv, NEW s \in Sessions, BrowserAttaches(s)
    PROVE  IInv'
<1>1. PICK m : m = AttachedEvent(s)
    OBVIOUS
<1>2. /\ TypeInv /\ SessionInv /\ Emits(m) /\ phase = "bridged" /\ BrowserOnly /\ Room
      /\ UNCHANGED <<phase, hides, requests, unseen>> /\ out' = {} /\ session[s] = "free"
      /\ session' = [session EXCEPT ![s] = "live"]
    BY <1>1 DEF IInv, BrowserAttaches, AttachedEvent, Room, BrowserOnly
<1>3. m \in Messages /\ m.type = "event"
    BY <1>1, TargetFacts, Constants DEF AttachedEvent, Event, Messages, SessionEvents
<1>4. SessionInv'
    BY <1>1, <1>2, <1>3, EmitsJoins, EmitsAttached
<1>5. session' \in [AllSessions -> {"free", "live", "gone"}]
    BY <1>2 DEF TypeInv
<1> QED BY <1>2, <1>3, <1>4, <1>5, BrowserStep

LEMMA Detaching ==
    ASSUME IInv, NEW s \in AllSessions, Detach(s), Live(s), Room, BrowserOnly, out' = {},
           requests' \subseteq requests, RequestsKept
    PROVE  IInv'
<1>0. PICK target \in {TargetOf(s), Root} : Emits(DetachedEvent(s, target))
    BY DEF Detach, DetachedEvent
<1>1. PICK m : m = DetachedEvent(s, target) /\ Emits(m)
    BY <1>0
<1>2. /\ TypeInv /\ SessionInv /\ Emits(m) /\ phase = "bridged" /\ session[s] = "live"
      /\ UNCHANGED <<phase, hides, unseen>> /\ session' = [session EXCEPT ![s] = "gone"]
    BY <1>1 DEF IInv, Detach, DetachedEvent, Room, BrowserOnly, Live
<1>3. m \in Messages /\ m.type = "event"
    BY <1>1, TargetFacts, Constants DEF DetachedEvent, Event, Messages, SessionEvents
<1>4. SessionInv'
    BY <1>1, <1>2, <1>3, EmitsJoins, EmitsDetached
<1>5. session' \in [AllSessions -> {"free", "live", "gone"}]
    BY <1>2 DEF TypeInv
<1> QED BY <1>2, <1>3, <1>4, <1>5, BrowserStep

LEMMA Obeying ==
    ASSUME IInv, NEW r \in requests, BrowserObeys(r)
    PROVE  IInv'
<1>1. /\ TypeInv /\ SessionInv /\ r \in Requests /\ Room /\ phase = "bridged" /\ BrowserOnly
      /\ UNCHANGED <<phase, hides, unseen>>
      /\ out' = {} /\ requests' = requests \ {r} /\ r.detach # Root /\ Steers(r.id, r.of)
      /\ r.detach \in AllSessions
    BY DEF IInv, TypeInv, SteerInv, BrowserObeys, Room, BrowserOnly, Requests, AllSessions
<1>2. CASE Live(r.detach)
    <2>1. Detach(r.detach) /\ session'[r.detach] = "gone"
        BY <1>1, <1>2 DEF BrowserObeys, Detach, TypeInv
    <2>2. RequestsKept
        BY <1>1, <2>1 DEF RequestsKept
    <2> QED BY <1>1, <1>2, <2>1, <2>2, Detaching
<1>3. CASE ~Live(r.detach)
    <2>1. PICK m : m = [type |-> "response", id |-> r.id, of |-> r.of, outcome |-> "error"]
        OBVIOUS
    <2>2. Emits(m) /\ UNCHANGED session
        BY <1>3, <2>1 DEF BrowserObeys
    <2>3. m \in Messages /\ m.type = "response" /\ m.id = r.id /\ m.of = r.of /\ Neutral(m)
        BY <1>1, <2>1 DEF Messages, Responses, Requests, Neutral, IsFor
    <2>4. RequestsKept
        BY <1>1, <1>3, <2>2 DEF RequestsKept, Live
    <2>5. SessionInv'
        BY <1>1, <2>2, <2>3, <2>4, EmitsJoins, EmitsNeutral
    <2>6. Steers(m.id, m.of)
        BY <1>1, <2>3
    <2> QED BY <1>1, <2>2, <2>3, <2>5, <2>6, BrowserStep DEF TypeInv
<1> QED BY <1>2, <1>3

\* Events of a session, of a target, or of a binding called in the worker.
LEMMA Emitting ==
    ASSUME IInv, BrowserEmits
    PROVE  IInv'
<1>1. /\ TypeInv /\ SessionInv /\ Room /\ phase = "bridged" /\ BrowserOnly /\ out' = {}
      /\ UNCHANGED <<phase, hides, unseen, session, requests>>
    BY DEF IInv, BrowserEmits, Room, BrowserOnly
<1>2. ASSUME NEW m \in Messages, m.type = "event", Neutral(m), Emits(m),
             \A s \in AllSessions : m.method = "sessionEvent" /\ m.session = s => Live(s)
      PROVE  IInv'
    <2>1. RequestsKept
        BY <1>1 DEF RequestsKept
    <2>2. SessionInv'
        BY <1>1, <1>2, <2>1, EmitsJoins, EmitsNeutral
    <2> QED BY <1>1, <1>2, <2>2, BrowserStep DEF TypeInv
<1>3. CASE \E s \in AllSessions : Live(s) /\ Emits(Event("sessionEvent", s, Root, Root))
    <2>1. PICK s \in AllSessions : Live(s) /\ Emits(Event("sessionEvent", s, Root, Root))
        BY <1>3
    <2>2. PICK m : m = Event("sessionEvent", s, Root, Root)
        OBVIOUS
    <2>3. m \in Messages /\ m.type = "event" /\ Neutral(m) /\ m.session = s
        BY <2>2 DEF Event, Messages, OtherEvents, Neutral, IsFor
    <2> QED BY <1>2, <2>1, <2>2, <2>3
<1>4. CASE \E t \in Targets : Emits(Event("targetInfoChanged", Root, Root, t))
    <2>1. PICK t \in Targets : Emits(Event("targetInfoChanged", Root, Root, t))
        BY <1>4
    <2>2. PICK m : m = Event("targetInfoChanged", Root, Root, t)
        OBVIOUS
    <2>3. m \in Messages /\ m.type = "event" /\ Neutral(m) /\ m.method = "targetInfoChanged"
        BY <2>2 DEF Event, Messages, TargetEvents, Neutral, IsFor
    <2> QED BY <1>2, <2>1, <2>2, <2>3
<1>5. CASE \E b \in {"customEvent", "upstreamEvent"} :
             Live(ExtSession) /\ Emits(Event(b, ExtSession, Root, Root))
    <2>1. PICK b \in {"customEvent", "upstreamEvent"} : Emits(Event(b, ExtSession, Root, Root))
        BY <1>5
    <2>2. PICK m : m = Event(b, ExtSession, Root, Root)
        OBVIOUS
    <2>3. m \in Messages /\ m.type = "event" /\ Neutral(m) /\ m.method # "sessionEvent"
        BY <2>1, <2>2, Constants DEF Event, Messages, OtherEvents, Neutral, IsFor
    <2> QED BY <1>2, <2>1, <2>2, <2>3
<1> QED BY <1>3, <1>4, <1>5 DEF BrowserEmits

\* The proxy handles a message that leaves the tables of commands as they are.
LEMMA TakingStep ==
    ASSUME IInv, channel # <<>>, Takes, UNCHANGED <<tables, requests>>, EventHandled,
           hidden_session_ids' \subseteq AllSessions, client_session_ids' \subseteq Sessions,
           DOMAIN target_session_ids' \subseteq Targets, SessionInv', OutInv'
    PROVE  IInv'
<1>1. /\ TypeInv /\ WireInv /\ SteerInv /\ channel' = Tail(channel)
      /\ UNCHANGED <<phase, wire, session, answered, unseen, tables, forwarded, sent>>
      /\ UNCHANGED <<inbox, earlyBuffer, next_upstream_id>>
    BY DEF IInv, EventHandled, Takes, wire, tables
<1>2. channel' \in Seq(Messages) /\ Len(channel') <= MaxChannel
    BY <1>1, ChannelTakes
<1>3. TypeInv'
    BY <1>1, <1>2 DEF TypeInv
<1>4. WireInv'
    BY <1>1, WireKept
<1>5. SteerInv'
    BY <1>1, SteerTakes, SteerKept
<1> QED BY <1>3, <1>4, <1>5 DEF IInv

LEMMA Responding ==
    ASSUME IInv, HandleResponse
    PROVE  IInv'
<1>1. /\ TypeInv /\ WireInv /\ SteerInv /\ SessionInv /\ channel # <<>> /\ channel' = Tail(channel)
      /\ UNCHANGED <<phase, wire, hides, session, unseen, requests, next_upstream_id>>
      /\ Message.type = "response"
    BY DEF IInv, HandleResponse, Takes
<1>2. SteerInv' /\ OutInv'
    BY <1>1, ForeignResponse, OwnResponse
<1>3. WireInv'
    BY <1>1, WireKept
<1>4. TypeInv'
    <2>1. channel' \in Seq(Messages) /\ Len(channel') <= MaxChannel
        BY <1>1, ChannelTakes
    <2>2. requests' \subseteq Requests /\ next_upstream_id' \in Nat /\ next_upstream_id' >= FirstId
        BY <1>1 DEF TypeInv
    <2> QED BY <1>1, <2>1, <2>2, TypeKept
<1>5. SessionInv'
    <2>1. Neutral(Message)
        BY <1>1 DEF Neutral, IsFor
    <2> QED BY <1>1, <2>1, TakesNeutral
<1> QED BY <1>2, <1>3, <1>4, <1>5 DEF IInv

LEMMA Binding ==
    ASSUME IInv, HandleBinding
    PROVE  IInv'
<1>1. /\ TypeInv /\ SessionInv /\ channel # <<>> /\ Takes /\ EventHandled /\ channel' = Tail(channel)
      /\ UNCHANGED <<tables, requests, hides, phase, session, unseen>>
      /\ Message.method \in {"customEvent", "upstreamEvent"}
    BY DEF IInv, HandleBinding, Is, EventHandled, Takes
<1>2. Neutral(Message)
    BY <1>1 DEF Neutral, IsFor
<1>3. SessionInv'
    BY <1>1, <1>2, TakesNeutral
<1>4. /\ hidden_session_ids' \subseteq AllSessions /\ client_session_ids' \subseteq Sessions
      /\ DOMAIN target_session_ids' \subseteq Targets
    BY <1>1 DEF TypeInv, hides
<1> QED BY <1>1, <1>3, <1>4, BindingOut, TakingStep

LEMMA Mapping ==
    ASSUME TypeInv, target_session_ids' = Mapped(Message),
           Message.method = "attachedToTarget" => Message.target \in Targets
    PROVE  DOMAIN target_session_ids' \subseteq Targets
<1>1. DOMAIN target_session_ids \subseteq Targets
    BY DEF TypeInv
<1>2. CASE Message.method = "attachedToTarget"
    BY <1>1, <1>2 DEF Mapped, Put
<1>3. CASE Message.method = "detachedFromTarget"
    BY <1>1, <1>3 DEF Mapped
<1>4. CASE Message.method \notin {"attachedToTarget", "detachedFromTarget"}
    BY <1>1, <1>4 DEF Mapped
<1> QED BY <1>2, <1>3, <1>4

LEMMA AttachHandled ==
    ASSUME IInv, HandleAttached
    PROVE  IInv'
<1>1. PICK s : s = Message.child
    OBVIOUS
<1>2. /\ TypeInv /\ WireInv /\ SteerInv /\ SessionInv /\ channel # <<>> /\ Takes /\ EventHandled
      /\ channel' = Tail(channel) /\ Message.method = "attachedToTarget"
      /\ UNCHANGED <<wire, phase, session, unseen, answered, forwarded, sent>>
      /\ UNCHANGED <<inbox, earlyBuffer>>
      /\ target_session_ids' = Mapped(Message)
    BY DEF IInv, HandleAttached, Is, EventHandled, Takes, wire
<1>3. /\ SessionInv' /\ hidden_session_ids' \subseteq AllSessions
      /\ client_session_ids' \subseteq Sessions /\ s \in Sessions \ unseen
      /\ Message.target = TargetOf(s) /\ Message.session = Root
    BY <1>1, <1>2, TakesAttached
<1>4. DOMAIN target_session_ids' \subseteq Targets
    BY <1>2, <1>3, Mapping, TargetFacts, Constants
<1>5. CASE Message.target = Worker
    <2>1. /\ pending' = Put(pending, next_upstream_id, [kind |-> "internal"]) /\ TakeIds(1)
          /\ requests' = requests \cup
               {[id |-> next_upstream_id, of |-> NoRequest, session |-> Root, detach |-> s]}
          /\ out' = {}
        BY <1>1, <1>5 DEF HandleAttached, Hides
    <2>2. /\ SteerInv' /\ requests' \subseteq Requests
          /\ next_upstream_id' \in Nat /\ next_upstream_id' >= FirstId
        BY <1>2, <1>3, <2>1, InternalSteers
    <2>3. channel' \in Seq(Messages) /\ Len(channel') <= MaxChannel
        BY <1>2, ChannelTakes
    <2>4. TypeInv'
        BY <1>2, <1>3, <1>4, <2>2, <2>3 DEF TypeInv
    <2>5. WireInv' /\ OutInv'
        BY <1>2, <2>1, WireKept, NothingOut
    <2> QED BY <1>3, <2>2, <2>4, <2>5 DEF IInv
<1>6. CASE Message.target # Worker
    <2>1. out' = {Message} /\ UNCHANGED <<tables, requests>>
        BY <1>6 DEF HandleAttached, Hides
    <2>2. EndWithoutTarget(Message)
        BY <1>1, <1>3, <1>6, TargetFacts, Constants DEF EndWithoutTarget
    <2>3. OutInv'
        BY <1>2, <1>3, <1>6, <2>1, <2>2, Constants, EventOut
    <2> QED BY <1>2, <1>3, <1>4, <2>1, <2>3, TakingStep
<1> QED BY <1>5, <1>6

LEMMA DetachHandled ==
    ASSUME IInv, HandleDetached
    PROVE  IInv'
<1>1. PICK s : s = Message.child
    OBVIOUS
<1>2. /\ TypeInv /\ SessionInv /\ channel # <<>> /\ Takes /\ EventHandled
      /\ channel' = Tail(channel) /\ Message.method = "detachedFromTarget"
      /\ Message.type = "event" /\ UNCHANGED <<tables, requests, unseen, session>>
      /\ target_session_ids' = Mapped(Message)
    BY DEF IInv, HandleDetached, Is, EventHandled, Takes
<1>3. SessionInv' /\ OfTarget(Message, s) /\ Message.session = Root /\ session[s] = "gone"
    BY <1>1, <1>2, TakesDetached
<1>4. Message.child \in AllSessions
    BY <1>2, ChannelTakes DEF Messages, SessionEvents, OtherEvents, TargetEvents, Responses
<1>5. DOMAIN target_session_ids' \subseteq Targets
    BY <1>2, Mapping
<1>6. /\ hidden_session_ids' \subseteq AllSessions /\ client_session_ids' \subseteq Sessions
    BY <1>2 DEF TypeInv, HandleDetached, ForgetSession
<1>7. OutInv'
    <2>1. CASE Message.target = Worker
        BY <2>1, NothingOut DEF HandleDetached, Hides
    <2>2. CASE Message.target # Worker
        <3>1. out' = {Message}
            BY <2>2 DEF HandleDetached, Hides
        <3>2. EndWithoutTarget(Message)
            BY <1>1, <1>2, <1>3, <2>2, TargetFacts DEF EndWithoutTarget, OfTarget
        <3> QED BY <1>2, <1>3, <2>2, <3>1, <3>2, Constants, EventOut
    <2> QED BY <2>1, <2>2
<1> QED BY <1>2, <1>3, <1>5, <1>6, <1>7, TakingStep

LEMMA EventTaken ==
    ASSUME IInv, HandleEvent
    PROVE  IInv'
<1>1. /\ TypeInv /\ SessionInv /\ channel # <<>> /\ Takes /\ EventHandled /\ channel' = Tail(channel)
      /\ UNCHANGED <<tables, requests, hides, phase, session, unseen>>
    BY DEF IInv, HandleEvent, Is, EventHandled, Takes
<1>2. OutInv' /\ SessionInv'
    BY <1>1, SessionEventOut, TakesNeutral
<1>3. /\ hidden_session_ids' \subseteq AllSessions /\ client_session_ids' \subseteq Sessions
      /\ DOMAIN target_session_ids' \subseteq Targets
    BY <1>1 DEF TypeInv, hides
<1> QED BY <1>1, <1>2, <1>3, TakingStep

LEMMA Sending ==
    ASSUME IInv, NEW kind \in Kinds, NEW s \in Sessions \cup {Root}, ClientSends(kind, s)
    PROVE  IInv'
<1>1. /\ TypeInv /\ WireInv /\ SteerInv /\ SessionInv /\ out' = {}
      /\ UNCHANGED <<phase, earlyBuffer, forwarded, tables, requests, channel, session, hides,
                     answered, unseen>>
    BY DEF IInv, ClientSends
<1>2. /\ WireInv' /\ Len(sent') <= MaxCommands
      /\ sent' \in Seq([kind : Kinds, session : Sessions \cup {Root}]) /\ inbox' \in Seq(Nat)
      /\ \A i \in 1 .. Len(sent) : sent'[i] = sent[i]
    BY <1>1, ClientSendsWire
<1>3. TypeInv'
    BY <1>1, <1>2 DEF TypeInv, hides, tables
<1>4. SteerInv'
    BY <1>1, <1>2, SteerKept DEF SteerInv
<1>5. SessionInv'
    BY <1>1, SessionKept
<1> QED BY <1>1, <1>2, <1>3, <1>4, <1>5, NothingOut DEF IInv

LEMMA Buffering ==
    ASSUME IInv, ReceiveEarly
    PROVE  IInv'
<1>1. /\ TypeInv /\ WireInv /\ SteerInv /\ SessionInv /\ out' = {}
      /\ UNCHANGED <<phase, sent, forwarded, tables, requests, channel, session, hides,
                     answered, unseen>>
    BY DEF IInv, ReceiveEarly
<1>2. WireInv' /\ inbox' \in Seq(Nat) /\ earlyBuffer' \in Seq(Nat)
    BY <1>1, ReceiveEarlyWire
<1>3. TypeInv'
    BY <1>1, <1>2 DEF TypeInv, hides, tables
<1>4. SteerInv'
    BY <1>1, SteerKept DEF SteerInv
<1>5. SessionInv'
    BY <1>1, SessionKept
<1> QED BY <1>1, <1>2, <1>3, <1>4, <1>5, NothingOut DEF IInv

LEMMA Bridging ==
    ASSUME IInv, Bridge
    PROVE  IInv'
<1>1. /\ TypeInv /\ WireInv /\ SteerInv /\ SessionInv /\ out' = {}
      /\ UNCHANGED <<sent, inbox, channel, session, client_session_ids, target_session_ids,
                     answered, unseen>>
      /\ phase' = "bridged" /\ hidden_session_ids' = {ExtSession} /\ earlyBuffer' = <<>>
    BY DEF IInv, Bridge
<1>2. WireInv' /\ Forwards(earlyBuffer) /\ HandleClientMessages(earlyBuffer)
    BY <1>1, BridgeWire
<1>3. /\ SteerInv' /\ requests' \subseteq Requests
      /\ next_upstream_id' \in Nat /\ next_upstream_id' >= FirstId
    BY <1>1, <1>2, ForwardsSteer
<1>4. forwarded' \in Seq(Nat)
    BY <1>1, <1>2, ForwardedIs
<1>5. TypeInv'
    BY <1>1, <1>3, <1>4, Constants DEF TypeInv
<1>6. SessionInv'
    BY <1>1, BridgeSessions
<1> QED BY <1>1, <1>2, <1>3, <1>5, <1>6, NothingOut DEF IInv

LEMMA Forwarding ==
    ASSUME IInv, HandleClientMessage
    PROVE  IInv'
<1>1. /\ TypeInv /\ WireInv /\ SteerInv /\ SessionInv /\ out' = {}
      /\ UNCHANGED <<phase, sent, earlyBuffer, channel, session, hides, answered, unseen>>
    BY DEF IInv, HandleClientMessage
<1>2. /\ WireInv' /\ inbox' \in Seq(Nat)
      /\ \E cs : Forwards(cs) /\ HandleClientMessages(cs)
    BY <1>1, HandleClientMessageWire
<1>3. /\ SteerInv' /\ requests' \subseteq Requests /\ requests \subseteq requests'
      /\ next_upstream_id' \in Nat /\ next_upstream_id' >= FirstId
    BY <1>1, <1>2, ForwardsSteer
<1>4. forwarded' \in Seq(Nat)
    BY <1>1, <1>2, ForwardedIs
<1>5. TypeInv'
    BY <1>1, <1>2, <1>3, <1>4 DEF TypeInv, hides
<1>6. SessionInv'
    BY <1>1, <1>3, SessionKept
<1> QED BY <1>1, <1>2, <1>3, <1>5, <1>6, NothingOut DEF IInv

LEMMA Stuttering == ASSUME IInv, UNCHANGED vars PROVE IInv'
<1>1. /\ TypeInv /\ WireInv /\ SteerInv /\ SessionInv /\ OutInv
      /\ UNCHANGED <<phase, wire, tables, requests, channel, session, hides, out, answered, unseen>>
      /\ UNCHANGED <<inbox, earlyBuffer, sent, forwarded, next_upstream_id, pending,
                     hidden_session_ids, client_session_ids, target_session_ids>>
    BY DEF IInv, vars, wire, tables, hides
<1>2. TypeInv'
    BY <1>1 DEF TypeInv
<1>3. WireInv' /\ SessionInv'
    BY <1>1, WireKept, SessionKept
<1>4. SteerInv'
    BY <1>1, SteerKept DEF SteerInv
<1>5. OutInv'
    BY <1>1 DEF OutInv, Answers, Customs, WorkerUnseen, EndWithoutTarget, EventsReachAll
<1> QED BY <1>2, <1>3, <1>4, <1>5 DEF IInv

LEMMA NextIInv == IInv /\ [Next]_vars => IInv'
<1> SUFFICES ASSUME IInv, [Next]_vars PROVE IInv'
    OBVIOUS
<1>1. CASE \E k \in Kinds, s \in Sessions \cup {Root} : ClientSends(k, s)
    BY <1>1, Sending
<1>2. CASE ReceiveEarly
    BY <1>2, Buffering
<1>3. CASE Bridge
    BY <1>3, Bridging
<1>4. CASE HandleClientMessage
    BY <1>4, Forwarding
<1>5. CASE Browser
    <2>1. CASE \E r \in requests : BrowserAnswers(r) \/ BrowserObeys(r)
        BY <2>1, Answering, Obeying
    <2>2. CASE \E s \in Sessions : BrowserAttaches(s)
        BY <2>2, Attaching
    <2>3. CASE \E s \in AllSessions : BrowserDetaches(s)
        <3>1. PICK s \in AllSessions : BrowserDetaches(s)
            BY <2>3
        <3>2. /\ Detach(s) /\ Live(s) /\ Room /\ BrowserOnly /\ out' = {}
              /\ requests' \subseteq requests /\ RequestsKept
            BY <3>1 DEF BrowserDetaches, RequestsKept
        <3> QED BY <3>2, Detaching
    <2>4. CASE BrowserEmits
        BY <2>4, Emitting
    <2> QED BY <1>5, <2>1, <2>2, <2>3, <2>4, Constants DEF Browser
<1>6. CASE FromUpstream
    BY <1>6, Responding, Binding, AttachHandled, DetachHandled, EventTaken DEF FromUpstream
<1>7. CASE UNCHANGED vars
    BY <1>7, Stuttering
<1> QED BY <1>1, <1>2, <1>3, <1>4, <1>5, <1>6, <1>7 DEF Next

LEMMA IInvTypeOK == IInv => TypeOK
<1> SUFFICES ASSUME IInv PROVE TypeOK
    OBVIOUS
<1>1. TypeInv /\ SteerInv /\ WireInv
    BY DEF IInv
<1>2. \A id \in DOMAIN pending : pending[id] \in Steering
    <2> TAKE id \in DOMAIN pending
    <2>1. PendingOK(pending[id])
        BY <1>1 DEF SteerInv
    <2>2. \A c \in 1 .. Len(forwarded) : c \in Commands
        <3>1. /\ Len(sent) <= MaxCommands /\ MaxCommands \in Nat
              /\ Len(forwarded) <= Len(sent) /\ Len(forwarded) \in Nat /\ Len(sent) \in Nat
            BY <1>1, ForwardedSent, Constants DEF TypeInv
        <3> QED BY <3>1 DEF Commands
    <2>3. CASE pending[id] = [kind |-> "internal"]
        BY <2>3 DEF Steering
    <2>4. CASE pending[id] # [kind |-> "internal"]
        BY <2>1, <2>2, <2>4 DEF PendingOK, Steering
    <2> QED BY <2>3, <2>4
<1> QED BY <1>1, <1>2 DEF TypeInv, SteerInv, TypeOK

LEMMA IInvAnswers == IInv => AnswersSteered
<1> SUFFICES ASSUME IInv PROVE AnswersSteered
    OBVIOUS
<1>1. TypeInv /\ WireInv /\ SteerInv /\ OutInv
    BY DEF IInv
<1>2. DOMAIN forwarded = 1 .. Len(forwarded) /\ \A i \in 1 .. Len(forwarded) : forwarded[i] = i
    BY <1>1, Functional DEF TypeInv, WireInv
<1>3. \A c : Waits(c) => c \in 1 .. Len(forwarded) /\ c \notin answered
    <2> TAKE c
    <2> HAVE Waits(c)
    <2>1. PICK id \in DOMAIN pending : pending[id].kind # "internal" /\ pending[id].client_id = c
        BY DEF Waits
    <2>2. PendingOK(pending[id])
        BY <1>1 DEF SteerInv
    <2> QED BY <2>1, <2>2 DEF PendingOK
<1>4. answered \subseteq 1 .. Len(forwarded)
    BY <1>1 DEF SteerInv
<1>5. \A c \in Commands : (\E i \in DOMAIN forwarded : forwarded[i] = c) <=> c \in 1 .. Len(forwarded)
    BY <1>2
<1>6. \A c \in Commands : (\E i \in DOMAIN forwarded : forwarded[i] = c)
         <=> (c \in answered) # Waits(c)
    <2> TAKE c \in Commands
    <2>1. CASE c \in 1 .. Len(forwarded)
        <3>1. c \in answered \/ Waits(c)
            BY <1>1, <2>1 DEF SteerInv
        <3> QED BY <1>3, <1>5, <2>1, <3>1
    <2>2. CASE c \notin 1 .. Len(forwarded)
        <3>1. c \notin answered /\ ~Waits(c)
            BY <1>3, <1>4, <2>2
        <3>2. (c \in answered) = FALSE /\ Waits(c) = FALSE
            BY <3>1 DEF Waits
        <3> QED BY <1>5, <2>2, <3>2
    <2> QED BY <2>1, <2>2
<1>7. OwnAnswers /\ ErrorsKept /\ \A a \in Answers : a.id \in answered
    BY <1>1 DEF OutInv, OwnAnswers, ErrorsKept
<1> QED BY <1>6, <1>7 DEF AnswersSteered, AnsweredOnce

LEMMA AlwaysIInv == Spec => []IInv
    BY InitIInv, NextIInv, PTL DEF Spec

\* Upstream ids stay below the next one, every table holds what the code puts in it.
THEOREM TypeCorrect == Spec => []TypeOK
    BY AlwaysIInv, IInvTypeOK, PTL

\* No command overtakes another or is lost while the proxy connects, however many the
\* client sends before and after (earlyHandler and handleConnection).
THEOREM NoneOvertaken == Spec => []OrderKept
<1>1. IInv => OrderKept
    BY WireOrder DEF IInv
<1> QED BY <1>1, AlwaysIInv, PTL

\* Each command that went upstream gets one answer, the browser's answer to it, on its
\* own session (handleClientMessage and the response handler of handleConnection).
THEOREM EachItsAnswer == Spec => []AnswersSteered
    BY AlwaysIInv, IInvAnswers, PTL

\* The client sees nothing of the worker's target, and the sessions that its
\* auto-attach opens on it are asked to detach (the hides of handleConnection).
THEOREM WorkerStaysHidden == Spec => []WorkerHidden
<1>1. IInv => WorkerHidden
    BY DEF IInv, OutInv, SessionInv, WorkerHidden
<1> QED BY <1>1, AlwaysIInv, PTL

\* Custom events are copied to the sessions attached and to no other.
THEOREM FanoutIsAttached == Spec => []FanoutToAttached
<1>1. IInv => FanoutToAttached
    BY DEF IInv, OutInv, SessionInv, FanoutToAttached
<1> QED BY <1>1, AlwaysIInv, PTL

-----------------------------------------------------------------------------
(* The proxy that accepts the connections and closes them (ProxyLifecycle), *)
(* for every set of clients: the types, that activeCdps tracks the open     *)
(* ModCDPClients, and what close() leaves.                                  *)

\* What close() relies on. A client that has not connected has nothing; once close()
\* has begun, what was established is closing or closed; and closed when it is awaited.
Tracking ==
    /\ \A c \in Clients : client[c] = "absent" => conn[c] = "none" /\ cdp[c] = "none"
    /\ proxy = "starting" => (activeCdps = {} /\ \A c \in Clients : client[c] = "absent")
    /\ ActiveTracked

Draining ==
    /\ proxy \in {"starting", "failed", "listening"} => established = {}
    /\ \A c \in established : cdp[c] \in {"closing", "closed"}
    /\ proxy \in {"managed", "servers", "closed"} =>
         \A c \in established : cdp[c] = "closed"
    /\ proxy \in {"servers", "closed"} => managed # "open"
    /\ proxy = "closed" => \A c \in Clients : client[c] \in {"absent", "gone"}

LifecycleInv == LifecycleTypes /\ Tracking /\ Draining

\* The first state.
LEMMA InitLifecycle == LifecycleInit => LifecycleInv
<1> SUFFICES ASSUME LifecycleInit PROVE LifecycleInv
    OBVIOUS
<1>1. LifecycleTypes
    BY DEF LifecycleInit, LifecycleTypes
<1>2. Tracking
    BY DEF LifecycleInit, Tracking, ActiveTracked
<1>3. Draining
    BY DEF LifecycleInit, Draining
<1> QED BY <1>1, <1>2, <1>3 DEF LifecycleInv

\* Told to disconnect, clients only go from "connected" to "closing".
LEMMA DisconnectedClients ==
    ASSUME LifecycleTypes, NEW C \in SUBSET Clients
    PROVE  /\ Disconnected(C) \in [Clients -> {"absent", "connected", "closing", "gone"}]
           /\ \A c \in Clients : Disconnected(C)[c] = "absent" <=> client[c] = "absent"
           /\ \A c \in Clients : Disconnected(C)[c] = "gone" <=> client[c] = "gone"
    BY DEF LifecycleTypes, Disconnected

\* close() begins: what is established is closing from here on.
LEMMA BeginCloseLifecycle == LifecycleInv /\ BeginClose => LifecycleInv'
<1> SUFFICES ASSUME LifecycleInv, BeginClose PROVE LifecycleInv'
    OBVIOUS
<1>0. LifecycleTypes /\ Tracking /\ Draining
    BY DEF LifecycleInv
<1>1. /\ proxy = "listening" /\ proxy' = "draining" /\ monitor' = FALSE
      /\ client' = Disconnected(Clients)
      /\ cdp' = [c \in Clients |-> IF c \in activeCdps THEN Closing(c) ELSE cdp[c]]
      /\ established' = {c \in activeCdps : cdp[c] # "connecting"}
      /\ UNCHANGED <<mode, upstream, conn, activeCdps, managed, late>>
    BY DEF BeginClose
<1>2. /\ client' \in [Clients -> {"absent", "connected", "closing", "gone"}]
      /\ \A c \in Clients : client'[c] = "absent" => client[c] = "absent"
    BY <1>0, <1>1, DisconnectedClients
<1>3. activeCdps = {c \in Clients : cdp[c] \notin {"none", "closed"}}
    BY <1>0, <1>1 DEF Tracking, ActiveTracked
<1>4. LifecycleTypes'
    BY <1>0, <1>1, <1>2 DEF LifecycleTypes, Closing, InUse
<1>5. Tracking'
    BY <1>0, <1>1, <1>2, <1>3 DEF LifecycleTypes, Tracking, ActiveTracked, Closing, InUse
<1>6. \A c \in established' : cdp'[c] = "closing"
    BY <1>0, <1>1, <1>3 DEF LifecycleTypes, Closing, InUse
<1>7. Draining'
    BY <1>1, <1>6 DEF Draining
<1> QED BY <1>4, <1>5, <1>7 DEF LifecycleInv

\* The steps of close() after its first await.
LEMMA ClosesLifecycle == LifecycleInv /\ Closes => LifecycleInv'
<1> SUFFICES ASSUME LifecycleInv, Closes PROVE LifecycleInv'
    OBVIOUS
<1>0. LifecycleTypes /\ Tracking /\ Draining
    BY DEF LifecycleInv
<1>1. CASE CdpsDrained
    <2>1. \A c \in established : cdp[c] = "closed"
        BY <1>0, <1>1 DEF CdpsDrained, AllClosed, Draining
    <2>2. LifecycleTypes'
        BY <1>0, <1>1 DEF CdpsDrained, LifecycleTypes
    <2>3. Tracking'
        BY <1>0, <1>1 DEF CdpsDrained, Tracking, ActiveTracked
    <2>4. Draining'
        BY <1>0, <1>1, <2>1 DEF CdpsDrained, Draining
    <2> QED BY <2>2, <2>3, <2>4 DEF LifecycleInv
<1>2. CASE ManagedClosed
    <2>1. LifecycleTypes'
        BY <1>0, <1>2 DEF ManagedClosed, LifecycleTypes, ends
    <2>2. Tracking'
        BY <1>0, <1>2 DEF ManagedClosed, Tracking, ActiveTracked, ends
    <2>3. Draining'
        BY <1>0, <1>2 DEF ManagedClosed, Draining, ends
    <2> QED BY <2>1, <2>2, <2>3 DEF LifecycleInv
<1>3. CASE ServersClosed
    <2>1. LifecycleTypes'
        BY <1>0, <1>3 DEF ServersClosed, LifecycleTypes, ends
    <2>2. Tracking'
        BY <1>0, <1>3 DEF ServersClosed, Tracking, ActiveTracked, ends
    <2>3. Draining'
        BY <1>0, <1>3 DEF ServersClosed, Draining, ends
    <2> QED BY <2>1, <2>2, <2>3 DEF LifecycleInv
<1> QED BY <1>1, <1>2, <1>3 DEF Closes

\* The steps of one connection.
LEMMA ConnectionLifecycle ==
    ASSUME LifecycleInv, NEW c \in Clients,
           Accept(c) \/ Wire(c) \/ Refuse(c) \/ Leave(c) \/ Gone(c) \/ CdpClosed(c)
             \/ UpstreamLost(c)
    PROVE  LifecycleInv'
<1>0. LifecycleTypes /\ Tracking /\ Draining
    BY DEF LifecycleInv
<1>1. CASE Accept(c)
    <2>0. cdp[c] = "none" /\ c \notin established
        BY <1>0, <1>1 DEF Accept, Tracking, Draining
    <2>1. LifecycleTypes'
        BY <1>0, <1>1, <2>0 DEF Accept, LifecycleTypes, proxyVars, Modes
    <2>2. Tracking'
        BY <1>0, <1>1, <2>0 DEF Accept, LifecycleTypes, Tracking, ActiveTracked, proxyVars
    <2>3. Draining'
        BY <1>0, <1>1, <2>0 DEF Accept, LifecycleTypes, Draining, proxyVars
    <2> QED BY <2>1, <2>2, <2>3 DEF LifecycleInv
<1>2. CASE Wire(c)
    <2>0. cdp[c] = "connecting" /\ c \notin established /\ client[c] # "absent"
        BY <1>0, <1>2 DEF Wire, LifecycleTypes, Tracking, Draining
    <2>1. LifecycleTypes'
        BY <1>0, <1>2, <2>0 DEF Wire, LifecycleTypes, proxyVars
    <2>2. Tracking'
        BY <1>0, <1>2, <2>0 DEF Wire, LifecycleTypes, Tracking, ActiveTracked, proxyVars
    <2>3. Draining'
        BY <1>0, <1>2, <2>0 DEF Wire, LifecycleTypes, Draining, proxyVars
    <2> QED BY <2>1, <2>2, <2>3 DEF LifecycleInv
<1>3. CASE Refuse(c)
    <2>0. cdp[c] = "connecting" /\ c \notin established /\ client[c] # "absent"
        BY <1>0, <1>3 DEF Refuse, LifecycleTypes, Tracking, Draining
    <2>1. /\ client' \in [Clients -> {"absent", "connected", "closing", "gone"}]
          /\ \A d \in Clients : client'[d] = "absent" <=> client[d] = "absent"
          /\ \A d \in Clients : client'[d] = "gone" <=> client[d] = "gone"
        BY <1>0, <1>3, DisconnectedClients, {c} \in SUBSET Clients DEF Refuse, Refused
    <2>2. LifecycleTypes'
        BY <1>0, <1>3, <2>0, <2>1 DEF Refuse, LifecycleTypes, proxyVars
    <2>3. Tracking'
        BY <1>0, <1>3, <2>0, <2>1 DEF Refuse, LifecycleTypes, Tracking, ActiveTracked, proxyVars
    <2>4. Draining'
        BY <1>0, <1>3, <2>0, <2>1 DEF Refuse, LifecycleTypes, Draining, proxyVars
    <2> QED BY <2>2, <2>3, <2>4 DEF LifecycleInv
<1>4. CASE Leave(c)
    <2>1. LifecycleTypes'
        BY <1>0, <1>4 DEF Leave, LifecycleTypes, proxyVars
    <2>2. Tracking'
        BY <1>0, <1>4 DEF Leave, LifecycleTypes, Tracking, ActiveTracked, proxyVars
    <2>3. Draining'
        BY <1>0, <1>4 DEF Leave, LifecycleTypes, Draining, proxyVars
    <2> QED BY <2>1, <2>2, <2>3 DEF LifecycleInv
<1>5. CASE Gone(c)
    <2>1. LifecycleTypes'
        BY <1>0, <1>5 DEF Gone, LifecycleTypes, proxyVars, ClosesCdp, Closing, InUse
    <2>2. Tracking'
        BY <1>0, <1>5
        DEF Gone, LifecycleTypes, Tracking, ActiveTracked, proxyVars, Closing, InUse
    <2>3. Draining'
        BY <1>0, <1>5 DEF Gone, LifecycleTypes, Draining, proxyVars, Closing, InUse
    <2> QED BY <2>1, <2>2, <2>3 DEF LifecycleInv
<1>6. CASE CdpClosed(c)
    <2>0. client[c] # "absent"
        BY <1>0, <1>6 DEF CdpClosed, Tracking
    <2>1. LifecycleTypes'
        BY <1>0, <1>6 DEF CdpClosed, LifecycleTypes, proxyVars, Forgotten
    <2>2. Tracking'
        BY <1>0, <1>6, <2>0 DEF CdpClosed, LifecycleTypes, Tracking, ActiveTracked, proxyVars, Forgotten
    <2>3. Draining'
        BY <1>0, <1>6 DEF CdpClosed, LifecycleTypes, Draining, proxyVars
    <2> QED BY <2>1, <2>2, <2>3 DEF LifecycleInv
<1>7. CASE UpstreamLost(c)
    <2>1. CASE BeginClose
        BY <2>1, BeginCloseLifecycle
    <2>2. CASE ~BeginClose
        <3>0. /\ cdp[c] = "open" /\ cdp' = [cdp EXCEPT ![c] = "lost"]
              /\ client' = IF mode = "ws" THEN Disconnected({c}) ELSE client
              /\ UNCHANGED <<mode, upstream, conn, activeCdps, proxyVars, late>>
            BY <1>7, <2>2 DEF UpstreamLost, Noticed
        <3>1. /\ client' \in [Clients -> {"absent", "connected", "closing", "gone"}]
              /\ \A d \in Clients : client'[d] = "absent" <=> client[d] = "absent"
              /\ \A d \in Clients : client'[d] = "gone" <=> client[d] = "gone"
            BY <1>0, <3>0, DisconnectedClients, {c} \in SUBSET Clients DEF LifecycleTypes
        <3>2. client[c] # "absent" /\ c \notin established
            BY <1>0, <3>0 DEF Tracking, Draining
        <3>3. LifecycleTypes'
            BY <1>0, <3>0, <3>1 DEF LifecycleTypes, proxyVars
        <3>4. Tracking'
            BY <1>0, <3>0, <3>1, <3>2 DEF LifecycleTypes, Tracking, ActiveTracked, proxyVars
        <3>5. Draining'
            BY <1>0, <3>0, <3>1, <3>2 DEF LifecycleTypes, Draining, proxyVars
        <3> QED BY <3>3, <3>4, <3>5 DEF LifecycleInv
    <2> QED BY <2>1, <2>2
<1> QED BY <1>1, <1>2, <1>3, <1>4, <1>5, <1>6, <1>7

\* Every step of the proxy keeps the invariant.
LEMMA NextLifecycle == LifecycleInv /\ [LifecycleNext]_lifecycleVars => LifecycleInv'
<1> SUFFICES ASSUME LifecycleInv, [LifecycleNext]_lifecycleVars PROVE LifecycleInv'
    OBVIOUS
<1>0. LifecycleTypes /\ Tracking /\ Draining
    BY DEF LifecycleInv
<1>1. CASE Start
    <2>1. LifecycleTypes'
        BY <1>0, <1>1 DEF Start, LifecycleTypes, ends
    <2>2. Tracking'
        BY <1>0, <1>1 DEF Start, LifecycleTypes, Tracking, ActiveTracked, ends
    <2>3. Draining'
        BY <1>0, <1>1 DEF Start, Draining, ends
    <2> QED BY <2>1, <2>2, <2>3 DEF LifecycleInv
<1>2. CASE Close
    BY <1>2, BeginCloseLifecycle DEF Close
<1>3. CASE Browserless
    <2>1. LifecycleTypes'
        BY <1>0, <1>3 DEF Browserless, LifecycleTypes, ends, proxyVars
    <2>2. Tracking'
        BY <1>0, <1>3 DEF Browserless, Tracking, ActiveTracked, ends, proxyVars
    <2>3. Draining'
        BY <1>0, <1>3 DEF Browserless, Draining, ends, proxyVars
    <2> QED BY <2>1, <2>2, <2>3 DEF LifecycleInv
<1>4. CASE MonitorFires
    BY <1>4, BeginCloseLifecycle DEF MonitorFires
<1>5. CASE Closes
    BY <1>5, ClosesLifecycle
<1>6. CASE \E c \in Clients : Accept(c) \/ Wire(c) \/ Refuse(c) \/ Leave(c) \/ Gone(c)
                                \/ CdpClosed(c) \/ UpstreamLost(c)
    BY <1>6, ConnectionLifecycle
<1>7. CASE UNCHANGED lifecycleVars
    <2>1. LifecycleTypes'
        BY <1>0, <1>7 DEF lifecycleVars, LifecycleTypes, ends, proxyVars
    <2>2. Tracking'
        BY <1>0, <1>7 DEF lifecycleVars, Tracking, ActiveTracked, ends, proxyVars
    <2>3. Draining'
        BY <1>0, <1>7 DEF lifecycleVars, Draining, ends, proxyVars
    <2> QED BY <2>1, <2>2, <2>3 DEF LifecycleInv
<1> QED BY <1>1, <1>2, <1>3, <1>4, <1>5, <1>6, <1>7 DEF LifecycleNext

\* The invariant holds throughout.
LEMMA LifecycleStays == LifecycleSpec => []LifecycleInv
    BY InitLifecycle, NextLifecycle, PTL DEF LifecycleSpec

\* Every part of the proxy is in a state the code has, and a connection awaits its
\* connect() exactly as long as its ModCDPClient is connecting.
THEOREM LifecycleTypeCorrect == LifecycleSpec => []LifecycleTypes
<1>1. LifecycleInv => LifecycleTypes
    BY DEF LifecycleInv
<1> QED BY <1>1, LifecycleStays, PTL

\* close() of startProxy reaches every ModCDPClient: activeCdps has all that are not
\* closed, as long as the proxy listens.
THEOREM AllTracked == LifecycleSpec => []ActiveTracked
<1>1. LifecycleInv => ActiveTracked
    BY DEF LifecycleInv, Tracking
<1> QED BY <1>1, LifecycleStays, PTL

\* When close() of startProxy has returned, no client is connected and no ModCDPClient
\* that was established when it began is open, whatever was accepted meanwhile.
THEOREM NothingLeft == LifecycleSpec => []ClosedLeavesNothing
<1>1. LifecycleInv => ClosedLeavesNothing
    BY DEF LifecycleInv, Draining, ClosedLeavesNothing
<1> QED BY <1>1, LifecycleStays, PTL

=============================================================================
