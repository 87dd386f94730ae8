------------------------------ MODULE WsBridge ------------------------------
(***************************************************************************)
(* One connection of the ws proxy (src/js/src/proxy/proxy.ts,              *)
(* handleConnection and what it calls): a downstream client, the upstream  *)
(* websocket of the connection's own ModCDPClient, and a browser that       *)
(* answers in any order and attaches and detaches sessions on its own.     *)
(* The proxy renumbers commands, steers answers back, hides the service    *)
(* worker's target and sessions, detaches the sessions that the client's   *)
(* auto-attach opens on it, and fans custom events out. How connections    *)
(* end is ProxyLifecycle's.                                                *)
(***************************************************************************)
EXTENDS Integers, Sequences, FiniteSets

CONSTANTS
    MaxCommands,  \* bound: commands of the client, numbered by its own ids
    PageSessions, Orphans, \* sessions that the browser attaches to Page, to Worker
    ExtSession,   \* cdp.ext_session_id
    Page, Worker, \* targets; Worker is cdp.ext_target_id
    Root,         \* no sessionId
    OwnId,        \* id of a command of the ModCDPClient itself (Mod.ping), in flight
    FirstId,      \* 1_000_000 in the code, far above the ids of the ModCDPClient
    MaxChannel,   \* bound: messages in flight from the browser
    MaxUnseen,    \* bound: sessions attached while the proxy connects
    ForwardMirrored \* forward_mirrored_upstream_events

Sessions == PageSessions \cup Orphans

ASSUME BridgeAssumption ==
    /\ {OwnId, FirstId, MaxChannel, MaxUnseen, MaxCommands} \subseteq Nat /\ OwnId < FirstId
    /\ ExtSession \notin Sessions /\ PageSessions \cap Orphans = {} /\ Root \notin Sessions \cup {ExtSession}
    /\ Page # Worker /\ Root \notin {Page, Worker} /\ ForwardMirrored \in BOOLEAN

VARIABLES
    phase,      \* "connecting" (await cdp.connect()) or "bridged"
    sent,       \* [kind, session] of the client's commands, in the order sent
    inbox,      \* commands on their way to the proxy
    earlyBuffer,
    forwarded,  \* commands in the order they went upstream
    next_upstream_id, pending,
    requests,   \* what the browser has to answer
    channel,    \* messages on their way from the browser
    session,    \* session -> "free", "live" or "gone" in the browser
    hidden_session_ids, client_session_ids, target_session_ids,
    out,        \* what the last step sent to the client
    answered,   \* commands that have been answered
    unseen      \* sessions attached before the proxy listened

wire == <<inbox, earlyBuffer, sent, forwarded>>
tables == <<next_upstream_id, pending>>
hides == <<hidden_session_ids, client_session_ids, target_session_ids>>
vars == <<phase, wire, tables, requests, channel,
          session, hides, out, answered, unseen>>

AllSessions == Sessions \cup {ExtSession}
Targets == {Page, Worker}
NoRequest == 0
Commands == 1 .. MaxCommands
Kinds == {"modcdp_eval", "passthrough"}
TargetOf(s) == IF s \in PageSessions THEN Page ELSE Worker
Live(s) == session[s] = "live"
Unanswered(id) == [j \in DOMAIN pending \ {id} |-> pending[j]]
Put(table, k, v) == [j \in {k} \cup DOMAIN table |-> IF j = k THEN v ELSE table[j]]

Init ==
    /\ phase = "connecting"
    /\ sent = <<>> /\ inbox = <<>> /\ earlyBuffer = <<>> /\ forwarded = <<>>
    /\ next_upstream_id = FirstId /\ pending = <<>>
    /\ requests = {[id |-> OwnId, of |-> NoRequest, session |-> ExtSession, detach |-> Root]}
    /\ channel = <<>>
    /\ unseen \in SUBSET Sessions /\ Cardinality(unseen) <= MaxUnseen
    /\ session = [s \in AllSessions |-> IF s \in unseen \cup {ExtSession} THEN "live" ELSE "free"]
    /\ hidden_session_ids = {} /\ client_session_ids = {}
    /\ target_session_ids =
         [t \in {Worker} \cup {TargetOf(s) : s \in unseen} |->
            IF t = Worker THEN ExtSession ELSE CHOOSE s \in unseen : TargetOf(s) = t]
    /\ out = {} /\ answered = {}

-----------------------------------------------------------------------------
(* The client.                                                             *)

\* It may name any session it has been told of; those are the ones the proxy
\* has put in client_session_ids.
ClientSends(kind, s) ==
    /\ Len(sent) < MaxCommands
    /\ s \in client_session_ids \cup {Root}
    /\ sent' = Append(sent, [kind |-> kind, session |-> s])
    /\ inbox' = Append(inbox, Len(sent'))
    /\ out' = {}
    /\ UNCHANGED <<phase, earlyBuffer, forwarded, tables,
                   requests, channel, session, hides, answered, unseen>>

-----------------------------------------------------------------------------
(* The proxy, downstream side.                                             *)

\* earlyHandler, while cdp.connect() is awaited.
ReceiveEarly ==
    /\ phase = "connecting" /\ inbox # <<>>
    /\ earlyBuffer' = Append(earlyBuffer, Head(inbox))
    /\ inbox' = Tail(inbox) /\ out' = {}
    /\ UNCHANGED <<phase, sent, forwarded, tables, requests,
                   channel, session, hides, answered, unseen>>

BadSteered(c) == [kind |-> sent[c].kind, client_id |-> c, client_session_id |-> Root]

Steered(c) == [kind |-> sent[c].kind, client_id |-> c, client_session_id |-> sent[c].session]

\* A Mod.* or Custom.* command runs on the extension session, the others where
\* the client says. A socket that is no longer open drops what is sent to it.
Request(id, c) ==
    [id |-> id, of |-> c, detach |-> Root,
     session |-> IF sent[c].kind = "modcdp_eval" THEN ExtSession ELSE sent[c].session]

TakeIds(n) == next_upstream_id' = next_upstream_id + n

\* handleClientMessage for each of the commands cs, in order.
HandleClientMessages(cs) ==
    LET id(i) == next_upstream_id + i - 1
        ids == {id(i) : i \in DOMAIN cs}
        at(n) == cs[n - next_upstream_id + 1]
    IN  /\ TakeIds(Len(cs))
        /\ pending' = [n \in ids \cup DOMAIN pending |->
                        IF n \in ids THEN Steered(at(n)) ELSE pending[n]]
        /\ forwarded' = forwarded \o cs
        /\ requests' = requests \cup {Request(n, at(n)) : n \in ids}

BadDrained == <<>>

Drained == earlyBuffer

\* The rest of handleConnection, which does not await: the tables are built,
\* the listeners attached, the early handler removed and what it buffered is
\* handled.
Bridge ==
    /\ phase = "connecting"
    /\ phase' = "bridged"
    /\ hidden_session_ids' = {ExtSession}
    /\ HandleClientMessages(Drained)
    /\ earlyBuffer' = <<>> /\ out' = {}
    /\ UNCHANGED <<sent, inbox, channel, session,
                   client_session_ids, target_session_ids, answered, unseen>>

HandleClientMessage ==
    /\ phase = "bridged" /\ inbox # <<>>
    /\ HandleClientMessages(<<Head(inbox)>>)
    /\ inbox' = Tail(inbox) /\ out' = {}
    /\ UNCHANGED <<phase, sent, earlyBuffer, channel, session,
                   hides, answered, unseen>>

-----------------------------------------------------------------------------
(* The browser.                                                            *)

Room == phase = "bridged" /\ Len(channel) < MaxChannel
Emits(m) == channel' = Append(channel, m)
Event(method, s, child, target) ==
    [type |-> "event", method |-> method, session |-> s, child |-> child, target |-> target]

BrowserOnly == UNCHANGED <<phase, wire, tables, hides, answered, unseen>>

\* A command for a session that is gone fails; one that runs in the service
\* worker may throw, which is a successful response with exceptionDetails.
BrowserAnswers(r) ==
    /\ r \in requests /\ Room /\ r.detach = Root
    /\ \E outcome \in {"result", "error", "exception"} :
         /\ (r.session # Root /\ ~Live(r.session)) => outcome = "error"
         /\ outcome = "exception" =>
              r.of # NoRequest /\ sent[r.of].kind = "modcdp_eval"
         /\ Emits([type |-> "response", id |-> r.id, of |-> r.of, outcome |-> outcome])
    /\ requests' = requests \ {r} /\ out' = {}
    /\ UNCHANGED session /\ BrowserOnly

BrowserAttaches(s) ==
    /\ Room /\ session[s] = "free"
    /\ session' = [session EXCEPT ![s] = "live"]
    /\ Emits(Event("attachedToTarget", Root, s, TargetOf(s))) /\ out' = {}
    /\ UNCHANGED requests /\ BrowserOnly

\* The session ends, on its own or by request; the protocol leaves it to the browser
\* whether the event names the target too.
Detach(s) ==
    /\ session' = [session EXCEPT ![s] = "gone"]
    /\ \E target \in {TargetOf(s), Root} :
         Emits(Event("detachedFromTarget", Root, s, target))

BrowserDetaches(s) ==
    /\ Room /\ Live(s) /\ Detach(s) /\ out' = {}
    /\ UNCHANGED requests /\ BrowserOnly

\* Target.detachFromTarget of the proxy; its response is of no consequence.
BrowserObeys(r) ==
    /\ r \in requests /\ Room /\ r.detach # Root
    /\ requests' = requests \ {r} /\ out' = {}
    /\ IF Live(r.detach) THEN Detach(r.detach)
       ELSE /\ Emits([type |-> "response", id |-> r.id, of |-> r.of, outcome |-> "error"])
            /\ UNCHANGED session
    /\ BrowserOnly

\* Events of a session, of a target, or of a binding called in the worker.
BrowserEmits ==
    /\ Room /\ out' = {}
    /\ \/ \E s \in AllSessions : Live(s) /\ Emits(Event("sessionEvent", s, Root, Root))
       \/ \E t \in Targets : Emits(Event("targetInfoChanged", Root, Root, t))
       \/ \E b \in {"customEvent", "upstreamEvent"} :
            Live(ExtSession) /\ Emits(Event(b, ExtSession, Root, Root))
    /\ UNCHANGED <<requests, session>> /\ BrowserOnly

-----------------------------------------------------------------------------
(* The proxy, upstream side.                                               *)

Message == Head(channel)
Is(method) == channel # <<>> /\ Message.type = "event" /\ Message.method = method
Takes == channel' = Tail(channel)

\* Target.attachedToTarget and detachedFromTarget in target_session_ids.
Mapped(m) ==
    CASE m.method = "attachedToTarget" -> Put(target_session_ids, m.target, m.child)
      [] m.method = "detachedFromTarget" ->
           [t \in {u \in DOMAIN target_session_ids : target_session_ids[u] # m.child}
              |-> target_session_ids[t]]
      [] OTHER -> target_session_ids

\* An answer to the client. A response that carries an error is an error for a
\* passthrough command; for a Mod.* or Custom.* command the error is not read,
\* and an empty result goes back. One that carries an exception is an error.
Answer(p, m) ==
    [method |-> "answer", id |-> p.client_id, session |-> p.client_session_id, of |-> m.of,
     outcome |-> CASE m.outcome = "exception" -> "error"
                   [] p.kind = "modcdp_eval" /\ m.outcome = "error" -> "empty"
                   [] OTHER -> m.outcome]

HandleResponse ==
    /\ phase = "bridged" /\ channel # <<>> /\ Message.type = "response" /\ Takes
    /\ IF Message.id \notin DOMAIN pending
       THEN out' = {} /\ UNCHANGED <<pending, answered>>
       ELSE LET p == pending[Message.id] IN
            /\ pending' = Unanswered(Message.id)
            /\ IF p.kind = "internal" THEN out' = {} /\ UNCHANGED answered
               ELSE /\ out' = {Answer(p, Message)}
                    /\ answered' = answered \cup {p.client_id}
    /\ UNCHANGED <<phase, wire, next_upstream_id, requests,
                   session, hides, unseen>>

EventHandled ==
    UNCHANGED <<phase, wire, session, answered, unseen>>

\* A custom event goes to the root and to every session the client has attached.
FanoutTo == {Root} \cup client_session_ids

\* Runtime.bindingCalled of the extension session. Mirrored upstream events are
\* dropped unless the proxy was started to forward them.
HandleBinding ==
    /\ phase = "bridged" /\ (Is("customEvent") \/ Is("upstreamEvent")) /\ Takes
    /\ out' = IF Message.method = "upstreamEvent" /\ ~ForwardMirrored THEN {}
              ELSE {[method |-> Message.method, session |-> s] : s \in FanoutTo}
    /\ UNCHANGED <<tables, requests, hides>> /\ EventHandled

BadHides(target) == FALSE

Hides(target) == target = Worker

\* Target.attachedToTarget. A session on the worker is hidden and, unless it is
\* the extension session, detached again.
HandleAttached ==
    /\ phase = "bridged" /\ Is("attachedToTarget") /\ Takes
    /\ target_session_ids' = Mapped(Message)
    /\ LET s == Message.child IN
       IF Hides(Message.target)
       THEN /\ hidden_session_ids' = hidden_session_ids \cup {s}
            /\ pending' = Put(pending, next_upstream_id, [kind |-> "internal"])
            /\ TakeIds(1)
            /\ requests' = requests \cup
                 {[id |-> next_upstream_id, of |-> NoRequest, session |-> Root, detach |-> s]}
            /\ out' = {} /\ UNCHANGED client_session_ids
       ELSE /\ client_session_ids' = client_session_ids \cup {s}
            /\ out' = {Message}
            /\ UNCHANGED <<hidden_session_ids, tables, requests>>
    /\ EventHandled

BadForgetSession(s) == UNCHANGED client_session_ids

ForgetSession(s) == client_session_ids' = client_session_ids \ {s}

\* Target.detachedFromTarget. The session stops being hidden before the test
\* whether it is, so that only the target hides the event, if the event names one.
HandleDetached ==
    /\ phase = "bridged" /\ Is("detachedFromTarget") /\ Takes
    /\ target_session_ids' = Mapped(Message)
    /\ hidden_session_ids' = hidden_session_ids \ {Message.child}
    /\ IF Hides(Message.target) THEN out' = {} /\ UNCHANGED client_session_ids
       ELSE out' = {Message} /\ ForgetSession(Message.child)
    /\ UNCHANGED <<tables, requests>> /\ EventHandled

\* Any other event, of a session or of a target.
HandleEvent ==
    /\ phase = "bridged" /\ (Is("sessionEvent") \/ Is("targetInfoChanged")) /\ Takes
    /\ out' = IF Message.session \in hidden_session_ids \/ Hides(Message.target)
              THEN {} ELSE {Message}
    /\ UNCHANGED <<tables, requests, hides>> /\ EventHandled

-----------------------------------------------------------------------------
Browser ==
    \/ \E r \in requests : BrowserAnswers(r) \/ BrowserObeys(r)
    \/ \E s \in Sessions : BrowserAttaches(s) \/ BrowserDetaches(s)
    \/ BrowserDetaches(ExtSession) \/ BrowserEmits

FromUpstream ==
    HandleResponse \/ HandleBinding \/ HandleAttached \/ HandleDetached \/ HandleEvent

Next ==
    \/ \E k \in Kinds, s \in Sessions \cup {Root} : ClientSends(k, s)
    \/ ReceiveEarly \/ Bridge \/ HandleClientMessage
    \/ Browser \/ FromUpstream

Spec == Init /\ [][Next]_vars

-----------------------------------------------------------------------------
Requests == [id : Nat, of : Commands \cup {NoRequest},
             session : AllSessions \cup {Root}, detach : Sessions \cup {Root, ExtSession}]
Steering == [kind : Kinds, client_id : Commands, client_session_id : Sessions \cup {Root}]
              \cup [kind : {"internal"}]

\* Every table holds what the code puts in it: upstream ids below the next one,
\* hidden and announced sessions apart from each other.
TypeOK ==
    /\ phase \in {"connecting", "bridged"}
    /\ Len(sent) <= MaxCommands
    /\ next_upstream_id \in Nat /\ next_upstream_id >= FirstId
    /\ DOMAIN pending \subseteq FirstId .. next_upstream_id - 1
    /\ \A id \in DOMAIN pending : pending[id] \in Steering
    /\ requests \subseteq Requests
    /\ Len(channel) <= MaxChannel
    /\ hidden_session_ids \subseteq AllSessions
    /\ client_session_ids \subseteq Sessions
    /\ DOMAIN target_session_ids \subseteq Targets
    /\ unseen \subseteq Sessions

Answers == {m \in out : m.method = "answer"}
Customs == {m \in out : m.method \in {"customEvent", "upstreamEvent"}}
Waits(c) == \E id \in DOMAIN pending : pending[id].kind # "internal" /\ pending[id].client_id = c

\* The answer a client gets to a command is the browser's answer to that command,
\* on the session the command was for, however the browser reorders answers and
\* although the ModCDPClient numbers commands of its own on the same socket.
OwnAnswers ==
    \A a \in Answers : a.of = a.id /\ a.session = sent[a.id].session

\* What the service worker throws, and what the browser refuses of the commands
\* passed through, is an error for the client as well; only a refusal of a Mod.*
\* or Custom.* command is not.
ErrorsKept ==
    \A a \in Answers : a.outcome = "empty" => sent[a.id].kind = "modcdp_eval"

\* A command that went upstream is pending until its answer goes to the client, and
\* nothing that has not gone upstream or has been answered is answered.
AnsweredOnce ==
    /\ \A c \in Commands : (\E i \in DOMAIN forwarded : forwarded[i] = c)
         <=> (c \in answered) # Waits(c)
    /\ \A a \in Answers : a.id \in answered

\* Each command that reaches the browser gets one answer, its own, as it was.
AnswersSteered == OwnAnswers /\ ErrorsKept /\ AnsweredOnce

\* No command overtakes another or is lost between the two message handlers: those
\* buffered while the proxy connected go upstream before those that came later.
OrderKept ==
    forwarded \o earlyBuffer \o inbox = [i \in DOMAIN sent |-> i]

\* An event that tells of a session on the worker, or of the end of one, is seen by the
\* client only if it is the end and the event does not say of which target.
EndWithoutTarget(m) ==
    m.child \in Orphans \cup {ExtSession} =>
      m.method = "detachedFromTarget" /\ m.target = Root /\ session[m.child] = "gone"

\* The client sees no event of the worker target, nor of a session that attached to
\* it while the proxy listened, such as those its own auto-attach causes; it is told of
\* such a session itself only when it has ended and the event names no target.
WorkerUnseen ==
    \A m \in out \ (Answers \cup Customs) :
        /\ m.target # Worker
        /\ m.session \in AllSessions \ unseen => TargetOf(m.session) # Worker
        /\ EndWithoutTarget(m)

InFlight(method, s) ==
    \E i \in DOMAIN channel :
      channel[i].type = "event" /\ channel[i].method = method /\ channel[i].child = s

\* A session that the client's auto-attach opens on the worker is not kept: as soon
\* as the proxy has heard of it, the browser has been asked to detach it.
OrphansDetached ==
    \A s \in Orphans \ unseen :
      Live(s) /\ ~InFlight("attachedToTarget", s) => \E r \in requests : r.detach = s

\* The worker target is the proxy's own: the client neither keeps a session on it nor
\* sees anything of it, but the end of a session where the browser names no target.
WorkerHidden == WorkerUnseen /\ OrphansDetached

\* Custom events are copied to exactly the sessions that are attached, as far as the
\* browser's events have been read: to none that is gone, hidden, or was never
\* announced to this client.
KnownAreAttached ==
    phase = "bridged" =>
    client_session_ids =
      {s \in PageSessions \ unseen :
         /\ ~InFlight("attachedToTarget", s)
         /\ Live(s) \/ (session[s] = "gone" /\ InFlight("detachedFromTarget", s))}

\* A custom event reaches the root and each of those sessions.
EventsReachAll ==
    \A m \in Customs :
      \A s \in {Root} \cup client_session_ids : [method |-> m.method, session |-> s] \in out

\* Custom events reach every session the client has, and no other.
FanoutToAttached == KnownAreAttached /\ EventsReachAll
=============================================================================
