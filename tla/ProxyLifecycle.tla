--------------------------- MODULE ProxyLifecycle ---------------------------
(***************************************************************************)
(* startProxy (src/js/src/proxy/proxy.ts) in the modes in which each       *)
(* connection, or all of them together, use a ModCDPClient: ws             *)
(* (handleConnection), client_managed (handleClientManagedConnection) and  *)
(* managed_reverse (one client shared by all). How connections are         *)
(* accepted, wired, refused and ended, how the loss of the upstream closes *)
(* the proxy, and what close() waits for. What goes over a connection is   *)
(* WsBridge's, which shares no name with this module, so that one proof     *)
(* module extends both; the unmanaged reverse mode is ReverseProxy's.       *)
(***************************************************************************)
EXTENDS FiniteSets

CONSTANT Clients

Modes == {"ws", "client_managed", "managed_reverse"}

VARIABLES
    mode,
    proxy,      \* "starting", "listening", then the awaits of close(): "draining",
                \* "managed", "servers", and "closed"; or "failed" to start
    monitor,    \* the interval of monitorUpstream runs
    upstream,   \* "up" or "down": the browser
    client,     \* client -> "absent", "connected", "closing", "gone"
    conn,       \* client -> "none", "connecting", "wired", "refused"
    cdp,        \* client -> its ModCDPClient: "none", "connecting", "open", "lost",
                \* "closing" or "closed"
    activeCdps,
    managed,    \* managed_reverse_cdp: "none", "open" or "closed"
    established, \* clients whose cdp was established when close() began
    late        \* clients that connected after close() began

ends == <<client, conn, cdp, activeCdps>>
proxyVars == <<proxy, monitor, managed, established>>
lifecycleVars == <<mode, upstream, ends, proxyVars, late>>

LifecycleInit ==
    /\ mode \in Modes
    /\ proxy = "starting" /\ monitor = FALSE /\ upstream = "up" /\ managed = "none"
    /\ client = [c \in Clients |-> "absent"]
    /\ conn = [c \in Clients |-> "none"]
    /\ cdp = [c \in Clients |-> "none"]
    /\ activeCdps = {} /\ established = {} /\ late = {}

InUse(c) == cdp[c] \in {"open", "lost"}

-----------------------------------------------------------------------------
(* Starting and closing the proxy.                                         *)

\* The shared client is connected first, and closed again if that fails; then the
\* server listens, and in ws mode with an http upstream the monitor starts.
Start ==
    /\ proxy = "starting"
    /\ \/ /\ upstream = "up" \/ mode # "managed_reverse"
          /\ proxy' = "listening"
          /\ managed' = IF mode = "managed_reverse" THEN "open" ELSE "none"
          /\ monitor' \in {mode = "ws", FALSE}
       \/ /\ mode = "managed_reverse"
          /\ proxy' = "failed" /\ managed' = "closed" /\ UNCHANGED monitor
    /\ UNCHANGED <<mode, upstream, ends, established, late>>

\* ModCDPClient.close() of a client that is still connecting finds no transport to
\* close: it returns, and the connect goes on.
Closing(c) == IF InUse(c) THEN "closing" ELSE cdp[c]

BadDisconnected(C) == client

Disconnected(C) ==
    [c \in Clients |-> IF c \in C /\ client[c] = "connected" THEN "closing" ELSE client[c]]

\* close() up to its first await; its promise is shared by later callers.
BeginClose ==
    /\ proxy = "listening"
    /\ proxy' = "draining" /\ monitor' = FALSE
    /\ client' = Disconnected(Clients)
    /\ cdp' = [c \in Clients |-> IF c \in activeCdps THEN Closing(c) ELSE cdp[c]]
    /\ established' = {c \in activeCdps : cdp[c] # "connecting"}
    /\ UNCHANGED <<mode, upstream, conn, activeCdps, managed, late>>

\* A caller of close(), SIGINT or SIGTERM.
Close == BeginClose

Browserless ==
    /\ upstream = "up" /\ upstream' = "down"
    /\ UNCHANGED <<mode, ends, proxyVars, late>>

\* The check that fails, of those that may overlap, clears the interval.
MonitorFires == monitor /\ upstream = "down" /\ BeginClose

BadAllClosed == TRUE

\* Promise.all over the cdps that were active when close() began.
AllClosed == \A c \in established : cdp[c] # "closing"

CdpsDrained ==
    /\ proxy = "draining" /\ AllClosed
    /\ activeCdps' = {}
    /\ proxy' = IF managed = "open" THEN "managed" ELSE "servers"
    /\ UNCHANGED <<mode, upstream, client, conn, cdp, monitor, managed, established, late>>

ManagedClosed ==
    /\ proxy = "managed" /\ proxy' = "servers" /\ managed' = "closed"
    /\ UNCHANGED <<mode, upstream, ends, monitor, established, late>>

\* From "servers" on no connection is accepted, but wss.close() waits until the
\* clients that are there have gone.
ServersClosed ==
    /\ proxy = "servers" /\ \A c \in Clients : client[c] \in {"absent", "gone"}
    /\ proxy' = "closed"
    /\ UNCHANGED <<mode, upstream, ends, monitor, managed, established, late>>

-----------------------------------------------------------------------------
(* Connections.                                                            *)

\* wss.on("connection"). Nothing refuses a client while close() awaits the cdps.
Accept(c) ==
    /\ proxy \in {"listening", "draining", "managed"} /\ client[c] = "absent"
    /\ client' = [client EXCEPT ![c] = "connected"]
    /\ late' = IF proxy = "listening" THEN late ELSE late \cup {c}
    /\ IF mode = "managed_reverse"
       THEN conn' = [conn EXCEPT ![c] = "wired"] /\ UNCHANGED <<cdp, activeCdps>>
       ELSE /\ conn' = [conn EXCEPT ![c] = "connecting"]
            /\ cdp' = [cdp EXCEPT ![c] = "connecting"]
            /\ activeCdps' = activeCdps \cup {c}
    /\ UNCHANGED <<mode, upstream, proxyVars>>

\* cdp.connect() resolves and the connection is wired in the same step. A client
\* that has gone meanwhile is wired all the same: its close event is past.
Wire(c) ==
    /\ conn[c] = "connecting" /\ upstream = "up"
    /\ conn' = [conn EXCEPT ![c] = "wired"]
    /\ cdp' = [cdp EXCEPT ![c] = "open"]
    /\ UNCHANGED <<mode, upstream, client, activeCdps, proxyVars, late>>

\* client.close(1011, ...)
Refused(c) == Disconnected({c})

\* cdp.connect() rejects: the cdp is closed and forgotten.
Refuse(c) ==
    /\ conn[c] = "connecting"
    /\ conn' = [conn EXCEPT ![c] = "refused"]
    /\ cdp' = [cdp EXCEPT ![c] = "closed"]
    /\ activeCdps' = activeCdps \ {c}
    /\ client' = Refused(c)
    /\ UNCHANGED <<mode, upstream, proxyVars, late>>

Leave(c) ==
    /\ client[c] = "connected"
    /\ client' = [client EXCEPT ![c] = "closing"]
    /\ UNCHANGED <<mode, upstream, conn, cdp, activeCdps, proxyVars, late>>

BadClosesCdp(c) == FALSE

\* close_cdp_on_client_close, and the close listener of handleConnection.
ClosesCdp(c) == conn[c] = "wired" /\ mode # "managed_reverse"

\* The close event of the downstream socket.
Gone(c) ==
    /\ client[c] = "closing"
    /\ client' = [client EXCEPT ![c] = "gone"]
    /\ cdp' = IF ClosesCdp(c) THEN [cdp EXCEPT ![c] = Closing(c)] ELSE cdp
    /\ UNCHANGED <<mode, upstream, conn, activeCdps, proxyVars, late>>

Forgotten(c) == activeCdps \ {c}

CdpClosed(c) ==
    /\ cdp[c] = "closing"
    /\ cdp' = [cdp EXCEPT ![c] = "closed"]
    /\ activeCdps' = Forgotten(c)
    /\ UNCHANGED <<mode, upstream, client, conn, proxyVars, late>>

Noticed(c) == Disconnected({c})

\* The upstream socket of a connection closes. Only handleConnection listens: it
\* closes the client and, unless the client's own close came first, the proxy.
UpstreamLost(c) ==
    /\ cdp[c] = "open" /\ upstream = "down"
    /\ IF mode = "ws" /\ client[c] # "gone" /\ proxy = "listening"
       THEN BeginClose
       ELSE /\ cdp' = [cdp EXCEPT ![c] = "lost"]
            /\ client' = IF mode = "ws" THEN Noticed(c) ELSE client
            /\ UNCHANGED <<mode, upstream, conn, activeCdps, proxyVars, late>>

-----------------------------------------------------------------------------
Closes == CdpsDrained \/ ManagedClosed \/ ServersClosed

LifecycleNext ==
    \/ Start \/ Close \/ Browserless \/ MonitorFires \/ Closes
    \/ \E c \in Clients : Accept(c) \/ Wire(c) \/ Refuse(c) \/ Leave(c) \/ Gone(c)
                            \/ CdpClosed(c) \/ UpstreamLost(c)

LifecycleSpec == LifecycleInit /\ [][LifecycleNext]_lifecycleVars

\* connect() ends because each of its commands and waits has a timeout; sockets that
\* were told to close do; close() of a cdp returns; the monitor's interval fires.
Fairness ==
    /\ WF_lifecycleVars(MonitorFires) /\ WF_lifecycleVars(Closes)
    /\ \A c \in Clients : /\ WF_lifecycleVars(Wire(c) \/ Refuse(c)) /\ WF_lifecycleVars(Gone(c))
                          /\ WF_lifecycleVars(CdpClosed(c)) /\ WF_lifecycleVars(UpstreamLost(c))

FairSpec == LifecycleSpec /\ Fairness

-----------------------------------------------------------------------------
\* Every part of the proxy is in a state the code has; a connection awaits its
\* connect() exactly as long as its ModCDPClient is connecting.
LifecycleTypes ==
    /\ mode \in Modes /\ monitor \in BOOLEAN /\ upstream \in {"up", "down"}
    /\ proxy \in {"starting", "failed", "listening", "draining", "managed", "servers", "closed"}
    /\ client \in [Clients -> {"absent", "connected", "closing", "gone"}]
    /\ conn \in [Clients -> {"none", "connecting", "wired", "refused"}]
    /\ cdp \in [Clients -> {"none", "connecting", "open", "lost", "closing", "closed"}]
    /\ activeCdps \subseteq Clients
    /\ managed \in {"none", "open", "closed"}
    /\ established \subseteq Clients /\ late \subseteq Clients
    /\ \A c \in Clients : conn[c] = "connecting" <=> cdp[c] = "connecting"

\* While the proxy listens, activeCdps has every ModCDPClient that is not closed yet
\* and no other, so that close() reaches them all.
ActiveTracked ==
    proxy = "listening" =>
      activeCdps = {c \in Clients : cdp[c] \notin {"none", "closed"}}

\* When close() has returned no client is connected, and no ModCDPClient that was
\* established when it began is open. (One that was still connecting may be: its
\* close() did nothing, and its client's close event came too early to be heard.)
ClosedLeavesNothing ==
    proxy = "closed" =>
      /\ \A c \in Clients : client[c] \in {"absent", "gone"}
      /\ \A c \in established : cdp[c] = "closed"
      /\ managed # "open"

\* A client that is gone has its ModCDPClient closed, unless it left while the
\* connect was awaited; and one that shares the managed client does not close it.
\* A refused client is disconnected.
LeaversEnd ==
    \A c \in Clients :
      /\ (conn[c] = "wired" /\ client[c] = "closing" /\ mode # "managed_reverse")
           ~> cdp[c] = "closed"
      /\ conn[c] = "refused" ~> client[c] = "gone"

\* In ws mode nobody stays connected to a browser that is gone: its loss closes the
\* proxy when the monitor runs, and the clients that are wired to it in any case.
UpstreamLossCloses ==
    /\ (proxy = "listening" /\ monitor /\ upstream = "down") ~> proxy = "closed"
    /\ \A c \in Clients :
         (mode = "ws" /\ conn[c] = "wired" /\ client[c] = "connected" /\ upstream = "down")
           ~> client[c] = "gone"

\* A connection ends at both sides, whichever side ends it.
ConnectionsEnd == LeaversEnd /\ UpstreamLossCloses

LateClient == \E c \in late : client[c] = "connected"

\* close() ends, unless a client that it let in after it began stays for good.
CloseEnds == ([]<>~LateClient) => (proxy = "draining" ~> proxy = "closed")
=============================================================================
