------------------------- MODULE LoopbackCDPProofs -------------------------
(***************************************************************************)
(* Proofs about LoopbackCDP, for any callers, endpoints, sockets, targets  *)
(* and sessions.                                                           *)
(*                                                                         *)
(* Most actions do one thing to the shared state and move some callers on. *)
(* So the lemmas of the first section say once what every move of a caller *)
(* keeps, and the invariants are then proved action by action.             *)
(***************************************************************************)
EXTENDS LoopbackCDP, TLAPS

Over == {"debugger", "resolved", "rejected"}

\* A caller whose own attach, if it makes one, is behind it.
Past(c) == c.at \in Over \/ c.session # NoSession

\* A caller that has no session yet.
Before(c) ==
    IF c.kind = "discover"
    THEN c.at = "fetch" \/ c.op \in {"getTargets", "attach"}
    ELSE c.op \in {"init", "autoAttach", "discover", "getTargets", "createTarget", "attach"}

\* What holds of every record of a caller: which commands its kind sends, and
\* what it knows at each place.
Good(c) ==
    /\ c \in Records
    /\ c.kind = "configure" => c.op \in {"init", "autoAttach", "discover"}
    /\ c.kind = "discover" =>
         c.target \in Targets /\ c.op \notin {"createTarget", "attachAuto", "method"}
    /\ c.op \in {"enable", "verify"} => c.kind = "discover"
    /\ c.op = "attach" => c.target \in Targets
    /\ c.at \in {"idle", "fetch"} => c.op = "init" /\ c.session = NoSession
    /\ c.at = "fetch" => c.kind = "discover"
    /\ c.at = "tabs" =>
         c.op \in {"init", "discover"} /\ c.kind \notin {"configure", "discover"}
    /\ c.at = "context" => c.op = "enable"
    /\ c.at \in Over => c.op = "init"
    /\ c.at = "answer" => c.op # "init"
    /\ Before(c) => c.session = NoSession

\* A move of a caller that has started to its next command or to its end.
Follows(c, d) ==
    /\ Good(d)
    /\ d.at \notin {"idle", "fetch", "have", "answer"}
    /\ d.kind # c.kind => d.kind = "configure"
    /\ d.kind = c.kind /\ Past(c) => Past(d)
    /\ d.kind = c.kind /\ c.op = "attach" => Past(d)

\* A caller that stays with its command.
Stays(c, d) ==
    /\ Good(d)
    /\ d.at = c.at \/ {c.at, d.at} \cap (Over \cup {"idle", "fetch", "answer"}) = {}
    /\ d.kind = c.kind /\ d.op = c.op /\ d.target = c.target /\ d.session = c.session

TypeInv == TypeOK /\ \A k \in Callers : Good(call[k])

\* Open sockets are registered, and dials under way are cached.
SocketInv ==
    /\ \A w \in Sockets : ready[w] = "open" =>
         endpoint[w] \in Endpoints /\ loopbackSockets[endpoint[w]] = w
    /\ \A w \in Sockets : ready[w] = "connecting" =>
         endpoint[w] \in Endpoints /\ loopbackPromises[endpoint[w]] = w
    /\ OneSocketPerEndpoint

\* A caller that has just got its socket has an open one.
PendingInv ==
    /\ PendingCanBeAnswered
    /\ \A k \in Callers : call[k].at = "have" => ready[call[k].ws] = "open"
    /\ \A k \in Callers : call[k].at \in {"have", "answer"} => call[k].ws \in Sockets

\* A request to attach is the latest that its caller has made, or the caller is
\* past it; once it has its session that is attached on the socket of the request.
RequestInv ==
    \A w \in Sockets : \A r \in requests[w] :
        LET c == call[r.caller]
        IN
        /\ r.op = "attach" => r.kind # "configure"
        /\ c.at \notin {"idle", "fetch"}
        /\ r.op = "attach" /\ c.kind = r.kind =>
             Past(c) \/ (c.at = "answer" /\ c.op = "attach" /\ c.target = r.target)
        /\ r.session # NoSession =>
             r.op = "attach" /\ serves[r.session] = r.target /\ attached[r.session] = w

\* The two tables agree with each other and with the browser.
MapInv ==
    \A t \in Targets :
        LET s == target_sessions[t]
        IN  s # NoSession =>
              serves[s] = t /\ attached[s] # NoSocket /\ session_targets[s] = t

Inv == TypeInv /\ SocketInv /\ PendingInv /\ RequestInv /\ MapInv

-----------------------------------------------------------------------------
(* Moves of a caller.                                                       *)

\* A fresh record is a good one.
LEMMA FreshGood ==
    ASSUME NEW kind \in AllKinds \ {"discover"}, NEW at \in Places \ {"fetch", "tabs", "context", "answer"}
    PROVE Good(Fresh(kind, at)) /\ Fresh(kind, at).kind = kind /\ Fresh(kind, at).at = at
BY ConstantsAssumption DEF Good, Fresh, Records, Before, Ops, Over

\* What Doing changes, and what it leaves.
LEMMA DoingFields ==
    ASSUME NEW c \in Records, NEW o \in Ops
    PROVE /\ Doing(c, o) \in Records
          /\ Doing(c, o).op = o /\ Doing(c, o).at = "socket"
          /\ Doing(c, o).kind = c.kind /\ Doing(c, o).target = c.target
          /\ Doing(c, o).session = c.session
BY DEF Doing, Records, Places

\* A change of the target.
LEMMA TargetChange ==
    ASSUME NEW c \in Records, NEW t \in Targets
    PROVE LET d == [c EXCEPT !.target = t]
          IN  /\ d \in Records
              /\ d.target = t /\ d.kind = c.kind /\ d.session = c.session
BY DEF Records

\* A change of the session.
LEMMA SessionChange ==
    ASSUME NEW c \in Records, NEW s \in Sessions
    PROVE LET d == [c EXCEPT !.session = s]
          IN  /\ d \in Records
              /\ d.session = s /\ d.kind = c.kind /\ d.target = c.target
BY DEF Records

\* A change of the place.
LEMMA PlaceChange ==
    ASSUME NEW c \in Records, NEW a \in Places
    PROVE LET d == [c EXCEPT !.at = a]
          IN  /\ d \in Records
              /\ d.at = a /\ d.kind = c.kind /\ d.op = c.op
              /\ d.target = c.target /\ d.session = c.session /\ d.ws = c.ws
BY DEF Records

\* A change of what is known of the context.
LEMMA ContextChange ==
    ASSUME NEW c \in Records, NEW x \in {"waiting", "known", "timedout"}
    PROVE LET d == [c EXCEPT !.context = x]
          IN  /\ d \in Records
              /\ d.at = c.at /\ d.kind = c.kind /\ d.op = c.op
              /\ d.target = c.target /\ d.session = c.session /\ d.ws = c.ws
BY DEF Records

\* A change of the socket that is to be initialized.
LEMMA InitChange ==
    ASSUME NEW c \in Records, NEW w \in Sockets
    PROVE LET d == [c EXCEPT !.init = w]
          IN  /\ d \in Records
              /\ d.at = c.at /\ d.kind = c.kind /\ d.op = c.op
              /\ d.target = c.target /\ d.session = c.session
BY DEF Records

\* A change of the socket.
LEMMA SocketChange ==
    ASSUME NEW c \in Records, NEW w \in Sockets
    PROVE LET d == [c EXCEPT !.ws = w]
          IN  /\ d \in Records
              /\ d.ws = w /\ d.kind = c.kind /\ d.op = c.op
              /\ d.target = c.target /\ d.session = c.session
BY DEF Records

\* A command for a known target goes on with its session or with an attach.
LEMMA WithTargetFollows ==
    ASSUME TypeOK, NEW c, Good(c), NEW t \in Targets, c.session = NoSession,
           c.kind \in {"auto", "loopback_cdp"}, c.at \notin Over, c.op # "attach"
    PROVE Follows(c, WithTarget(c, t)) /\ WithTarget(c, t).at = "socket"
<1> DEFINE u == [c EXCEPT !.target = t]
           v == [u EXCEPT !.session = target_sessions[t]]
<1> USE ConstantsAssumption
<1>1. c \in Records /\ "method" \in Ops /\ "attach" \in Ops
  BY DEF Good, Ops
<1>2. u \in Records /\ u.target = t /\ u.kind = c.kind /\ u.session = NoSession
  BY <1>1, TargetChange
<1>3. target_sessions[t] \in Sessions \cup {NoSession}
  BY DEF TypeOK
<1> HIDE DEF u, v
<1>4. CASE target_sessions[t] # NoSession
  <2>1. v \in Records /\ v.session # NoSession /\ v.target = t /\ v.kind = c.kind
    BY <1>2, <1>3, <1>4, SessionChange DEF v
  <2>2. WithTarget(c, t) = Doing(v, "method")
    BY <1>4 DEF WithTarget, u, v
  <2> QED BY <1>1, <2>1, <2>2, DoingFields DEF Follows, Good, Before, Past, Over
<1>5. CASE target_sessions[t] = NoSession
  <2>1. WithTarget(c, t) = Doing(u, "attach")
    BY <1>5 DEF WithTarget, u
  <2> QED BY <1>1, <1>2, <2>1, DoingFields DEF Follows, Good, Before, Past, Over
<1> QED BY <1>4, <1>5

\* A caller that does its next command, when that suits its kind.
LEMMA DoingFollows ==
    ASSUME NEW c, Good(c), NEW o \in Ops, c.at \notin Over, c.op = "attach" => Past(c),
           c.kind = "configure" => o \in {"init", "autoAttach", "discover"},
           c.kind = "discover" => o \notin {"createTarget", "attachAuto", "method"},
           o \in {"enable", "verify"} => c.kind = "discover",
           o = "attach" => c.target \in Targets,
           c.session = NoSession \/ o \in {"attachAuto", "method", "enable", "verify"}
             \/ (c.kind = "discover" /\ o \in {"init", "autoAttach", "discover"})
    PROVE Follows(c, Doing(c, o)) /\ Doing(c, o).at = "socket"
<1>1. c \in Records
  BY DEF Good
<1> QED BY <1>1, DoingFields DEF Follows, Good, Before, Past, Over

\* After initializeLoopbackCDP a caller goes on to its own command.
LEMMA InitializedFollows ==
    ASSUME TypeOK, NEW c, Good(c), c.at \notin Over, c.op \in {"init", "discover"}
    PROVE Follows(c, Initialized(c))
<1> USE ConstantsAssumption
<1>1. c \in Records /\ c.kind \in AllKinds
  BY DEF Good, Records
<1>2. "init" \in Ops /\ "method" \in Ops
  BY DEF Ops
<1>3. "configure" \in AllKinds \ {"discover"} /\ {"socket", "resolved"} \subseteq Places
  BY DEF AllKinds, Places
<1>4. CASE c.kind = "configure"
  <2>1. Initialized(c) = Fresh("configure", "resolved")
    BY <1>4 DEF Initialized, Ended
  <2> QED BY <1>3, <1>4, <2>1, FreshGood DEF Follows, Past, Over
<1>5. CASE c.kind = "discover"
  <2> DEFINE f == Fresh("configure", "socket")
  <2>1. Initialized(c) = Doing(f, "init")
    BY <1>5 DEF Initialized
  <2>2. Good(f) /\ f.kind = "configure" /\ f.at = "socket"
    BY <1>3, FreshGood
  <2>3. f.session = NoSession /\ f.op = "init"
    BY DEF Fresh
  <2> HIDE DEF f
  <2> QED BY <1>2, <1>5, <2>1, <2>2, <2>3, DoingFields DEF Follows, Good, Before, Past, Over
<1>6. ASSUME c.kind \notin {"configure", "discover"} PROVE c.session = NoSession
  BY <1>6 DEF Good, Before
<1>7. CASE c.kind \notin {"configure", "discover"} /\ c.target = NoTarget
  <2>1. Initialized(c) = Doing(c, "method")
    BY <1>7 DEF Initialized
  <2> QED BY <1>2, <1>7, <2>1, DoingFollows
<1>8. CASE c.kind \notin {"configure", "discover"} /\ c.target = Unresolved
  <2> DEFINE d == [c EXCEPT !.at = "tabs"]
  <2>1. Initialized(c) = d
    BY <1>8 DEF Initialized
  <2>2. "tabs" \in Places
    BY DEF Places
  <2>3. /\ d \in Records /\ d.at = "tabs" /\ d.kind = c.kind
        /\ d.op = c.op /\ d.target = c.target /\ d.session = c.session
    BY <1>1, <2>2, PlaceChange
  <2> HIDE DEF d
  <2> QED
    BY <1>1, <1>6, <1>8, <2>1, <2>2, <2>3 DEF Follows, Good, Before, Past, Over
<1>9. CASE c.kind \notin {"configure", "discover"} /\ c.target \notin {NoTarget, Unresolved}
  <2>1. c.target \in Targets /\ c.kind \in {"auto", "loopback_cdp"}
    BY <1>1, <1>9 DEF Records, AllKinds
  <2>2. Initialized(c) = WithTarget(c, c.target)
    BY <1>9 DEF Initialized
  <2> QED BY <1>6, <1>9, <2>1, <2>2, WithTargetFollows
<1> QED BY <1>4, <1>5, <1>7, <1>8, <1>9

\* A caller whose call has thrown goes on, falls back or ends.
LEMMA ThrownFollows ==
    ASSUME NEW c, Good(c), c.at \notin Over
    PROVE Follows(c, Thrown(c)) /\ Thrown(c).at \in {"socket", "debugger", "rejected"}
<1>1. c \in Records /\ c.kind \in AllKinds
  BY DEF Good, Records
<1>2. {"configure"} \cup (AllKinds \ {"discover"}) \subseteq AllKinds \ {"discover"}
  BY DEF AllKinds
<1>3. {"socket", "debugger", "rejected"} \subseteq Places \ {"fetch", "tabs", "context", "answer"}
  BY DEF Places
<1>4. CASE c.op = "attachAuto"
  <2>1. Thrown(c) = Doing(c, "method") /\ "method" \in Ops
    BY <1>4 DEF Thrown, Ops
  <2> QED BY <1>4, <2>1, DoingFollows DEF Good
<1>5. CASE c.op # "attachAuto" /\ c.kind = "auto"
  <2>1. Thrown(c) = Fresh("auto", "debugger")
    BY <1>5 DEF Thrown, Ended
  <2> QED BY <1>1, <1>2, <1>3, <1>5, <2>1, FreshGood DEF Follows, Past, Over
<1>6. CASE c.op # "attachAuto" /\ c.kind = "discover"
  <2> DEFINE f == Fresh("configure", "socket")
  <2>1. Thrown(c) = Doing(f, "init") /\ "init" \in Ops
    BY <1>6 DEF Thrown, Ops
  <2>2. Good(f) /\ f.kind = "configure" /\ f.at = "socket"
    BY <1>2, <1>3, FreshGood
  <2>3. f.session = NoSession
    BY DEF Fresh
  <2> HIDE DEF f
  <2> QED BY <1>6, <2>1, <2>2, <2>3, DoingFields DEF Follows, Good, Before, Past, Over
<1>7. CASE c.op # "attachAuto" /\ c.kind \notin {"auto", "discover"}
  <2>1. Thrown(c) = Fresh(c.kind, "rejected")
    BY <1>7 DEF Thrown, Ended
  <2> QED BY <1>1, <1>2, <1>3, <1>7, <2>1, FreshGood DEF Follows, Past, Over
<1> QED BY <1>4, <1>5, <1>6, <1>7

\* An answer moves its caller on.
LEMMA ContinuedFollows ==
    ASSUME TypeOK, NEW c, Good(c), c.at = "answer", NEW s \in Sessions \cup {NoSession},
           c.op = "attach" => s # NoSession, NEW d \in Continued(c, s)
    PROVE Follows(c, d)
<1> USE DEF Ops
<1>1. c \in Records /\ c.kind \in AllKinds /\ c.op \in Ops /\ c.at \notin Over
  BY DEF Good, Records, Over
<1>2. CASE c.op = "autoAttach"
  <2>1. d = Doing(c, "discover")
    BY <1>2 DEF Continued
  <2> QED BY <1>1, <1>2, <2>1, DoingFollows DEF Good, Before
<1>3. CASE c.op = "discover"
  BY <1>1, <1>3, InitializedFollows DEF Continued
<1>4. CASE c.op = "getTargets" /\ c.kind = "discover"
  <2>1. d = Doing(c, "attach")
    BY <1>4 DEF Continued
  <2> QED BY <1>1, <1>4, <2>1, DoingFollows DEF Good, Before
<1>5. CASE c.op \in {"getTargets", "createTarget"} /\ c.kind # "discover"
  <2>1. d = Doing(c, "createTarget") \/ \E t \in Targets : d = WithTarget(c, t)
    BY <1>5 DEF Continued
  <2>2. c.kind \in {"auto", "loopback_cdp"} /\ c.session = NoSession
    BY <1>1, <1>5 DEF Good, Before, AllKinds
  <2>3. CASE d = Doing(c, "createTarget")
    BY <1>1, <1>5, <2>2, <2>3, DoingFollows
  <2>4. CASE \E t \in Targets : d = WithTarget(c, t)
    BY <1>1, <1>5, <2>2, <2>4, WithTargetFollows
  <2> QED BY <2>1, <2>3, <2>4
<1>6. CASE c.op = "attach"
  <2> DEFINE u == [c EXCEPT !.session = s]
             x == IF s \in contexts THEN "known" ELSE "waiting"
             v == [u EXCEPT !.context = x]
  <2>1. s \in Sessions /\ c.kind # "configure" /\ c.target \in Targets
    BY <1>6 DEF Good
  <2>2. u \in Records /\ u.session = s /\ u.kind = c.kind /\ u.target = c.target
    BY <1>1, <2>1, SessionChange
  <2>3. v \in Records /\ v.session = s /\ v.kind = c.kind /\ v.target = c.target
    <3>1. x \in {"waiting", "known", "timedout"}
      OBVIOUS
    <3> HIDE DEF u, x
    <3> QED BY <2>2, <3>1, ContextChange
  <2>4. d = IF c.kind = "discover" THEN Doing(v, "enable") ELSE Doing(u, "attachAuto")
    BY <1>6 DEF Continued
  <2> HIDE DEF u, v
  <2>5. CASE c.kind = "discover"
    BY <1>6, <2>1, <2>3, <2>4, <2>5, DoingFields DEF Follows, Good, Before, Past, Over
  <2>6. CASE c.kind # "discover"
    BY <1>6, <2>1, <2>2, <2>4, <2>6, DoingFields DEF Follows, Good, Before, Past, Over
  <2> QED BY <2>5, <2>6
<1>7. CASE c.op = "attachAuto"
  <2>1. d = Doing(c, "method")
    BY <1>7 DEF Continued
  <2> QED BY <1>1, <1>7, <2>1, DoingFollows DEF Good
<1>8. CASE c.op = "method"
  <2>1. d = Fresh(c.kind, "resolved")
    BY <1>8 DEF Continued, Ended
  <2>2. c.kind \in AllKinds \ {"discover"} /\ "resolved" \in Places \ {"fetch", "tabs", "context", "answer"}
    BY <1>1, <1>8 DEF Good, Places
  <2> QED BY <1>8, <2>1, <2>2, FreshGood DEF Follows, Past, Over
<1>9. CASE c.op = "enable"
  <2> DEFINE u == [c EXCEPT !.at = "context"]
  <2>1. d = Doing(c, "verify") \/ d = u
    BY <1>9 DEF Continued
  <2>2. CASE d = Doing(c, "verify")
    BY <1>1, <1>9, <2>2, DoingFollows DEF Good
  <2>3. CASE d = u
    <3>1. "context" \in Places
      BY DEF Places
    <3>2. /\ u \in Records /\ u.at = "context" /\ u.kind = c.kind
          /\ u.op = c.op /\ u.target = c.target /\ u.session = c.session
      BY <1>1, <3>1, PlaceChange
    <3> HIDE DEF u
    <3> QED BY <1>1, <1>9, <2>3, <3>2 DEF Follows, Good, Before, Past, Over
  <2> QED BY <2>1, <2>2, <2>3
<1>10. CASE c.op = "verify"
  <2>1. d = Doing(c, "init")
    BY <1>10 DEF Continued
  <2> QED BY <1>1, <1>10, <2>1, DoingFollows DEF Good
<1>11. c.op # "init"
  BY DEF Good
<1>12. ~(c.op = "createTarget" /\ c.kind = "discover")
  BY DEF Good
<1> QED
  BY <1>1, <1>2, <1>3, <1>4, <1>5, <1>6, <1>7, <1>8, <1>9, <1>10, <1>11, <1>12

-----------------------------------------------------------------------------
(* What steps keep that only move callers on.                               *)

SocketsStay ==
    \A w \in Sockets : /\ ready[w] = "open" => ready'[w] = "open"
                       /\ ready[w] = "closing" => ready'[w] = "closing"

\* OneSocketPerEndpoint without the set it defines.
LEMMA OneSocketUnfolded ==
    OneSocketPerEndpoint <=>
      \A u, v \in Sockets :
         ready[u] \in {"connecting", "open"} /\ ready[v] \in {"connecting", "open"}
           /\ endpoint[u] = endpoint[v] => u = v
BY DEF OneSocketPerEndpoint

\* Sockets that nothing happens to keep their invariant.
LEMMA SocketFrame ==
    SocketInv /\ UNCHANGED <<ready, endpoint, loopbackSockets, loopbackPromises>> => SocketInv'
BY DEF SocketInv, OneSocketPerEndpoint

\* So does the session table.
LEMMA MapFrame ==
    MapInv /\ UNCHANGED <<target_sessions, session_targets, attached, serves>> => MapInv'
BY DEF MapInv

\* Requests that remain keep their invariant whatever moves their callers make.
LEMMA RequestFrame ==
    ASSUME RequestInv, TypeInv, requests' \in [Sockets -> SUBSET Requests],
           \A w \in Sockets : requests'[w] \subseteq requests[w],
           \A w \in Sockets : \A r \in requests'[w] : r.session # NoSession =>
             serves'[r.session] = serves[r.session] /\ attached'[r.session] = attached[r.session],
           \A k \in Callers : \/ call'[k] = call[k]
                             \/ call[k].at \in {"idle", "fetch"}
                             \/ Follows(call[k], call'[k])
                             \/ Stays(call[k], call'[k])
    PROVE RequestInv'
<1> SUFFICES ASSUME NEW w \in Sockets, NEW r \in requests'[w]
             PROVE /\ r.op = "attach" => r.kind # "configure"
                   /\ call'[r.caller].at \notin {"idle", "fetch"}
                   /\ r.op = "attach" /\ call'[r.caller].kind = r.kind =>
                        \/ Past(call'[r.caller])
                        \/ /\ call'[r.caller].at = "answer" /\ call'[r.caller].op = "attach"
                           /\ call'[r.caller].target = r.target
                   /\ r.session # NoSession =>
                        /\ r.op = "attach" /\ serves'[r.session] = r.target
                        /\ attached'[r.session] = w
  BY DEF RequestInv, Past
<1>1. r \in requests[w] /\ r.caller \in Callers
  BY DEF Requests
<1> DEFINE c == call[r.caller]
           d == call'[r.caller]
<1>2. /\ r.op = "attach" => r.kind # "configure"
      /\ c.at \notin {"idle", "fetch"}
      /\ r.op = "attach" /\ c.kind = r.kind =>
           Past(c) \/ (c.at = "answer" /\ c.op = "attach" /\ c.target = r.target)
      /\ r.session # NoSession =>
           r.op = "attach" /\ serves[r.session] = r.target /\ attached[r.session] = w
  BY <1>1 DEF RequestInv
<1>3. d = c \/ Follows(c, d) \/ Stays(c, d)
  BY <1>1, <1>2
<1> HIDE DEF c, d
<1>4. d.at \notin {"idle", "fetch"}
  BY <1>2, <1>3 DEF Follows, Stays
<1>5. r.op = "attach" /\ d.kind = r.kind =>
        Past(d) \/ (d.at = "answer" /\ d.op = "attach" /\ d.target = r.target)
  BY <1>2, <1>3 DEF Follows, Stays, Past
<1> QED BY <1>2, <1>4, <1>5 DEF c, d

\* The pending table, when the callers K leave it.
LEMMA PendingFrame ==
    ASSUME PendingInv, TypeInv, SocketsStay, UNCHANGED requests, NEW K,
           loopbackPending' = loopbackPending \ K,
           \A k \in Callers : k \in K => call'[k].at \notin {"have", "answer"},
           \A k \in Callers : k \notin K =>
             \/ call[k].at # "answer" /\ call'[k].at \notin {"have", "answer"}
             \/ /\ call'[k].at = call[k].at /\ call'[k].ws = call[k].ws
                /\ call'[k].op = call[k].op /\ call'[k].kind = call[k].kind
    PROVE PendingInv'
<1>1. \A k \in Callers : k \in loopbackPending' <=> call'[k].at = "answer"
  BY DEF PendingInv, PendingCanBeAnswered
<1>2. ASSUME NEW k \in Callers, call'[k].at \in {"have", "answer"}
      PROVE /\ k \notin K /\ call'[k].at = call[k].at /\ call'[k].ws = call[k].ws
            /\ call'[k].op = call[k].op /\ call'[k].kind = call[k].kind
            /\ call[k].ws \in Sockets
  BY <1>2 DEF PendingInv
<1>3. ASSUME NEW k \in Callers, k \in loopbackPending'
      PROVE /\ ready'[call'[k].ws] \in {"open", "closing"}
            /\ \E r \in requests'[call'[k].ws] : r.caller = k /\ Awaited(r)'
  <2>1. k \in loopbackPending /\ call'[k].at = "answer"
    BY <1>1, <1>3
  <2>2. PICK r \in requests[call[k].ws] : r.caller = k /\ Awaited(r)
    BY <2>1 DEF PendingInv, PendingCanBeAnswered
  <2>3. Awaited(r)'
    BY <1>2, <1>3, <2>1, <2>2 DEF Awaited
  <2>4. ready'[call'[k].ws] \in {"open", "closing"}
    BY <1>2, <2>1 DEF PendingInv, PendingCanBeAnswered, SocketsStay
  <2> QED BY <1>2, <2>1, <2>2, <2>3, <2>4
<1>4. \A k \in Callers : call'[k].at = "have" => ready'[call'[k].ws] = "open"
  BY <1>2 DEF PendingInv, SocketsStay
<1>5. \A k \in Callers : call'[k].at \in {"have", "answer"} => call'[k].ws \in Sockets
  BY <1>2
<1> QED BY <1>1, <1>3, <1>4, <1>5 DEF PendingInv, PendingCanBeAnswered

\* One caller moves on, and has no entry in the pending table.
LEMMA OneMove ==
    ASSUME TypeInv, PendingInv, RequestInv, NEW k \in Callers, NEW d, Good(d),
           call' = [call EXCEPT ![k] = d], call[k].at # "answer",
           d.at \notin {"have", "answer"},
           call[k].at \in {"idle", "fetch"} \/ Follows(call[k], d) \/ Stays(call[k], d),
           SocketsStay, UNCHANGED <<requests, loopbackPending, serves, attached>>
    PROVE /\ call' \in [Callers -> Records]
          /\ \A j \in Callers : Good(call'[j])
          /\ PendingInv' /\ RequestInv'
<1>1. call \in [Callers -> Records] /\ \A j \in Callers : Good(call[j])
  BY DEF TypeInv, TypeOK
<1>2. call'[k] = d /\ \A j \in Callers \ {k} : call'[j] = call[j]
  BY <1>1
<1>3. call' \in [Callers -> Records]
  BY <1>1 DEF Good
<1>4. PendingInv'
  <2> DEFINE none == {}
  <2>1. loopbackPending' = loopbackPending \ none
    OBVIOUS
  <2>2. \A j \in Callers : j \notin none =>
          \/ call[j].at # "answer" /\ call'[j].at \notin {"have", "answer"}
          \/ /\ call'[j].at = call[j].at /\ call'[j].ws = call[j].ws
             /\ call'[j].op = call[j].op /\ call'[j].kind = call[j].kind
    BY <1>2
  <2>3. \A j \in Callers : j \in none => call'[j].at \notin {"have", "answer"}
    OBVIOUS
  <2>4. UNCHANGED requests
    OBVIOUS
  <2> HIDE DEF none
  <2> QED BY <2>1, <2>2, <2>3, <2>4, PendingFrame
<1>5. RequestInv'
  <2>1. requests' \in [Sockets -> SUBSET Requests]
    BY DEF TypeInv, TypeOK
  <2> QED BY <1>2, <2>1, RequestFrame
<1> QED BY <1>1, <1>2, <1>3, <1>4, <1>5

\* The callers K throw.
LEMMA ThrowMoves ==
    ASSUME TypeInv, NEW K, \A k \in Callers : k \in K => call[k].at \notin Over, Throw(K)
    PROVE /\ call' \in [Callers -> Records]
          /\ \A k \in Callers : Good(call'[k])
          /\ \A k \in Callers : k \notin K => call'[k] = call[k]
          /\ \A k \in Callers : k \in K =>
               Follows(call[k], call'[k]) /\ call'[k].at \in {"socket", "debugger", "rejected"}
<1>1. call \in [Callers -> Records] /\ \A k \in Callers : Good(call[k])
  BY DEF TypeInv, TypeOK
<1>2. call' = [k \in Callers |-> IF k \in K THEN Thrown(call[k]) ELSE call[k]]
  BY DEF Throw
<1>3. \A k \in Callers : k \notin K => call'[k] = call[k]
  BY <1>2
<1>4. \A k \in Callers : k \in K =>
        Follows(call[k], call'[k]) /\ call'[k].at \in {"socket", "debugger", "rejected"}
  BY <1>1, <1>2, ThrownFollows
<1>5. \A k \in Callers : Good(call'[k])
  BY <1>1, <1>3, <1>4 DEF Follows
<1>6. call' \in [Callers -> Records]
  BY <1>2, <1>5 DEF Good
<1> QED BY <1>3, <1>4, <1>5, <1>6

\* A caller that throws restores an endpoint or leaves it.
LEMMA ForgottenType ==
    ASSUME TypeOK, NEW K, K \subseteq Callers
    PROVE Forgotten(K) \subseteq Endpoints \cup {NoEndpoint}
<1>1. \A k \in Callers : call[k].previous \in Endpoints \cup {NoEndpoint}
  BY DEF TypeOK, Records
<1> QED BY <1>1 DEF Forgotten, TypeOK

\* The callers K throw, and leave the pending table if they are in it.
LEMMA ThrowStep ==
    ASSUME TypeInv, PendingInv, RequestInv, NEW K, K \subseteq Callers,
           \A k \in K : call[k].at \notin Over, Throw(K),
           SocketsStay, loopbackPending' = loopbackPending \ K,
           UNCHANGED <<requests, serves, attached>>
    PROVE /\ call' \in [Callers -> Records]
          /\ loopback_cdp_url' \in Endpoints \cup {NoEndpoint}
          /\ \A k \in Callers : Good(call'[k])
          /\ PendingInv' /\ RequestInv'
<1>1. /\ call' \in [Callers -> Records]
      /\ \A k \in Callers : Good(call'[k])
      /\ \A k \in Callers : k \notin K => call'[k] = call[k]
      /\ \A k \in Callers : k \in K =>
           Follows(call[k], call'[k]) /\ call'[k].at \in {"socket", "debugger", "rejected"}
  BY ThrowMoves
<1>2. loopback_cdp_url' \in Endpoints \cup {NoEndpoint}
  BY ForgottenType DEF Throw, TypeInv
<1>3. PendingInv'
  BY <1>1, PendingFrame
<1>4. RequestInv'
  <2>1. requests' \in [Sockets -> SUBSET Requests]
    BY DEF TypeInv, TypeOK
  <2> QED BY <1>1, <2>1, RequestFrame
<1> QED BY <1>1, <1>2, <1>3, <1>4

\* One caller moves on, and nothing else happens but to the endpoint.
LEMMA QuietMove ==
    ASSUME Inv, NEW k \in Callers, NEW d, Good(d),
           call' = [call EXCEPT ![k] = d], call[k].at # "answer",
           d.at \notin {"have", "answer"},
           call[k].at \in {"idle", "fetch"} \/ Follows(call[k], d) \/ Stays(call[k], d),
           loopback_cdp_url' \in Endpoints \cup {NoEndpoint},
           UNCHANGED <<socketVars, tableVars, loopbackPending, browserVars>>
    PROVE Inv'
<1>1. TypeInv /\ SocketInv /\ PendingInv /\ RequestInv /\ MapInv
  BY DEF Inv
<1>2. SocketsStay /\ UNCHANGED <<requests, loopbackPending, serves, attached>>
  BY DEF SocketsStay, socketVars, browserVars
<1>3. /\ call' \in [Callers -> Records] /\ (\A j \in Callers : Good(call'[j]))
      /\ PendingInv' /\ RequestInv'
  BY <1>1, <1>2, OneMove
<1>4. TypeOK'
  BY <1>1, <1>3 DEF TypeInv, TypeOK, socketVars, tableVars, browserVars
<1> QED
  BY <1>1, <1>3, <1>4, SocketFrame, MapFrame
  DEF Inv, TypeInv, socketVars, tableVars, browserVars

\* The callers K throw, and nothing else happens.
LEMMA QuietThrow ==
    ASSUME Inv, NEW K, K \subseteq Callers, \A k \in K : call[k].at \notin Over, Throw(K),
           loopbackPending' = loopbackPending \ K,
           UNCHANGED <<socketVars, tableVars, browserVars>>
    PROVE Inv'
<1>1. TypeInv /\ SocketInv /\ PendingInv /\ RequestInv /\ MapInv
  BY DEF Inv
<1>2. SocketsStay /\ UNCHANGED <<requests, serves, attached>>
  BY DEF SocketsStay, socketVars, browserVars
<1>3. /\ call' \in [Callers -> Records] /\ (\A j \in Callers : Good(call'[j]))
      /\ loopback_cdp_url' \in Endpoints \cup {NoEndpoint}
      /\ PendingInv' /\ RequestInv'
  BY <1>1, <1>2, ThrowStep
<1>4. TypeOK'
  BY <1>1, <1>3 DEF TypeInv, TypeOK, socketVars, tableVars, browserVars
<1> QED
  BY <1>1, <1>3, <1>4, SocketFrame, MapFrame
  DEF Inv, TypeInv, socketVars, tableVars, browserVars

-----------------------------------------------------------------------------
(* The steps of callers.                                                    *)

\* The first state.
LEMMA InitInv == Init => Inv
<1> SUFFICES ASSUME Init PROVE Inv
  OBVIOUS
<1> DEFINE f == Fresh("auto", "idle")
<1>1. \A k \in Callers : call[k] = f
  BY DEF Init
<1>2. Good(f) /\ f.at = "idle"
  <2>1. /\ "auto" \in AllKinds \ {"discover"}
        /\ "idle" \in Places \ {"fetch", "tabs", "context", "answer"}
    BY DEF AllKinds, Places
  <2> QED BY <2>1, FreshGood
<1> HIDE DEF f
<1>3. TypeInv
  <2>1. call \in [Callers -> Records]
    BY <1>1, <1>2 DEF Init, Good
  <2>2. TypeOK
    BY <2>1 DEF Init, TypeOK
  <2> QED BY <1>1, <1>2, <2>2 DEF TypeInv
<1>4. SocketInv
  BY DEF Init, SocketInv, OneSocketPerEndpoint
<1>5. PendingInv
  BY <1>1, <1>2 DEF Init, PendingInv, PendingCanBeAnswered
<1>6. RequestInv
  BY DEF Init, RequestInv
<1>7. MapInv
  BY DEF Init, MapInv
<1> QED BY <1>3, <1>4, <1>5, <1>6, <1>7 DEF Inv

\* A command starts.
LEMMA StartCommandInv == ASSUME Inv, NEW k \in Callers, NEW t \in Forms, StartCommand(k, t)
                         PROVE Inv'
<1>1. PICK r \in Kinds \cap {"auto", "loopback_cdp"} :
        LET c == [call[k] EXCEPT !.kind = r, !.target = t]
        IN  call' = [call EXCEPT ![k] = IF loopback_cdp_url = NoEndpoint
                                        THEN Thrown(c) ELSE Doing(c, "init")]
  BY DEF StartCommand
<1> DEFINE c == [call[k] EXCEPT !.kind = r, !.target = t]
           d == IF loopback_cdp_url = NoEndpoint THEN Thrown(c) ELSE Doing(c, "init")
<1>2. call' = [call EXCEPT ![k] = d] /\ call[k].at = "idle"
  BY <1>1 DEF StartCommand
<1>3. call[k] \in Records /\ call[k].op = "init" /\ call[k].session = NoSession
  BY <1>2 DEF Inv, TypeInv, Good
<1>4. t \in Targets \cup {NoTarget, Unresolved} /\ r \in AllKinds
  BY ConstantsAssumption
<1>5. c \in Records /\ c.kind = r /\ c.at = "idle" /\ c.op = "init" /\ c.session = NoSession
  BY <1>2, <1>3, <1>4 DEF Records
<1> HIDE DEF c
<1>6. Good(c)
  BY <1>5 DEF Good, Over
<1>7. Good(d) /\ d.at \notin {"have", "answer"}
  BY <1>5, <1>6, ThrownFollows, DoingFollows DEF Follows, Over, Ops
<1> HIDE DEF d
<1>8. /\ UNCHANGED <<socketVars, tableVars, loopbackPending, browserVars>>
      /\ loopback_cdp_url' \in Endpoints \cup {NoEndpoint}
  BY DEF StartCommand, Inv, TypeInv, TypeOK
<1> QED BY <1>2, <1>7, <1>8, QuietMove

\* A configure() starts.
LEMMA StartConfigureInv == ASSUME Inv, NEW k \in Callers, NEW e \in Endpoints,
                                  StartConfigure(k, e)
                           PROVE Inv'
<1> DEFINE c == [call[k] EXCEPT !.kind = "configure"]
           d == Doing(c, "init")
<1>1. call' = [call EXCEPT ![k] = d] /\ call[k].at = "idle"
  BY DEF StartConfigure, Inv, TypeInv, TypeOK
<1>2. call[k] \in Records /\ call[k].op = "init" /\ call[k].session = NoSession
  BY <1>1 DEF Inv, TypeInv, Good
<1>3. c \in Records /\ c.kind = "configure" /\ c.session = NoSession
  BY <1>1, <1>2 DEF Records, AllKinds
<1> HIDE DEF c
<1>4. Good(d) /\ d.at \notin {"have", "answer"}
  BY <1>3, DoingFields DEF Good, Before, Over, Ops
<1> HIDE DEF d
<1>5. /\ UNCHANGED <<socketVars, tableVars, loopbackPending, browserVars>>
      /\ loopback_cdp_url' \in Endpoints \cup {NoEndpoint}
  BY DEF StartConfigure
<1> QED BY <1>1, <1>4, <1>5, QuietMove

\* A discovery starts.
LEMMA StartDiscoverInv == ASSUME Inv, NEW k \in Callers, StartDiscover(k) PROVE Inv'
<1> DEFINE d == [call[k] EXCEPT !.kind = "discover", !.at = "fetch", !.target = Worker,
                                !.previous = loopback_cdp_url']
<1>1. call' = [call EXCEPT ![k] = d] /\ call[k].at = "idle"
  BY DEF StartDiscover, Inv, TypeInv, TypeOK
<1>2. call[k] \in Records /\ call[k].op = "init" /\ call[k].session = NoSession
  BY <1>1 DEF Inv, TypeInv, Good
<1>3. /\ UNCHANGED <<socketVars, tableVars, loopbackPending, browserVars>>
      /\ loopback_cdp_url' \in Endpoints \cup {NoEndpoint}
  BY DEF StartDiscover, Inv, TypeInv, TypeOK
<1>4. d \in Records /\ d.kind = "discover" /\ d.at = "fetch" /\ d.op = "init"
        /\ d.session = NoSession /\ d.target = Worker
  <2>1. Worker \in Targets /\ "discover" \in AllKinds /\ "fetch" \in Places
    BY ConstantsAssumption DEF AllKinds, Places
  <2> QED BY <1>2, <1>3, <2>1 DEF Records
<1> HIDE DEF d
<1>5. Good(d)
  BY <1>4, ConstantsAssumption DEF Good, Over
<1> QED BY <1>1, <1>3, <1>4, <1>5, QuietMove

\* /json/version names an endpoint.
LEMMA FetchedInv == ASSUME Inv, NEW k \in Callers, Fetched(k) PROVE Inv'
<1> DEFINE d == Doing(call[k], "getTargets")
<1>1. call' = [call EXCEPT ![k] = d] /\ call[k].at = "fetch"
  BY DEF Fetched, Inv, TypeInv, TypeOK
<1>2. /\ Good(call[k]) /\ call[k].op = "init" /\ call[k].session = NoSession
      /\ call[k].kind = "discover" /\ call[k].at \notin Over
  BY <1>1 DEF Inv, TypeInv, Good, Over
<1>3. Good(d) /\ d.at \notin {"have", "answer"}
  BY <1>2, DoingFollows DEF Follows, Ops
<1> HIDE DEF d
<1>4. /\ UNCHANGED <<socketVars, tableVars, loopbackPending, browserVars>>
      /\ loopback_cdp_url' \in Endpoints \cup {NoEndpoint}
  BY ConstantsAssumption DEF Fetched
<1> QED BY <1>1, <1>3, <1>4, QuietMove

\* /json/version cannot be had.
LEMMA FetchFailedInv == ASSUME Inv, NEW k \in Callers, FetchFailed(k) PROVE Inv'
<1>1. call[k].at = "fetch" /\ k \notin loopbackPending
  BY DEF FetchFailed, Inv, PendingInv, PendingCanBeAnswered
<1> DEFINE K == {k}
<1>2. /\ K \subseteq Callers /\ \A j \in K : call[j].at \notin Over
      /\ loopbackPending' = loopbackPending \ K
  BY <1>1 DEF FetchFailed, Over
<1>3. Throw(K) /\ UNCHANGED <<socketVars, tableVars, browserVars>>
  BY DEF FetchFailed
<1> HIDE DEF K
<1> QED BY <1>2, <1>3, QuietThrow

\* A pending command times out.
LEMMA TimeoutInv == ASSUME Inv, NEW k \in Callers, Timeout(k) PROVE Inv'
<1>1. call[k].at = "answer"
  BY DEF Timeout, Inv, PendingInv, PendingCanBeAnswered
<1> DEFINE K == {k}
<1>2. /\ K \subseteq Callers /\ \A j \in K : call[j].at \notin Over
      /\ loopbackPending' = loopbackPending \ K
  BY <1>1 DEF Timeout, Over
<1>3. Throw(K) /\ UNCHANGED <<socketVars, tableVars, browserVars>>
  BY DEF Timeout
<1> HIDE DEF K
<1> QED BY <1>2, <1>3, QuietThrow

\* chrome.tabs and chrome.debugger have answered.
LEMMA TabsAnswerInv == ASSUME Inv, NEW k \in Callers, TabsAnswer(k) PROVE Inv'
<1>1. /\ Good(call[k]) /\ call[k].at = "tabs" /\ call[k].at \notin Over
      /\ call[k].session = NoSession /\ call[k].op # "attach"
      /\ call[k].kind \in {"auto", "loopback_cdp"}
  BY DEF TabsAnswer, Inv, TypeInv, Good, Before, Records, AllKinds, Over
<1>2. /\ UNCHANGED <<socketVars, tableVars, loopbackPending, browserVars>>
      /\ loopback_cdp_url' \in Endpoints \cup {NoEndpoint}
  BY DEF TabsAnswer, Inv, TypeInv, TypeOK
<1>3. ASSUME NEW t \in Targets, call' = [call EXCEPT ![k] = WithTarget(@, t)] PROVE Inv'
  <2> DEFINE d == WithTarget(call[k], t)
  <2>1. Follows(call[k], d) /\ d.at = "socket"
    BY <1>1, WithTargetFollows DEF Inv, TypeInv
  <2>2. call' = [call EXCEPT ![k] = d]
    BY <1>3
  <2> HIDE DEF d
  <2> QED BY <1>1, <1>2, <2>1, <2>2, QuietMove DEF Follows
<1>4. CASE call' = [call EXCEPT ![k] = Doing(@, "getTargets")]
  <2> DEFINE d == Doing(call[k], "getTargets")
  <2>1. Follows(call[k], d) /\ d.at = "socket"
    BY <1>1, DoingFollows DEF Ops
  <2>2. call' = [call EXCEPT ![k] = d]
    BY <1>4
  <2> HIDE DEF d
  <2> QED BY <1>1, <1>2, <2>1, <2>2, QuietMove DEF Follows
<1> QED BY <1>3, <1>4 DEF TabsAnswer

\* The wait for an execution context times out.
LEMMA ContextTimeoutInv == ASSUME Inv, NEW k \in Callers, ContextTimeout(k) PROVE Inv'
<1>1. TypeInv /\ SocketInv /\ PendingInv /\ RequestInv /\ MapInv
  BY DEF Inv
<1>2. UNCHANGED <<socketVars, tableVars, loopbackPending, browserVars>>
  BY DEF ContextTimeout
<1>3. CASE call[k].at = "context"
  <2> DEFINE K == {k}
  <2>1. /\ K \subseteq Callers /\ \A j \in K : call[j].at \notin Over
        /\ loopbackPending' = loopbackPending \ K
    BY <1>1, <1>2, <1>3 DEF Over, PendingInv, PendingCanBeAnswered
  <2>2. Throw(K)
    BY <1>3 DEF ContextTimeout
  <2> HIDE DEF K
  <2> QED BY <1>2, <2>1, <2>2, QuietThrow
<1>4. CASE call[k].at # "context"
  <2> DEFINE d == [call[k] EXCEPT !.context = "timedout"]
             none == {}
  <2>1. call \in [Callers -> Records] /\ \A j \in Callers : Good(call[j])
    BY <1>1 DEF TypeInv, TypeOK
  <2>2. /\ d \in Records /\ d.at = call[k].at /\ d.kind = call[k].kind /\ d.ws = call[k].ws
        /\ d.op = call[k].op /\ d.target = call[k].target /\ d.session = call[k].session
    BY <2>1, ContextChange
  <2>3. call' = [call EXCEPT ![k] = d] /\ UNCHANGED loopback_cdp_url
    BY <1>4, <2>1 DEF ContextTimeout
  <2> HIDE DEF d
  <2>4. Good(d)
    BY <2>1, <2>2 DEF Good, Before
  <2>5. /\ call'[k] = d /\ Stays(call[k], call'[k])
        /\ \A j \in Callers \ {k} : call'[j] = call[j]
    BY <2>1, <2>2, <2>3, <2>4 DEF Stays
  <2>6. call' \in [Callers -> Records] /\ \A j \in Callers : Good(call'[j])
    BY <2>1, <2>2, <2>3, <2>4, <2>5
  <2>7. SocketsStay /\ UNCHANGED <<requests, serves, attached>>
    BY <1>2 DEF SocketsStay, socketVars, browserVars
  <2>8. PendingInv'
    <3>1. loopbackPending' = loopbackPending \ none
      BY <1>2
    <3>2. \A j \in Callers : j \in none => FALSE
      OBVIOUS
    <3> HIDE DEF none
    <3> QED BY <1>1, <2>2, <2>5, <2>7, <3>1, <3>2, PendingFrame
  <2>9. RequestInv'
    <3>1. requests' \in [Sockets -> SUBSET Requests]
      BY <1>1, <2>7 DEF TypeInv, TypeOK
    <3> QED BY <1>1, <2>5, <2>7, <3>1, RequestFrame
  <2>10. TypeOK'
    BY <1>1, <1>2, <2>3, <2>6 DEF TypeInv, TypeOK, socketVars, tableVars, browserVars
  <2> QED
    BY <1>1, <1>2, <2>6, <2>8, <2>9, <2>10, SocketFrame, MapFrame
    DEF Inv, TypeInv, socketVars, tableVars, browserVars
<1> QED BY <1>3, <1>4

\* A caller that gets an open socket has it at once.
LEMMA GetOpenSocket ==
    ASSUME Inv, NEW k \in Callers, NEW w \in Sockets, ready[w] = "open",
           call[k].at = "socket", call' = [call EXCEPT ![k].ws = w, ![k].at = "have"],
           UNCHANGED <<loopback_cdp_url, socketVars, tableVars, loopbackPending, browserVars>>
    PROVE Inv'
<1>1. TypeInv /\ SocketInv /\ PendingInv /\ RequestInv /\ MapInv
  BY DEF Inv
<1>2. call \in [Callers -> Records] /\ \A j \in Callers : Good(call[j])
  BY <1>1 DEF TypeInv, TypeOK
<1> DEFINE u == [call[k] EXCEPT !.ws = w]
           d == [u EXCEPT !.at = "have"]
<1>3. /\ u \in Records /\ u.kind = call[k].kind /\ u.ws = w
      /\ u.op = call[k].op /\ u.target = call[k].target /\ u.session = call[k].session
  BY <1>2, SocketChange
<1>4. call' = [call EXCEPT ![k] = d]
  BY <1>2
<1> HIDE DEF u
<1>5. /\ d \in Records /\ d.at = "have" /\ d.kind = call[k].kind /\ d.ws = w
      /\ d.op = call[k].op /\ d.target = call[k].target /\ d.session = call[k].session
  <2>1. "have" \in Places
    BY DEF Places
  <2> QED BY <1>3, <2>1, PlaceChange
<1> HIDE DEF d
<1>6. Good(d)
  BY <1>2, <1>5 DEF Good, Before, Over
<1>7. /\ call'[k] = d /\ Stays(call[k], call'[k])
      /\ \A j \in Callers \ {k} : call'[j] = call[j]
  BY <1>2, <1>4, <1>5, <1>6 DEF Stays, Over
<1>8. call' \in [Callers -> Records] /\ \A j \in Callers : Good(call'[j])
  BY <1>2, <1>4, <1>5, <1>6, <1>7
<1>9. UNCHANGED <<ready, requests, serves, attached>>
  BY DEF socketVars, browserVars
<1>10. PendingInv'
  <2>1. \A j \in Callers : j \in loopbackPending' =>
          \E r \in requests'[call'[j].ws] : r.caller = j /\ Awaited(r)'
    <3> SUFFICES ASSUME NEW j \in Callers, j \in loopbackPending
                 PROVE \E r \in requests[call'[j].ws] : r.caller = j /\ Awaited(r)'
      BY <1>9
    <3>1. j # k /\ call'[j] = call[j]
      BY <1>1, <1>7 DEF PendingInv, PendingCanBeAnswered
    <3>2. PICK r \in requests[call[j].ws] : r.caller = j /\ Awaited(r)
      BY <1>1 DEF PendingInv, PendingCanBeAnswered
    <3>3. Awaited(r)'
      BY <3>1, <3>2 DEF Awaited
    <3> QED BY <3>1, <3>2, <3>3
  <2>2. \A j \in Callers :
          /\ j \in loopbackPending' <=> call'[j].at = "answer"
          /\ j \in loopbackPending' => ready'[call'[j].ws] \in {"open", "closing"}
    <3>1. call'[k].at = "have" /\ call[k].at = "socket"
      BY <1>5, <1>7
    <3>2. k \notin loopbackPending
      BY <1>1, <3>1 DEF PendingInv, PendingCanBeAnswered
    <3>3. ASSUME NEW j \in Callers \ {k}
          PROVE /\ j \in loopbackPending <=> call'[j].at = "answer"
                /\ j \in loopbackPending => ready[call'[j].ws] \in {"open", "closing"}
      <4>1. call'[j] = call[j]
        BY <1>7
      <4> QED BY <1>1, <4>1 DEF PendingInv, PendingCanBeAnswered
    <3> QED BY <1>9, <3>1, <3>2, <3>3
  <2>3. \A j \in Callers :
          /\ call'[j].at = "have" => ready'[call'[j].ws] = "open"
          /\ call'[j].at \in {"have", "answer"} => call'[j].ws \in Sockets
    <3>1. call'[k].ws = w /\ ready'[w] = "open"
      BY <1>5, <1>7, <1>9
    <3>2. \A j \in Callers \ {k} :
            /\ call'[j].at = "have" => ready'[call'[j].ws] = "open"
            /\ call'[j].at \in {"have", "answer"} => call'[j].ws \in Sockets
      BY <1>1, <1>7, <1>9 DEF PendingInv
    <3> QED BY <3>1, <3>2
  <2> QED BY <2>1, <2>2, <2>3 DEF PendingInv, PendingCanBeAnswered
<1>11. RequestInv'
  <2>1. requests' \in [Sockets -> SUBSET Requests]
    BY <1>1, <1>9 DEF TypeInv, TypeOK
  <2> QED BY <1>1, <1>7, <1>9, <2>1, RequestFrame
<1>12. TypeOK'
  BY <1>1, <1>8 DEF TypeInv, TypeOK, socketVars, tableVars, browserVars
<1> QED
  BY <1>1, <1>8, <1>10, <1>11, <1>12, SocketFrame, MapFrame
  DEF Inv, TypeInv, socketVars, tableVars, browserVars

\* A caller that waits for the dial of w stays with its command.
LEMMA DiallingStays ==
    ASSUME TypeInv, NEW k \in Callers, NEW w \in Sockets, call[k].at = "socket",
           call' = [call EXCEPT ![k].ws = w, ![k].at = "dialling"]
    PROVE \E d : /\ Good(d) /\ Stays(call[k], d) /\ d.at = "dialling"
                 /\ call' = [call EXCEPT ![k] = d]
<1>1. call \in [Callers -> Records] /\ \A j \in Callers : Good(call[j])
  BY DEF TypeInv, TypeOK
<1> DEFINE u == [call[k] EXCEPT !.ws = w]
           d == [u EXCEPT !.at = "dialling"]
<1>2. /\ u \in Records /\ u.kind = call[k].kind
      /\ u.op = call[k].op /\ u.target = call[k].target /\ u.session = call[k].session
  BY <1>1, SocketChange
<1>3. call' = [call EXCEPT ![k] = d]
  BY <1>1
<1> HIDE DEF u
<1>4. /\ d \in Records /\ d.at = "dialling" /\ d.kind = call[k].kind
      /\ d.op = call[k].op /\ d.target = call[k].target /\ d.session = call[k].session
  <2>1. "dialling" \in Places
    BY DEF Places
  <2> QED BY <1>2, <2>1, PlaceChange
<1> HIDE DEF d
<1>5. Good(d)
  BY <1>1, <1>4 DEF Good, Before, Over
<1> QED BY <1>3, <1>4, <1>5 DEF Stays, Over

\* loopbackWS.
LEMMA GetSocketInv == ASSUME Inv, NEW k \in Callers, GetSocket(k) PROVE Inv'
<1> DEFINE e == loopback_cdp_url
<1>1. TypeInv /\ SocketInv /\ PendingInv /\ RequestInv /\ MapInv
  BY DEF Inv
<1>2. /\ call[k].at = "socket" /\ UNCHANGED <<tableVars, loopbackPending, browserVars>>
      /\ Good(call[k]) /\ call[k].at \notin Over
  BY <1>1 DEF GetSocket, TypeInv, Over
<1>3. loopback_cdp_url \in Endpoints \cup {NoEndpoint}
  BY <1>1 DEF TypeInv, TypeOK
<1>4. ASSUME Throw({k}), UNCHANGED socketVars PROVE Inv'
  <2> DEFINE K == {k}
  <2>1. /\ K \subseteq Callers /\ \A j \in K : call[j].at \notin Over
        /\ loopbackPending' = loopbackPending \ K
    BY <1>1, <1>2 DEF PendingInv, PendingCanBeAnswered
  <2>2. Throw(K)
    BY <1>4
  <2> HIDE DEF K
  <2> QED BY <1>2, <1>4, <2>1, <2>2, QuietThrow
<1>5. CASE e = NoEndpoint /\ call[k].op = "init"
  <2> DEFINE d == Initialized(call[k])
  <2>1. call' = [call EXCEPT ![k] = d] /\ UNCHANGED <<loopback_cdp_url, socketVars>>
    BY <1>5 DEF GetSocket
  <2>2. Follows(call[k], d)
    BY <1>1, <1>2, <1>5, InitializedFollows DEF TypeInv
  <2> HIDE DEF d
  <2> QED BY <1>2, <1>3, <2>1, <2>2, QuietMove DEF Follows
<1>6. CASE e = NoEndpoint /\ call[k].op # "init"
  BY <1>4, <1>6 DEF GetSocket
<1>7. CASE e # NoEndpoint /\ HasOpenSocket(e)
  <2> DEFINE w == loopbackSockets[e]
  <2>1. w \in Sockets /\ ready[w] = "open"
    BY <1>1, <1>3, <1>7 DEF HasOpenSocket, TypeInv, TypeOK
  <2>2. /\ call' = [call EXCEPT ![k].ws = w, ![k].at = "have"]
        /\ UNCHANGED <<loopback_cdp_url, socketVars>>
    BY <1>7 DEF GetSocket
  <2> HIDE DEF w
  <2> QED BY <1>2, <2>1, <2>2, GetOpenSocket
<1>8. CASE e # NoEndpoint /\ ~HasOpenSocket(e) /\ Cached(e)
  <2> DEFINE w == loopbackPromises[e]
  <2>1. w \in Sockets
    BY <1>1, <1>3, <1>8 DEF Cached, TypeInv, TypeOK
  <2>2. CASE ready[w] = "connecting"
    <3>1. /\ call' = [call EXCEPT ![k].ws = w, ![k].at = "dialling"]
          /\ UNCHANGED <<loopback_cdp_url, socketVars>>
      BY <1>8, <2>2 DEF GetSocket
    <3> HIDE DEF w
    <3>2. PICK d : /\ Good(d) /\ Stays(call[k], d) /\ d.at = "dialling"
                   /\ call' = [call EXCEPT ![k] = d]
      BY <1>1, <1>2, <2>1, <3>1, DiallingStays
    <3> QED BY <1>2, <1>3, <3>1, <3>2, QuietMove
  <2>3. CASE ready[w] # "connecting"
    BY <1>4, <1>8, <2>3 DEF GetSocket
  <2> QED BY <2>2, <2>3
<1>9. CASE e # NoEndpoint /\ ~HasOpenSocket(e) /\ ~Cached(e)
  <2>1. PICK w \in Sockets :
          /\ ready[w] = "none"
          /\ ready' = [ready EXCEPT ![w] = "connecting"]
          /\ endpoint' = [endpoint EXCEPT ![w] = e]
          /\ loopbackPromises' = [loopbackPromises EXCEPT ![e] = w]
          /\ call' = [call EXCEPT ![k].ws = w, ![k].at = "dialling"]
    BY <1>9 DEF GetSocket
  <2>2. UNCHANGED <<loopback_cdp_url, loopbackSockets, initialized>>
    BY <1>9 DEF GetSocket
  <2>3. e \in Endpoints
    BY <1>3, <1>9
  <2>4. PICK d : /\ Good(d) /\ Stays(call[k], d) /\ d.at = "dialling"
                 /\ call' = [call EXCEPT ![k] = d]
    BY <1>1, <1>2, <2>1, DiallingStays
  <2>5. SocketsStay
    BY <1>1, <2>1 DEF SocketsStay, TypeInv, TypeOK
  <2>6. /\ call' \in [Callers -> Records] /\ (\A j \in Callers : Good(call'[j]))
        /\ PendingInv' /\ RequestInv'
    BY <1>1, <1>2, <2>4, <2>5, OneMove DEF browserVars
  <2>7. TypeOK'
    BY <1>1, <1>2, <2>1, <2>2, <2>3, <2>6 DEF TypeInv, TypeOK, tableVars, browserVars
  <2>8. \A v \in Sockets : ready[v] \in {"open", "connecting"} => endpoint[v] # e
    BY <1>1, <1>9, ConstantsAssumption DEF SocketInv, HasOpenSocket, Cached, TypeInv, TypeOK
  <2>9. \A v \in Sockets \ {w} : ready'[v] = ready[v] /\ endpoint'[v] = endpoint[v]
    BY <1>1, <2>1 DEF TypeInv, TypeOK
  <2>10. ready'[w] = "connecting" /\ endpoint'[w] = e /\ loopbackPromises'[e] = w
    BY <1>1, <2>1, <2>3 DEF TypeInv, TypeOK
  <2>11. \A f \in Endpoints \ {e} : loopbackPromises'[f] = loopbackPromises[f]
    BY <1>1, <2>1 DEF TypeInv, TypeOK
  <2>12. SocketInv'
    <3>1. \A v \in Sockets : ready'[v] = "open" =>
            endpoint'[v] \in Endpoints /\ loopbackSockets'[endpoint'[v]] = v
      BY <1>1, <2>2, <2>9, <2>10 DEF SocketInv
    <3>2. \A v \in Sockets : ready'[v] = "connecting" =>
            endpoint'[v] \in Endpoints /\ loopbackPromises'[endpoint'[v]] = v
      BY <1>1, <2>3, <2>8, <2>9, <2>10, <2>11 DEF SocketInv
    <3>3. \A u, v \in Sockets :
            ready'[u] \in {"connecting", "open"} /\ ready'[v] \in {"connecting", "open"}
              /\ endpoint'[u] = endpoint'[v] => u = v
      BY <1>1, <2>8, <2>9, <2>10, OneSocketUnfolded DEF SocketInv
    <3>4. OneSocketPerEndpoint'
      BY <3>3 DEF OneSocketPerEndpoint
    <3> QED BY <3>1, <3>2, <3>4 DEF SocketInv
  <2> QED
    BY <1>1, <1>2, <2>6, <2>7, <2>12, MapFrame
    DEF Inv, TypeInv, tableVars, browserVars
<1> QED BY <1>5, <1>6, <1>7, <1>8, <1>9

\* initializeLoopbackCDP has its socket.
LEMMA HaveInitSocket == ASSUME Inv, NEW k \in Callers, HaveSocket(k), call[k].op = "init"
                        PROVE Inv'
<1> DEFINE c == call[k]
           w == call[k].ws
<1>1. /\ Good(c) /\ c.at = "have" /\ c.at \notin Over /\ w \in Sockets
      /\ TypeInv
  BY DEF HaveSocket, Inv, TypeInv, PendingInv, Over
<1>2. UNCHANGED <<loopback_cdp_url, socketVars, tableVars, loopbackPending, browserVars>>
  BY DEF HaveSocket, browserVars
<1>3. loopback_cdp_url \in Endpoints \cup {NoEndpoint}
  BY <1>1 DEF TypeInv, TypeOK
<1>4. CASE w \in initialized
  <2> DEFINE d == Initialized(c)
  <2>1. call' = [call EXCEPT ![k] = d]
    BY <1>4 DEF HaveSocket
  <2>2. Follows(c, d)
    BY <1>1, InitializedFollows DEF TypeInv
  <2> HIDE DEF d
  <2> QED BY <1>1, <1>2, <1>3, <2>1, <2>2, QuietMove DEF Follows
<1>5. CASE w \notin initialized
  <2> DEFINE u == [c EXCEPT !.init = w]
             d == Doing(u, "autoAttach")
  <2>1. call' = [call EXCEPT ![k] = d]
    BY <1>5 DEF HaveSocket
  <2>2. /\ u \in Records /\ u.at = c.at /\ u.kind = c.kind
        /\ u.op = c.op /\ u.target = c.target /\ u.session = c.session
    BY <1>1, InitChange DEF Good
  <2> HIDE DEF u
  <2>3. /\ d \in Records /\ d.op = "autoAttach" /\ d.at = "socket"
        /\ d.kind = c.kind /\ d.target = c.target /\ d.session = c.session
    BY <2>2, DoingFields DEF Ops
  <2> HIDE DEF d
  <2>4. Good(d) /\ Follows(c, d)
    BY <1>1, <2>3 DEF Follows, Good, Before, Past, Over
  <2> QED BY <1>1, <1>2, <1>3, <2>1, <2>3, <2>4, QuietMove
<1> QED BY <1>4, <1>5

\* callLoopbackWS has its socket, and sends.
LEMMA SendInv == ASSUME Inv, NEW k \in Callers, HaveSocket(k), call[k].op # "init"
                 PROVE Inv'
<1> DEFINE c == call[k]
           w == call[k].ws
           d == [c EXCEPT !.at = "answer"]
<1>q. PICK q : q = Request(k)
  OBVIOUS
<1>1. TypeInv /\ SocketInv /\ PendingInv /\ RequestInv /\ MapInv
  BY DEF Inv
<1>2. /\ Good(c) /\ c.at = "have" /\ w \in Sockets /\ ready[w] = "open"
      /\ call \in [Callers -> Records] /\ k \notin loopbackPending
  BY <1>1 DEF HaveSocket, TypeInv, TypeOK, PendingInv, PendingCanBeAnswered
<1>3. /\ call' = [call EXCEPT ![k] = d]
      /\ loopbackPending' = loopbackPending \cup {k}
      /\ requests' = [requests EXCEPT ![w] = requests[w] \cup {q}]
      /\ UNCHANGED <<loopback_cdp_url, socketVars, tableVars, enabled, attached, serves>>
  BY <1>q DEF HaveSocket
<1>4. /\ d \in Records /\ d.at = "answer" /\ d.kind = c.kind /\ d.ws = w
      /\ d.op = c.op /\ d.target = c.target /\ d.session = c.session
  <2>1. "answer" \in Places
    BY DEF Places
  <2> QED BY <1>2, <2>1, PlaceChange DEF Good
<1> HIDE DEF d
<1>5. Good(d)
  BY <1>2, <1>4 DEF Good, Before, Over
<1>6. call'[k] = d /\ \A j \in Callers \ {k} : call'[j] = call[j]
  BY <1>2, <1>3
<1>7. call' \in [Callers -> Records] /\ \A j \in Callers : Good(call'[j])
  BY <1>1, <1>2, <1>3, <1>4, <1>5, <1>6 DEF TypeInv
<1>8. /\ q \in Requests /\ q.caller = k /\ q.kind = c.kind /\ q.op = c.op
      /\ q.target = c.target /\ q.session = NoSession
      /\ c.op = "attach" => c.target \in Targets /\ c.kind # "configure"
  BY <1>2, <1>q DEF Request, Requests, Records, Good
<1>9. /\ q \in requests'[w] /\ requests'[w] = requests[w] \cup {q}
      /\ \A v \in Sockets \ {w} : requests'[v] = requests[v]
  BY <1>1, <1>2, <1>3 DEF TypeInv, TypeOK
<1>10. TypeOK'
  <2>1. requests' \in [Sockets -> SUBSET Requests]
    BY <1>1, <1>2, <1>3, <1>8 DEF TypeInv, TypeOK
  <2>2. \A v \in Sockets : \A r \in requests'[v] : r.op = "attach" => r.target \in Targets
    BY <1>1, <1>8, <1>9 DEF TypeInv, TypeOK
  <2>3. loopbackPending' \in SUBSET Callers
    BY <1>1, <1>3 DEF TypeInv, TypeOK
  <2> QED
    BY <1>1, <1>3, <1>7, <2>1, <2>2, <2>3 DEF TypeInv, TypeOK, socketVars, tableVars
<1>11. PendingInv'
  <2>1. \A j \in Callers :
          /\ j \in loopbackPending' <=> call'[j].at = "answer"
          /\ call'[j].at = "have" => ready[call'[j].ws] = "open"
          /\ call'[j].at \in {"have", "answer"} => call'[j].ws \in Sockets
          /\ j \in loopbackPending' => ready[call'[j].ws] \in {"open", "closing"}
    BY <1>1, <1>2, <1>3, <1>4, <1>6 DEF PendingInv, PendingCanBeAnswered
  <2>2. ASSUME NEW j \in Callers, j \in loopbackPending'
        PROVE \E r \in requests'[call'[j].ws] : r.caller = j /\ Awaited(r)'
    <3>1. CASE j = k
      <4>1. Awaited(q)'
        BY <1>3, <1>4, <1>6, <1>8 DEF Awaited
      <4> QED BY <1>4, <1>6, <1>8, <1>9, <3>1, <4>1
    <3>2. CASE j # k
      <4>1. j \in loopbackPending /\ call'[j] = call[j] /\ call[j].ws \in Sockets
        BY <1>3, <1>6, <2>1, <2>2, <3>2
      <4>2. PICK r \in requests[call[j].ws] : r.caller = j /\ Awaited(r)
        BY <1>1, <4>1 DEF PendingInv, PendingCanBeAnswered
      <4>3. Awaited(r)'
        BY <2>2, <4>1, <4>2 DEF Awaited
      <4> QED BY <1>9, <4>1, <4>2, <4>3
    <3> QED BY <3>1, <3>2
  <2> QED BY <1>3, <2>1, <2>2 DEF PendingInv, PendingCanBeAnswered, socketVars
<1>12. RequestInv'
  <2> SUFFICES ASSUME NEW v \in Sockets, NEW r \in requests'[v]
               PROVE /\ r.op = "attach" => r.kind # "configure"
                     /\ call'[r.caller].at \notin {"idle", "fetch"}
                     /\ r.op = "attach" /\ call'[r.caller].kind = r.kind =>
                          \/ Past(call'[r.caller])
                          \/ /\ call'[r.caller].at = "answer" /\ call'[r.caller].op = "attach"
                             /\ call'[r.caller].target = r.target
                     /\ r.session # NoSession =>
                          /\ r.op = "attach" /\ serves'[r.session] = r.target
                          /\ attached'[r.session] = v
    BY DEF RequestInv, Past
  <2>1. CASE r = q
    BY <1>4, <1>6, <1>8, <2>1
  <2>2. CASE r # q
    <3>1. r \in requests[v] /\ r.caller \in Callers
      BY <1>1, <1>9, <2>2 DEF TypeInv, TypeOK, Requests
    <3>2. /\ r.op = "attach" => r.kind # "configure"
          /\ call[r.caller].at \notin {"idle", "fetch"}
          /\ r.op = "attach" /\ call[r.caller].kind = r.kind =>
               \/ Past(call[r.caller])
               \/ /\ call[r.caller].at = "answer" /\ call[r.caller].op = "attach"
                  /\ call[r.caller].target = r.target
          /\ r.session # NoSession =>
               r.op = "attach" /\ serves[r.session] = r.target /\ attached[r.session] = v
      BY <1>1, <3>1 DEF RequestInv
    <3>3. CASE r.caller = k
      BY <1>2, <1>3, <1>4, <1>6, <3>2, <3>3 DEF Past, Over
    <3>4. CASE r.caller # k
      BY <1>3, <1>6, <3>1, <3>2, <3>4
    <3> QED BY <3>3, <3>4
  <2> QED BY <2>1, <2>2
<1> QED
  BY <1>1, <1>3, <1>7, <1>10, <1>11, <1>12, SocketFrame, MapFrame
  DEF Inv, TypeInv, socketVars, tableVars

-----------------------------------------------------------------------------
(* The steps of sockets and of the browser.                                 *)

\* Events come only while no caller is about to go on.
LEMMA IdleMeans == Idle => \A k \in Callers : call[k].at \notin {"socket", "have"}
BY DEF Idle, Running

\* The pending table keeps its invariant when nothing in it is touched.
LEMMA PendingSame ==
    PendingInv /\ UNCHANGED <<loopbackPending, call, requests, ready>> => PendingInv'
BY DEF PendingInv, PendingCanBeAnswered, Awaited

\* A dial succeeds.
LEMMA SocketOpensInv == ASSUME Inv, NEW w \in Sockets, SocketOpens(w) PROVE Inv'
<1> DEFINE e == endpoint[w]
<1>1. TypeInv /\ SocketInv /\ PendingInv /\ RequestInv /\ MapInv
  BY DEF Inv
<1>2. call \in [Callers -> Records] /\ \A k \in Callers : Good(call[k])
  BY <1>1 DEF TypeInv, TypeOK
<1>3. /\ ready[w] = "connecting" /\ e \in Endpoints
      /\ ready' = [ready EXCEPT ![w] = "open"]
      /\ loopbackSockets' = [loopbackSockets EXCEPT ![e] = w]
      /\ loopbackPromises' = [loopbackPromises EXCEPT ![e] = NoSocket]
      /\ UNCHANGED <<loopback_cdp_url, endpoint, initialized, tableVars, loopbackPending,
                     browserVars>>
      /\ \A k \in Callers : call[k].at \notin {"socket", "have"}
  BY <1>1, IdleMeans DEF SocketOpens, SocketInv
<1>4. call' = [k \in Callers |-> IF k \in Dialling(w) THEN [call[k] EXCEPT !.at = "have"]
                                                    ELSE call[k]]
  BY DEF SocketOpens
<1>5. \A k \in Callers : k \notin Dialling(w) => call'[k] = call[k]
  BY <1>4
<1>6. ASSUME NEW k \in Callers, k \in Dialling(w)
      PROVE Stays(call[k], call'[k]) /\ call'[k].at = "have" /\ call'[k].ws = w
              /\ call[k].at = "dialling"
  <2> DEFINE d == [call[k] EXCEPT !.at = "have"]
  <2>1. call'[k] = d /\ call[k].at = "dialling" /\ call[k].ws = w
    BY <1>4, <1>6 DEF Dialling
  <2>2. "have" \in Places /\ call[k] \in Records
    BY <1>2 DEF Places
  <2>3. /\ d \in Records /\ d.at = "have" /\ d.kind = call[k].kind /\ d.ws = call[k].ws
        /\ d.op = call[k].op /\ d.target = call[k].target /\ d.session = call[k].session
    BY <2>2, PlaceChange
  <2> HIDE DEF d
  <2>4. Good(d)
    BY <1>2, <2>1, <2>3 DEF Good, Before, Over
  <2> QED BY <2>1, <2>3, <2>4 DEF Stays, Over
<1>7. \A k \in Callers : Good(call'[k])
  BY <1>2, <1>5, <1>6 DEF Stays
<1>8. call' \in [Callers -> Records]
  BY <1>4, <1>7 DEF Good
<1>9. /\ ready'[w] = "open" /\ \A v \in Sockets \ {w} : ready'[v] = ready[v]
      /\ loopbackSockets'[e] = w /\ loopbackPromises'[e] = NoSocket
      /\ \A f \in Endpoints \ {e} : /\ loopbackSockets'[f] = loopbackSockets[f]
                                  /\ loopbackPromises'[f] = loopbackPromises[f]
  BY <1>1, <1>3 DEF TypeInv, TypeOK
<1>10. TypeOK'
  BY <1>1, <1>3, <1>8 DEF TypeInv, TypeOK, tableVars, browserVars
<1>11. SocketInv'
  <2>1. \A u, v \in Sockets :
          ready'[u] \in {"connecting", "open"} /\ ready'[v] \in {"connecting", "open"}
            /\ endpoint'[u] = endpoint'[v] => u = v
    BY <1>1, <1>3, <1>9, OneSocketUnfolded DEF SocketInv
  <2>2. \A v \in Sockets \ {w} : ready[v] \in {"connecting", "open"} => endpoint[v] # e
    BY <1>1, <1>3, OneSocketUnfolded DEF SocketInv
  <2>3. \A v \in Sockets : ready'[v] = "open" =>
          endpoint'[v] \in Endpoints /\ loopbackSockets'[endpoint'[v]] = v
    BY <1>1, <1>3, <1>9, <2>2 DEF SocketInv
  <2>4. \A v \in Sockets : ready'[v] = "connecting" =>
          endpoint'[v] \in Endpoints /\ loopbackPromises'[endpoint'[v]] = v
    BY <1>1, <1>3, <1>9, <2>2 DEF SocketInv
  <2>5. OneSocketPerEndpoint'
    BY <2>1 DEF OneSocketPerEndpoint
  <2> QED BY <2>3, <2>4, <2>5 DEF SocketInv
<1>12. PendingInv'
  <2>1. \A k \in Callers :
          /\ k \in loopbackPending' <=> call'[k].at = "answer"
          /\ call'[k].at = "have" => ready'[call'[k].ws] = "open"
          /\ call'[k].at \in {"have", "answer"} => call'[k].ws \in Sockets
    BY <1>1, <1>3, <1>5, <1>6, <1>9 DEF PendingInv, PendingCanBeAnswered
  <2>2. ASSUME NEW k \in Callers, k \in loopbackPending'
        PROVE /\ ready'[call'[k].ws] \in {"open", "closing"}
              /\ \E r \in requests'[call'[k].ws] : r.caller = k /\ Awaited(r)'
    <3>1. k \in loopbackPending /\ call'[k] = call[k]
      BY <1>3, <1>5, <1>6, <2>1, <2>2
    <3>2. PICK r \in requests[call[k].ws] : r.caller = k /\ Awaited(r)
      BY <1>1, <3>1 DEF PendingInv, PendingCanBeAnswered
    <3>3. Awaited(r)'
      BY <2>2, <3>1, <3>2 DEF Awaited
    <3>4. ready[call[k].ws] \in {"open", "closing"} /\ call[k].ws \in Sockets
      BY <1>1, <3>1 DEF PendingInv, PendingCanBeAnswered
    <3> QED BY <1>3, <1>9, <3>1, <3>2, <3>3, <3>4 DEF browserVars
  <2> QED BY <2>1, <2>2 DEF PendingInv, PendingCanBeAnswered
<1>13. RequestInv'
  <2>1. requests' \in [Sockets -> SUBSET Requests] /\ UNCHANGED <<requests, serves, attached>>
    BY <1>1, <1>3 DEF TypeInv, TypeOK, browserVars
  <2> QED BY <1>1, <1>5, <1>6, <2>1, RequestFrame
<1> QED
  BY <1>1, <1>3, <1>7, <1>10, <1>11, <1>12, <1>13, MapFrame
  DEF Inv, TypeInv, tableVars, browserVars

\* A dial fails.
LEMMA DialFailsInv == ASSUME Inv, NEW w \in Sockets, DialFails(w) PROVE Inv'
<1> DEFINE K == Dialling(w)
<1>1. TypeInv /\ SocketInv /\ PendingInv /\ RequestInv /\ MapInv
  BY DEF Inv
<1>2. /\ ready[w] = "connecting" /\ ready' = [ready EXCEPT ![w] = "closed"] /\ Throw(K)
      /\ UNCHANGED <<endpoint, loopbackSockets, loopbackPromises, initialized, tableVars,
                     loopbackPending, browserVars>>
  BY DEF DialFails
<1>3. /\ K \subseteq Callers /\ \A k \in K : call[k].at \notin Over
      /\ loopbackPending' = loopbackPending \ K
  BY <1>1, <1>2 DEF Dialling, Over, PendingInv, PendingCanBeAnswered
<1> HIDE DEF K
<1>4. ready'[w] = "closed" /\ \A v \in Sockets \ {w} : ready'[v] = ready[v]
  BY <1>1, <1>2 DEF TypeInv, TypeOK
<1>5. SocketsStay /\ UNCHANGED <<requests, serves, attached>>
  BY <1>2, <1>4 DEF SocketsStay, browserVars
<1>6. /\ call' \in [Callers -> Records] /\ (\A j \in Callers : Good(call'[j]))
      /\ loopback_cdp_url' \in Endpoints \cup {NoEndpoint}
      /\ PendingInv' /\ RequestInv'
  BY <1>1, <1>2, <1>3, <1>5, ThrowStep
<1>7. TypeOK'
  BY <1>1, <1>2, <1>6 DEF TypeInv, TypeOK, tableVars, browserVars
<1>8. SocketInv'
  BY <1>1, <1>2, <1>4 DEF SocketInv, OneSocketPerEndpoint
<1> QED
  BY <1>1, <1>2, <1>6, <1>7, <1>8, MapFrame DEF Inv, TypeInv, tableVars, browserVars

\* A socket begins to close.
LEMMA SocketClosingInv == ASSUME Inv, NEW w \in Sockets, SocketClosing(w) PROVE Inv'
<1>1. TypeInv /\ SocketInv /\ PendingInv /\ RequestInv /\ MapInv
  BY DEF Inv
<1>2. /\ ready[w] = "open" /\ ready' = [ready EXCEPT ![w] = "closing"]
      /\ UNCHANGED <<loopback_cdp_url, endpoint, loopbackSockets, loopbackPromises,
                     initialized, tableVars, loopbackPending, call, browserVars>>
      /\ \A k \in Callers : call[k].at \notin {"socket", "have"}
  BY IdleMeans DEF SocketClosing
<1>3. ready'[w] = "closing" /\ \A v \in Sockets \ {w} : ready'[v] = ready[v]
  BY <1>1, <1>2 DEF TypeInv, TypeOK
<1>4. TypeOK'
  BY <1>1, <1>2 DEF TypeInv, TypeOK, tableVars, browserVars
<1>5. SocketInv'
  BY <1>1, <1>2, <1>3 DEF SocketInv, OneSocketPerEndpoint
<1>6. PendingInv'
  BY <1>1, <1>2, <1>3 DEF PendingInv, PendingCanBeAnswered, Awaited, browserVars
<1>7. RequestInv'
  BY <1>1, <1>2 DEF RequestInv, browserVars
<1> QED
  BY <1>1, <1>2, <1>4, <1>5, <1>6, <1>7, MapFrame DEF Inv, TypeInv, tableVars, browserVars

\* A socket is lost, and with it the tables of all.
LEMMA SocketLostInv == ASSUME Inv, NEW w \in Sockets, SocketLost(w) PROVE Inv'
<1> DEFINE K == loopbackPending
<1>1. TypeInv /\ SocketInv /\ PendingInv /\ RequestInv /\ MapInv
  BY DEF Inv
<1>2. /\ ready' = [ready EXCEPT ![w] = "closed"]
      /\ loopbackSockets' = [e \in Endpoints |-> IF loopbackSockets[e] = w THEN NoSocket
                                                                  ELSE loopbackSockets[e]]
      /\ target_sessions' = [t \in Targets |-> NoSession]
      /\ session_targets' = [s \in Sessions |-> NoTarget]
      /\ contexts' = {} /\ loopbackPending' = {} /\ Throw(K)
      /\ requests' = [requests EXCEPT ![w] = {}]
      /\ enabled' = [enabled EXCEPT ![w] = {}]
      /\ attached' = [s \in Sessions |-> IF attached[s] = w THEN NoSocket ELSE attached[s]]
      /\ UNCHANGED <<endpoint, loopbackPromises, initialized, serves>>
      /\ \A k \in Callers : call[k].at \notin {"socket", "have"}
  BY IdleMeans DEF SocketLost, Rejected
<1>3. K \subseteq Callers /\ \A k \in Callers : k \in K <=> call[k].at = "answer"
  BY <1>1 DEF TypeInv, TypeOK, PendingInv, PendingCanBeAnswered
<1>4. \A k \in Callers : k \in K => call[k].at \notin Over
  BY <1>3 DEF Over
<1> HIDE DEF K
<1>5. /\ call' \in [Callers -> Records] /\ \A k \in Callers : Good(call'[k])
      /\ \A k \in Callers : k \notin K => call'[k] = call[k]
      /\ \A k \in Callers : k \in K =>
           Follows(call[k], call'[k]) /\ call'[k].at \in {"socket", "debugger", "rejected"}
  BY <1>1, <1>2, <1>4, ThrowMoves
<1>6. loopback_cdp_url' \in Endpoints \cup {NoEndpoint}
  BY <1>1, <1>2, <1>3, ForgottenType DEF Throw, TypeInv
<1>7. /\ ready'[w] = "closed" /\ requests'[w] = {}
      /\ \A v \in Sockets \ {w} : ready'[v] = ready[v] /\ requests'[v] = requests[v]
      /\ \A s \in Sessions : attached[s] # w => attached'[s] = attached[s]
  BY <1>1, <1>2 DEF TypeInv, TypeOK
<1>8. TypeOK'
  <2>1. requests' \in [Sockets -> SUBSET Requests] /\ enabled' \in [Sockets -> SUBSET {"autoAttach", "discover"}]
    BY <1>1, <1>2 DEF TypeInv, TypeOK
  <2>2. attached' \in [Sessions -> Sockets \cup {NoSocket}]
    BY <1>1, <1>2 DEF TypeInv, TypeOK
  <2>3. \A v \in Sockets : \A r \in requests'[v] : r.op = "attach" => r.target \in Targets
    BY <1>1, <1>7 DEF TypeInv, TypeOK
  <2>4. /\ ready' \in [Sockets -> {"none", "connecting", "open", "closing", "closed"}]
        /\ loopbackSockets' \in [Endpoints -> Sockets \cup {NoSocket}]
    BY <1>1, <1>2 DEF TypeInv, TypeOK
  <2> QED
    BY <1>1, <1>2, <1>5, <1>6, <2>1, <2>2, <2>3, <2>4 DEF TypeInv, TypeOK
<1>9. SocketInv'
  <2>1. \A u, v \in Sockets :
          ready'[u] \in {"connecting", "open"} /\ ready'[v] \in {"connecting", "open"}
            /\ endpoint'[u] = endpoint'[v] => u = v
    BY <1>1, <1>2, <1>7, OneSocketUnfolded DEF SocketInv
  <2>2. OneSocketPerEndpoint'
    BY <2>1 DEF OneSocketPerEndpoint
  <2> QED BY <1>1, <1>2, <1>7, <2>2 DEF SocketInv
<1>10. PendingInv'
  <2>1. \A k \in Callers : call'[k].at \notin {"have", "answer"}
    BY <1>2, <1>3, <1>5
  <2> QED BY <1>2, <2>1 DEF PendingInv, PendingCanBeAnswered
<1>11. RequestInv'
  <2>1. /\ requests' \in [Sockets -> SUBSET Requests]
        /\ \A v \in Sockets : requests'[v] \subseteq requests[v]
    BY <1>7, <1>8 DEF TypeOK
  <2>2. ASSUME NEW v \in Sockets, NEW r \in requests'[v], r.session # NoSession
        PROVE serves'[r.session] = serves[r.session] /\ attached'[r.session] = attached[r.session]
    <3>1. v # w /\ r \in requests[v] /\ r.session \in Sessions
      BY <1>7, <1>8, <2>2 DEF TypeOK, Requests
    <3>2. attached[r.session] = v
      BY <1>1, <2>2, <3>1 DEF RequestInv
    <3> QED BY <1>2, <1>7, <3>1, <3>2
  <2> QED BY <1>1, <1>5, <2>1, <2>2, RequestFrame
<1>12. MapInv'
  BY <1>2 DEF MapInv
<1> QED
  BY <1>5, <1>8, <1>9, <1>10, <1>11, <1>12 DEF Inv, TypeInv

\* A session id that has not been given out is in no table and in no request.
LEMMA Unserved ==
    ASSUME TypeInv, RequestInv, MapInv, NEW s \in Sessions, serves[s] = NoTarget
    PROVE /\ \A t \in Targets : target_sessions[t] # s
          /\ \A w \in Sockets : \A r \in requests[w] : r.session # s
<1>1. \A t \in Targets : target_sessions[t] # s
  BY ConstantsAssumption DEF MapInv
<1>2. ASSUME NEW w \in Sockets, NEW r \in requests[w], r.session = s PROVE FALSE
  <2>1. r.op = "attach" /\ serves[s] = r.target
    BY <1>2, ConstantsAssumption DEF RequestInv
  <2> QED BY <2>1, ConstantsAssumption DEF TypeInv, TypeOK
<1> QED BY <1>1, <1>2

\* A session attached to t on w becomes the one that the table names.
LEMMA AttachedMap ==
    ASSUME TypeInv, RequestInv, MapInv, NEW w \in Sockets, NEW s \in Sessions,
           NEW t \in Targets, serves[s] = NoTarget, Attached(w, s, t)
    PROVE /\ MapInv'
          /\ attached' \in [Sessions -> Sockets \cup {NoSocket}]
          /\ serves' \in [Sessions -> Targets \cup {NoTarget}]
          /\ target_sessions' \in [Targets -> Sessions \cup {NoSession}]
          /\ session_targets' \in [Sessions -> Targets \cup {NoTarget}]
          /\ attached'[s] = w /\ serves'[s] = t
          /\ \A x \in Sessions \ {s} : attached'[x] = attached[x] /\ serves'[x] = serves[x]
<1>1. /\ attached' = [attached EXCEPT ![s] = w] /\ serves' = [serves EXCEPT ![s] = t]
      /\ target_sessions' = [target_sessions EXCEPT ![t] = s]
      /\ session_targets' = [session_targets EXCEPT ![s] = t]
  BY DEF Attached, RecordAttached
<1>2. /\ attached' \in [Sessions -> Sockets \cup {NoSocket}]
      /\ serves' \in [Sessions -> Targets \cup {NoTarget}]
      /\ target_sessions' \in [Targets -> Sessions \cup {NoSession}]
      /\ session_targets' \in [Sessions -> Targets \cup {NoTarget}]
  BY <1>1 DEF TypeInv, TypeOK
<1>3. /\ attached'[s] = w /\ serves'[s] = t /\ session_targets'[s] = t
      /\ target_sessions'[t] = s
      /\ \A x \in Sessions \ {s} : /\ attached'[x] = attached[x] /\ serves'[x] = serves[x]
                                /\ session_targets'[x] = session_targets[x]
      /\ \A u \in Targets \ {t} : target_sessions'[u] = target_sessions[u]
  BY <1>1 DEF TypeInv, TypeOK
<1>4. MapInv'
  <2> SUFFICES ASSUME NEW u \in Targets, target_sessions'[u] # NoSession
               PROVE LET x == target_sessions'[u]
                     IN  serves'[x] = u /\ attached'[x] # NoSocket /\ session_targets'[x] = u
    BY DEF MapInv
  <2>1. CASE u = t
    BY <1>3, <2>1, ConstantsAssumption
  <2>2. CASE u # t
    <3>1. target_sessions'[u] = target_sessions[u] /\ target_sessions[u] \in Sessions \ {s}
      BY <1>2, <1>3, <2>2, Unserved
    <3> QED BY <1>3, <3>1 DEF MapInv
  <2> QED BY <2>1, <2>2
<1> QED BY <1>2, <1>3, <1>4

\* The browser attaches a session of its own accord.
LEMMA AutoAttachedInv ==
    ASSUME Inv, NEW w \in Sockets, NEW s \in Sessions, NEW t \in Targets, AutoAttached(w, s, t)
    PROVE Inv'
<1>1. TypeInv /\ SocketInv /\ PendingInv /\ RequestInv /\ MapInv
  BY DEF Inv
<1>2. /\ serves[s] = NoTarget /\ Attached(w, s, t)
      /\ UNCHANGED <<loopback_cdp_url, socketVars, contexts, loopbackPending, call, requests,
                     enabled>>
  BY DEF AutoAttached
<1>3. /\ MapInv'
      /\ attached' \in [Sessions -> Sockets \cup {NoSocket}]
      /\ serves' \in [Sessions -> Targets \cup {NoTarget}]
      /\ target_sessions' \in [Targets -> Sessions \cup {NoSession}]
      /\ session_targets' \in [Sessions -> Targets \cup {NoTarget}]
      /\ \A x \in Sessions \ {s} : attached'[x] = attached[x] /\ serves'[x] = serves[x]
  BY <1>1, <1>2, AttachedMap
<1>4. TypeOK'
  BY <1>1, <1>2, <1>3 DEF TypeInv, TypeOK, socketVars
<1>5. RequestInv'
  <2>1. requests' \in [Sockets -> SUBSET Requests]
    BY <1>4 DEF TypeOK
  <2>2. ASSUME NEW v \in Sockets, NEW r \in requests'[v], r.session # NoSession
        PROVE serves'[r.session] = serves[r.session] /\ attached'[r.session] = attached[r.session]
    <3>1. r.session \in Sessions \ {s}
      BY <1>1, <1>2, <2>1, <2>2, Unserved DEF Requests
    <3> QED BY <1>3, <3>1
  <2> QED BY <1>1, <1>2, <2>1, <2>2, RequestFrame
<1> QED
  BY <1>1, <1>2, <1>3, <1>4, <1>5, SocketFrame, PendingSame DEF Inv, TypeInv, socketVars

\* The browser attaches a session because a caller has asked for it.
LEMMA AttachedAsRequestedInv ==
    ASSUME Inv, NEW w \in Sockets, NEW s \in Sessions, NEW r \in requests[w],
           AttachedAsRequested(w, r, s)
    PROVE Inv'
<1>q. PICK q : q = [r EXCEPT !.session = s]
  OBVIOUS
<1>1. TypeInv /\ SocketInv /\ PendingInv /\ RequestInv /\ MapInv
  BY DEF Inv
<1>2. /\ serves[s] = NoTarget /\ r.op = "attach" /\ Attached(w, s, r.target)
      /\ requests' = [requests EXCEPT ![w] = (requests[w] \ {r}) \cup {q}]
      /\ UNCHANGED <<loopback_cdp_url, socketVars, contexts, loopbackPending, call, enabled>>
  BY <1>q DEF AttachedAsRequested
<1>3. r \in Requests /\ r.target \in Targets
  BY <1>1, <1>2 DEF TypeInv, TypeOK
<1>4. /\ q \in Requests /\ q.caller = r.caller /\ q.kind = r.kind /\ q.op = "attach"
      /\ q.target = r.target /\ q.session = s
  BY <1>2, <1>3, <1>q DEF Requests
<1>5. /\ MapInv'
      /\ attached' \in [Sessions -> Sockets \cup {NoSocket}]
      /\ serves' \in [Sessions -> Targets \cup {NoTarget}]
      /\ target_sessions' \in [Targets -> Sessions \cup {NoSession}]
      /\ session_targets' \in [Sessions -> Targets \cup {NoTarget}]
      /\ attached'[s] = w /\ serves'[s] = r.target
      /\ \A x \in Sessions \ {s} : attached'[x] = attached[x] /\ serves'[x] = serves[x]
  BY <1>1, <1>2, <1>3, AttachedMap
<1>6. /\ requests'[w] = (requests[w] \ {r}) \cup {q}
      /\ \A v \in Sockets \ {w} : requests'[v] = requests[v]
  BY <1>1, <1>2 DEF TypeInv, TypeOK
<1>7. requests' \in [Sockets -> SUBSET Requests]
  BY <1>1, <1>2, <1>4 DEF TypeInv, TypeOK
<1>8. TypeOK'
  <2>1. \A v \in Sockets : \A x \in requests'[v] : x.op = "attach" => x.target \in Targets
    BY <1>1, <1>3, <1>4, <1>6 DEF TypeInv, TypeOK
  <2> QED BY <1>1, <1>2, <1>5, <1>7, <2>1 DEF TypeInv, TypeOK, socketVars
<1>9. PendingInv'
  <2>1. ASSUME NEW k \in Callers, k \in loopbackPending
        PROVE \E x \in requests'[call'[k].ws] : x.caller = k /\ Awaited(x)'
    <3>1. PICK x \in requests[call[k].ws] : x.caller = k /\ Awaited(x)
      BY <1>1, <2>1 DEF PendingInv, PendingCanBeAnswered
    <3>2. Awaited(x)'
      BY <1>2, <3>1 DEF Awaited
    <3>3. call[k].ws \in Sockets
      BY <1>1, <2>1 DEF PendingInv, PendingCanBeAnswered
    <3>4. CASE call[k].ws = w /\ x = r
      <4>1. q.caller = k /\ Awaited(q)'
        BY <1>2, <1>4, <3>1, <3>4 DEF Awaited
      <4> QED BY <1>2, <1>6, <3>4, <4>1
    <3>5. CASE ~(call[k].ws = w /\ x = r)
      BY <1>2, <1>6, <3>1, <3>2, <3>3, <3>5
    <3> QED BY <3>4, <3>5
  <2> QED BY <1>1, <1>2, <2>1 DEF PendingInv, PendingCanBeAnswered, socketVars
<1>10. RequestInv'
  <2> SUFFICES ASSUME NEW v \in Sockets, NEW x \in requests'[v]
               PROVE /\ x.op = "attach" => x.kind # "configure"
                     /\ call[x.caller].at \notin {"idle", "fetch"}
                     /\ x.op = "attach" /\ call[x.caller].kind = x.kind =>
                          \/ Past(call[x.caller])
                          \/ /\ call[x.caller].at = "answer" /\ call[x.caller].op = "attach"
                             /\ call[x.caller].target = x.target
                     /\ x.session # NoSession =>
                          /\ x.op = "attach" /\ serves'[x.session] = x.target
                          /\ attached'[x.session] = v
    BY <1>2 DEF RequestInv, Past
  <2>1. CASE x = q /\ v = w
    BY <1>1, <1>2, <1>4, <1>5, <2>1 DEF RequestInv
  <2>2. CASE ~(x = q /\ v = w)
    <3>1. x \in requests[v]
      BY <1>6, <2>2
    <3>2. x.session # NoSession => x.session \in Sessions \ {s}
      BY <1>1, <1>2, <3>1, Unserved DEF TypeInv, TypeOK, Requests
    <3> QED BY <1>1, <1>5, <3>1, <3>2 DEF RequestInv
  <2> QED BY <2>1, <2>2
<1> QED
  BY <1>1, <1>2, <1>5, <1>8, <1>9, <1>10, SocketFrame DEF Inv, TypeInv, socketVars

\* A session is detached.
LEMMA DetachedInv == ASSUME Inv, NEW s \in Sessions, Detached(s) PROVE Inv'
<1>1. TypeInv /\ SocketInv /\ PendingInv /\ RequestInv /\ MapInv
  BY DEF Inv
<1>2. /\ attached[s] # NoSocket
      /\ \A r \in requests[attached[s]] : r.session # s
      /\ attached' = [attached EXCEPT ![s] = NoSocket]
      /\ session_targets' = [session_targets EXCEPT ![s] = NoTarget]
      /\ contexts' = contexts \ {s}
      /\ UNCHANGED <<loopback_cdp_url, socketVars, loopbackPending, call, requests, enabled,
                     serves>>
  BY DEF Detached
<1>3. PICK t \in {serves[s], session_targets[s]} :
        target_sessions' = [u \in Targets |-> IF u = t THEN NoSession ELSE target_sessions[u]]
  BY DEF Detached, Unmapped
<1>4. /\ \A x \in Sessions \ {s} : /\ attached'[x] = attached[x]
                                /\ session_targets'[x] = session_targets[x]
      /\ \A u \in Targets : target_sessions'[u] = IF u = t THEN NoSession ELSE target_sessions[u]
  BY <1>1, <1>2, <1>3 DEF TypeInv, TypeOK
<1>5. TypeOK'
  <2>1. /\ attached' \in [Sessions -> Sockets \cup {NoSocket}]
        /\ target_sessions' \in [Targets -> Sessions \cup {NoSession}]
        /\ session_targets' \in [Sessions -> Targets \cup {NoTarget}]
        /\ contexts' \in SUBSET Sessions
    BY <1>1, <1>2, <1>3 DEF TypeInv, TypeOK
  <2> QED BY <1>1, <1>2, <2>1 DEF TypeInv, TypeOK, socketVars
<1>6. MapInv'
  <2> SUFFICES ASSUME NEW u \in Targets, target_sessions'[u] # NoSession
               PROVE LET x == target_sessions'[u]
                     IN  serves'[x] = u /\ attached'[x] # NoSocket /\ session_targets'[x] = u
    BY DEF MapInv
  <2>1. u # t /\ target_sessions'[u] = target_sessions[u] /\ target_sessions[u] \in Sessions
    BY <1>1, <1>4 DEF TypeInv, TypeOK
  <2>2. /\ serves[target_sessions[u]] = u /\ attached[target_sessions[u]] # NoSocket
        /\ session_targets[target_sessions[u]] = u
    BY <1>1, <2>1 DEF MapInv
  <2>3. target_sessions[u] # s
    BY <2>1, <2>2, <1>3
  <2> QED BY <1>2, <1>4, <2>1, <2>2, <2>3
<1>7. RequestInv'
  <2>1. requests' \in [Sockets -> SUBSET Requests]
    BY <1>5 DEF TypeOK
  <2>2. ASSUME NEW v \in Sockets, NEW r \in requests'[v], r.session # NoSession
        PROVE serves'[r.session] = serves[r.session] /\ attached'[r.session] = attached[r.session]
    <3>1. r \in requests[v] /\ r.session \in Sessions
      BY <1>2, <2>1, <2>2 DEF Requests
    <3>2. attached[r.session] = v
      BY <1>1, <2>2, <3>1 DEF RequestInv
    <3> QED BY <1>2, <1>4, <3>1, <3>2
  <2> QED BY <1>1, <1>2, <2>1, <2>2, RequestFrame
<1> QED
  BY <1>1, <1>2, <1>5, <1>6, <1>7, SocketFrame, PendingSame DEF Inv, TypeInv, socketVars

\* An execution context comes up.
LEMMA ContextCreatedInv == ASSUME Inv, NEW s \in Sessions, ContextCreated(s) PROVE Inv'
<1>1. TypeInv /\ SocketInv /\ PendingInv /\ RequestInv /\ MapInv
  BY DEF Inv
<1>2. /\ contexts' = contexts \cup {s}
      /\ UNCHANGED <<loopback_cdp_url, socketVars, target_sessions, session_targets,
                     loopbackPending, browserVars>>
  BY DEF ContextCreated
<1>3. call \in [Callers -> Records] /\ \A k \in Callers : Good(call[k])
  BY <1>1 DEF TypeInv, TypeOK
<1> DEFINE None == {}
<1>4. ASSUME NEW k \in Callers
      PROVE \/ call'[k] = call[k]
            \/ /\ Stays(call[k], call'[k]) /\ call'[k].at = call[k].at
               /\ call'[k].ws = call[k].ws
            \/ /\ Follows(call[k], call'[k]) /\ call[k].at # "answer"
  <2> DEFINE c == call[k]
             u == [c EXCEPT !.context = "known"]
  <2>1. call'[k] = IF c.session # s \/ c.context # "waiting" THEN c
                   ELSE IF c.at = "context" THEN Doing(u, "verify") ELSE u
    BY DEF ContextCreated
  <2>2. /\ u \in Records /\ u.at = c.at /\ u.kind = c.kind /\ u.ws = c.ws
        /\ u.op = c.op /\ u.target = c.target /\ u.session = c.session
    BY <1>3, ContextChange
  <2>3. Good(c)
    BY <1>3
  <2> HIDE DEF c, u
  <2>4. Stays(c, u) /\ u.at = c.at /\ u.ws = c.ws
    <3>1. Good(u)
      BY <2>2, <2>3 DEF Good, Before
    <3> QED BY <2>2, <3>1 DEF Stays
  <2>5. c.at = "context" => Follows(c, Doing(u, "verify"))
    <3>1. "verify" \in Ops
      BY DEF Ops
    <3> QED BY <2>2, <2>3, <3>1, DoingFields DEF Follows, Good, Before, Past, Over
  <2> QED BY <2>1, <2>4, <2>5 DEF c
<1>5. \A k \in Callers : Good(call'[k])
  BY <1>3, <1>4 DEF Stays, Follows
<1>6. call' \in [Callers -> Records]
  <2>1. \A k \in Callers : call'[k] \in Records
    BY <1>5 DEF Good
  <2> QED BY <2>1 DEF ContextCreated
<1>7. SocketsStay /\ UNCHANGED <<requests, serves, attached>>
  BY <1>2 DEF SocketsStay, socketVars, browserVars
<1>8. PendingInv'
  <2>1. loopbackPending' = loopbackPending \ None /\ \A k \in Callers : k \notin None
    BY <1>2
  <2>2. \A k \in Callers :
          \/ call[k].at # "answer" /\ call'[k].at \notin {"have", "answer"}
          \/ /\ call'[k].at = call[k].at /\ call'[k].ws = call[k].ws
             /\ call'[k].op = call[k].op /\ call'[k].kind = call[k].kind
    BY <1>4 DEF Stays, Follows
  <2> HIDE DEF None
  <2> QED BY <1>1, <1>7, <2>1, <2>2, PendingFrame
<1>9. RequestInv'
  <2>1. requests' \in [Sockets -> SUBSET Requests]
    BY <1>1, <1>7 DEF TypeInv, TypeOK
  <2> QED BY <1>1, <1>4, <1>7, <2>1, RequestFrame
<1>10. TypeOK'
  BY <1>1, <1>2, <1>6 DEF TypeInv, TypeOK, socketVars, browserVars
<1> QED
  BY <1>1, <1>2, <1>5, <1>8, <1>9, <1>10, SocketFrame, MapFrame
  DEF Inv, TypeInv, socketVars, browserVars

-----------------------------------------------------------------------------
(* Answers.                                                                 *)

\* The answer to r is taken from the socket, and moves the caller on if it is
\* the one that the caller waits for.
LEMMA AnswerFrame ==
    ASSUME TypeInv, PendingInv, RequestInv, NEW w \in Sockets, NEW r \in requests[w],
           requests' = [requests EXCEPT ![w] = @ \ {r}],
           UNCHANGED <<ready, serves, attached>>,
           \A k \in Callers : k # r.caller => call'[k] = call[k],
           \/ /\ Awaited(r) /\ Follows(call[r.caller], call'[r.caller])
              /\ loopbackPending' = loopbackPending \ {r.caller}
           \/ ~Awaited(r) /\ UNCHANGED <<call, loopbackPending>>
    PROVE /\ requests' \in [Sockets -> SUBSET Requests]
          /\ \A v \in Sockets : \A x \in requests'[v] : x.op = "attach" => x.target \in Targets
          /\ loopbackPending' \in SUBSET Callers
          /\ PendingInv' /\ RequestInv'
<1>1. /\ requests'[w] = requests[w] \ {r}
      /\ \A v \in Sockets \ {w} : requests'[v] = requests[v]
  BY DEF TypeInv, TypeOK
<1>2. /\ requests' \in [Sockets -> SUBSET Requests] /\ r.caller \in Callers
      /\ loopbackPending' \in SUBSET Callers
  BY DEF TypeInv, TypeOK, Requests
<1>3. \A v \in Sockets : \A x \in requests'[v] : x.op = "attach" => x.target \in Targets
  BY <1>1 DEF TypeInv, TypeOK
<1>4. RequestInv'
  <2>1. \A v \in Sockets : requests'[v] \subseteq requests[v]
    BY <1>1
  <2> QED BY <1>2, <2>1, RequestFrame
<1>5. PendingInv'
  <2>1. \A k \in Callers :
          \/ call'[k] = call[k] /\ (k \in loopbackPending' <=> k \in loopbackPending)
          \/ k = r.caller /\ call'[k].at \notin {"have", "answer"} /\ k \notin loopbackPending'
    BY DEF Follows
  <2>2. ASSUME NEW k \in Callers, k \in loopbackPending'
        PROVE \E x \in requests'[call'[k].ws] : x.caller = k /\ Awaited(x)'
    <3>1. k \in loopbackPending /\ call'[k] = call[k]
      BY <2>1, <2>2
    <3>2. PICK x \in requests[call[k].ws] : x.caller = k /\ Awaited(x)
      BY <3>1 DEF PendingInv, PendingCanBeAnswered
    <3>3. x # r
      BY <1>2, <2>2, <3>2
    <3>4. Awaited(x)'
      BY <2>2, <3>1, <3>2 DEF Awaited
    <3>5. call[k].ws \in Sockets
      BY <3>1 DEF PendingInv, PendingCanBeAnswered
    <3> QED BY <1>1, <3>1, <3>2, <3>3, <3>4, <3>5
  <2>3. \A k \in Callers :
          /\ k \in loopbackPending' <=> call'[k].at = "answer"
          /\ k \in loopbackPending' => ready'[call'[k].ws] \in {"open", "closing"}
          /\ call'[k].at = "have" => ready'[call'[k].ws] = "open"
          /\ call'[k].at \in {"have", "answer"} => call'[k].ws \in Sockets
    BY <2>1 DEF PendingInv, PendingCanBeAnswered
  <2> QED BY <2>2, <2>3 DEF PendingInv, PendingCanBeAnswered
<1> QED BY <1>2, <1>3, <1>4, <1>5

\* The caller of an awaited answer.
LEMMA AwaitedCaller ==
    ASSUME TypeInv, PendingInv, NEW w \in Sockets, NEW r \in requests[w], Awaited(r)
    PROVE /\ r \in Requests /\ r.caller \in Callers /\ call \in [Callers -> Records]
          /\ Good(call[r.caller]) /\ call[r.caller].at = "answer"
          /\ call[r.caller].op = r.op /\ call[r.caller].kind = r.kind
<1>1. r \in Requests /\ r.caller \in Callers
  BY DEF TypeInv, TypeOK, Requests
<1> QED BY <1>1 DEF TypeInv, TypeOK, Awaited, PendingInv, PendingCanBeAnswered

\* A browser answers.
LEMMA AnswerInv ==
    ASSUME Inv, NEW w \in Sockets, NEW r \in requests[w], Answer(w, r)
    PROVE Inv'
<1> DEFINE c == call[r.caller]
<1>1. TypeInv /\ SocketInv /\ PendingInv /\ RequestInv /\ MapInv
  BY DEF Inv
<1>2. /\ r.op = "attach" => r.session # NoSession
      /\ requests' = [requests EXCEPT ![w] = @ \ {r}]
      /\ enabled' = [enabled EXCEPT ![w] = @ \cup ({r.op} \cap {"autoAttach", "discover"})]
      /\ UNCHANGED <<loopback_cdp_url, ready, endpoint, loopbackSockets, loopbackPromises,
                     contexts, attached, serves>>
  BY DEF Answer
<1>3. enabled' \in [Sockets -> SUBSET {"autoAttach", "discover"}]
  <2>1. enabled \in [Sockets -> SUBSET {"autoAttach", "discover"}]
    BY <1>1 DEF TypeInv, TypeOK
  <2> QED BY <1>2, <2>1
<1>4. CASE Awaited(r)
  <2>1. /\ r \in Requests /\ r.caller \in Callers /\ call \in [Callers -> Records]
        /\ Good(c) /\ c.at = "answer" /\ c.op = r.op /\ c.kind = r.kind
    BY <1>1, <1>4, AwaitedCaller
  <2>2. PICK d \in Continued(c, r.session) : call' = [call EXCEPT ![r.caller] = d]
    BY <1>4 DEF Answer
  <2>3. r.session \in Sessions \cup {NoSession}
    BY <2>1 DEF Requests
  <2>4. Follows(c, d)
    BY <1>1, <1>2, <2>1, <2>2, <2>3, ContinuedFollows DEF TypeInv
  <2>5. /\ loopbackPending' = loopbackPending \ {r.caller}
        /\ initialized' = initialized \cup Marked(c)
    BY <1>4 DEF Answer
  <2>6. call'[r.caller] = d /\ \A k \in Callers : k # r.caller => call'[k] = call[k]
    BY <2>1, <2>2
  <2>7. (\A k \in Callers : Good(call'[k])) /\ call' \in [Callers -> Records]
    <3>1. \A k \in Callers : Good(call'[k])
      BY <1>1, <2>1, <2>4, <2>6 DEF TypeInv, Follows
    <3>2. d \in Records
      BY <2>4 DEF Follows, Good
    <3> QED BY <2>1, <2>2, <3>1, <3>2
  <2>8. initialized' \in SUBSET (Sockets \cup {NoSocket})
    <3>1. c.init \in Sockets \cup {NoSocket}
      BY <2>1 DEF Records
    <3> QED BY <1>1, <2>5, <3>1 DEF Marked, TypeInv, TypeOK
  <2>9. /\ requests' \in [Sockets -> SUBSET Requests]
        /\ \A v \in Sockets : \A x \in requests'[v] : x.op = "attach" => x.target \in Targets
        /\ loopbackPending' \in SUBSET Callers
        /\ PendingInv' /\ RequestInv'
    <3>1. Follows(call[r.caller], call'[r.caller])
      BY <2>4, <2>6
    <3> QED BY <1>1, <1>2, <1>4, <2>5, <2>6, <3>1, AnswerFrame
  <2>10. /\ target_sessions' \in [Targets -> Sessions \cup {NoSession}]
         /\ session_targets' \in [Sessions -> Targets \cup {NoTarget}]
         /\ MapInv'
    <3>1. CASE c.op = "attach"
      <4> DEFINE s == r.session
                 t == c.target
      <4>1. /\ target_sessions' = [target_sessions EXCEPT ![t] = s]
            /\ session_targets' = [session_targets EXCEPT ![s] = t]
        BY <1>4, <3>1 DEF Answer, RecordAttached
      <4>2. s \in Sessions /\ t \in Targets
        BY <1>2, <2>1, <2>3, <3>1 DEF Good
      <4>3. serves[s] = t /\ attached[s] = w
        <5>1. c.session = NoSession /\ c.at \notin Over
          BY <2>1, <3>1 DEF Good, Before, Over
        <5>2. Past(c) \/ c.target = r.target
          <6>1. r.op = "attach" /\ c.kind = r.kind
            BY <2>1, <3>1
          <6>2. RequestInv
            BY <1>1
          <6> QED BY <6>1, <6>2 DEF RequestInv
        <5>3. c.target = r.target
          BY <5>1, <5>2 DEF Past
        <5> QED BY <1>1, <1>2, <2>1, <3>1, <5>3 DEF RequestInv
      <4> HIDE DEF s, t
      <4>4. /\ target_sessions' \in [Targets -> Sessions \cup {NoSession}]
            /\ session_targets' \in [Sessions -> Targets \cup {NoTarget}]
        BY <1>1, <4>1, <4>2 DEF TypeInv, TypeOK
      <4>5. /\ target_sessions'[t] = s /\ session_targets'[s] = t
            /\ \A u \in Targets \ {t} : target_sessions'[u] = target_sessions[u]
            /\ \A x \in Sessions \ {s} : session_targets'[x] = session_targets[x]
        BY <1>1, <4>1, <4>2 DEF TypeInv, TypeOK
      <4>6. ASSUME NEW u \in Targets, target_sessions'[u] # NoSession
            PROVE LET x == target_sessions'[u]
                  IN  serves'[x] = u /\ attached'[x] # NoSocket /\ session_targets'[x] = u
        <5>1. CASE u = t
          BY <1>2, <4>3, <4>5, <5>1, ConstantsAssumption
        <5>2. CASE u # t
          <6>1. /\ target_sessions'[u] = target_sessions[u]
                /\ target_sessions[u] \in Sessions
            BY <1>1, <4>4, <4>5, <4>6, <5>2
          <6>2. /\ serves[target_sessions[u]] = u /\ attached[target_sessions[u]] # NoSocket
                /\ session_targets[target_sessions[u]] = u
            BY <1>1, <4>6, <6>1 DEF MapInv
          <6>3. target_sessions[u] # s
            BY <4>3, <5>2, <6>2
          <6> QED BY <1>2, <4>5, <6>1, <6>2, <6>3
        <5> QED BY <5>1, <5>2
      <4> QED BY <4>4, <4>6 DEF MapInv
    <3>2. CASE c.op # "attach"
      <4>1. UNCHANGED <<target_sessions, session_targets>>
        BY <1>4, <3>2 DEF Answer
      <4> QED BY <1>1, <1>2, <4>1, MapFrame DEF TypeInv, TypeOK
    <3> QED BY <3>1, <3>2
  <2>11. TypeOK'
    BY <1>1, <1>2, <1>3, <2>7, <2>8, <2>9, <2>10 DEF TypeInv, TypeOK
  <2> QED
    BY <1>1, <1>2, <2>7, <2>9, <2>10, <2>11, SocketFrame DEF Inv, TypeInv
<1>5. CASE ~Awaited(r)
  <2>1. UNCHANGED <<call, loopbackPending, initialized, target_sessions, session_targets>>
    BY <1>5 DEF Answer
  <2>2. /\ requests' \in [Sockets -> SUBSET Requests]
        /\ \A v \in Sockets : \A x \in requests'[v] : x.op = "attach" => x.target \in Targets
        /\ PendingInv' /\ RequestInv'
    BY <1>1, <1>2, <1>5, <2>1, AnswerFrame
  <2>3. TypeOK'
    BY <1>1, <1>2, <1>3, <2>1, <2>2 DEF TypeInv, TypeOK
  <2> QED
    BY <1>1, <1>2, <2>1, <2>2, <2>3, SocketFrame, MapFrame DEF Inv, TypeInv
<1> QED BY <1>4, <1>5

\* A browser answers with an error, or with what its caller cannot use.
LEMMA AnswerThrowsInv ==
    ASSUME Inv, NEW w \in Sockets, NEW r \in requests[w], AnswerThrows(w, r)
    PROVE Inv'
<1> DEFINE K == {r.caller}
<1>1. TypeInv /\ SocketInv /\ PendingInv /\ RequestInv /\ MapInv
  BY DEF Inv
<1>2. /\ requests' = [requests EXCEPT ![w] = @ \ {r}]
      /\ UNCHANGED <<socketVars, tableVars, enabled, attached, serves>>
  BY DEF AnswerThrows
<1>3. UNCHANGED <<ready, serves, attached>>
  BY <1>2 DEF socketVars
<1>4. CASE Awaited(r)
  <2>1. /\ r.caller \in Callers /\ call[r.caller].at = "answer"
        /\ K \subseteq Callers /\ \A k \in Callers : k \in K => call[k].at \notin Over
    BY <1>1, <1>4, AwaitedCaller DEF Over
  <2>2. Throw(K) /\ loopbackPending' = loopbackPending \ K
    BY <1>4 DEF AnswerThrows
  <2>3. r.caller \in K /\ \A k \in Callers : k # r.caller => k \notin K
    OBVIOUS
  <2>4. loopbackPending' = loopbackPending \ {r.caller}
    BY <2>2
  <2> HIDE DEF K
  <2>5. /\ call' \in [Callers -> Records] /\ \A k \in Callers : Good(call'[k])
        /\ \A k \in Callers : k \notin K => call'[k] = call[k]
        /\ \A k \in Callers : k \in K => Follows(call[k], call'[k])
    BY <1>1, <2>1, <2>2, ThrowMoves
  <2>6. loopback_cdp_url' \in Endpoints \cup {NoEndpoint}
    BY <1>1, <2>1, <2>2, ForgottenType DEF Throw, TypeInv
  <2>7. /\ requests' \in [Sockets -> SUBSET Requests]
        /\ \A v \in Sockets : \A x \in requests'[v] : x.op = "attach" => x.target \in Targets
        /\ loopbackPending' \in SUBSET Callers
        /\ PendingInv' /\ RequestInv'
    BY <1>1, <1>2, <1>3, <1>4, <2>1, <2>3, <2>4, <2>5, AnswerFrame
  <2>8. TypeOK'
    BY <1>1, <1>2, <2>5, <2>6, <2>7 DEF TypeInv, TypeOK, socketVars, tableVars
  <2> QED
    BY <1>1, <1>2, <2>5, <2>7, <2>8, SocketFrame, MapFrame
    DEF Inv, TypeInv, socketVars, tableVars
<1>5. CASE ~Awaited(r)
  <2>1. UNCHANGED <<loopbackPending, call, loopback_cdp_url>>
    BY <1>5 DEF AnswerThrows
  <2>2. /\ requests' \in [Sockets -> SUBSET Requests]
        /\ \A v \in Sockets : \A x \in requests'[v] : x.op = "attach" => x.target \in Targets
        /\ PendingInv' /\ RequestInv'
    BY <1>1, <1>2, <1>3, <1>5, <2>1, AnswerFrame
  <2>3. TypeOK'
    BY <1>1, <1>2, <2>1, <2>2 DEF TypeInv, TypeOK, socketVars, tableVars
  <2> QED
    BY <1>1, <1>2, <2>1, <2>2, <2>3, SocketFrame, MapFrame
    DEF Inv, TypeInv, socketVars, tableVars
<1> QED BY <1>4, <1>5

-----------------------------------------------------------------------------
(* The theorems.                                                            *)

\* Every step of the worker and of its browsers keeps the invariant.
LEMMA NextInv == Inv /\ [Next]_vars => Inv'
<1> SUFFICES ASSUME Inv, [Next]_vars PROVE Inv'
  OBVIOUS
<1>1. ASSUME NEW k \in Callers, NEW t \in Forms, StartCommand(k, t) PROVE Inv'
  BY <1>1, StartCommandInv
<1>2. ASSUME NEW k \in Callers, NEW e \in Endpoints, StartConfigure(k, e) PROVE Inv'
  BY <1>2, StartConfigureInv
<1>3. ASSUME NEW k \in Callers, StartDiscover(k) PROVE Inv'
  BY <1>3, StartDiscoverInv
<1>4. ASSUME NEW k \in Callers, Fetched(k) \/ FetchFailed(k) PROVE Inv'
  BY <1>4, FetchedInv, FetchFailedInv
<1>5. ASSUME NEW k \in Callers, GetSocket(k) PROVE Inv'
  BY <1>5, GetSocketInv
<1>6. ASSUME NEW k \in Callers, HaveSocket(k) PROVE Inv'
  BY <1>6, HaveInitSocket, SendInv
<1>7. ASSUME NEW k \in Callers, Timeout(k) \/ ContextTimeout(k) \/ TabsAnswer(k) PROVE Inv'
  BY <1>7, TimeoutInv, ContextTimeoutInv, TabsAnswerInv
<1>8. ASSUME NEW w \in Sockets, SocketOpens(w) \/ DialFails(w) PROVE Inv'
  BY <1>8, SocketOpensInv, DialFailsInv
<1>9. ASSUME NEW w \in Sockets, SocketClosing(w) \/ SocketLost(w) PROVE Inv'
  BY <1>9, SocketClosingInv, SocketLostInv
<1>10. ASSUME NEW w \in Sockets, NEW s \in Sessions, NEW t \in Targets, AutoAttached(w, s, t)
       PROVE Inv'
  BY <1>10, AutoAttachedInv
<1>11. ASSUME NEW w \in Sockets, NEW s \in Sessions, NEW r \in requests[w],
              AttachedAsRequested(w, r, s)
       PROVE Inv'
  BY <1>11, AttachedAsRequestedInv
<1>12. ASSUME NEW s \in Sessions, Detached(s) \/ ContextCreated(s) PROVE Inv'
  BY <1>12, DetachedInv, ContextCreatedInv
<1>13. ASSUME NEW w \in Sockets, NEW r \in requests[w], Answer(w, r) \/ AnswerThrows(w, r)
       PROVE Inv'
  BY <1>13, AnswerInv, AnswerThrowsInv
<1>14. CASE UNCHANGED vars
  <2>1. UNCHANGED <<loopback_cdp_url, socketVars, tableVars, loopbackPending, call, browserVars>>
    BY <1>14 DEF vars
  <2>2. TypeInv' /\ SocketInv' /\ PendingInv' /\ MapInv'
    BY <2>1, SocketFrame, MapFrame, PendingSame
    DEF Inv, TypeInv, TypeOK, socketVars, tableVars, browserVars
  <2>3. RequestInv'
    BY <2>1 DEF Inv, RequestInv, browserVars
  <2> QED BY <2>2, <2>3 DEF Inv
<1> QED
  BY <1>1, <1>2, <1>3, <1>4, <1>5, <1>6, <1>7, <1>8, <1>9, <1>10, <1>11, <1>12, <1>13, <1>14
  DEF Next

\* The invariant holds throughout.
LEMMA Invariance == Spec => []Inv
BY InitInv, NextInv, PTL DEF Spec

\* Every variable stays in its domain, and every request to attach names a target.
THEOREM TypeCorrect == Spec => []TypeOK
<1>1. Inv => TypeOK
  BY DEF Inv, TypeInv
<1> QED BY <1>1, Invariance, PTL

\* However callers, dials and losses overlap, an endpoint never has two sockets
\* that connect or are open (loopbackWS).
THEOREM SocketsShared == Spec => []OneSocketPerEndpoint
<1>1. Inv => OneSocketPerEndpoint
  BY DEF Inv, SocketInv
<1> QED BY <1>1, Invariance, PTL

\* A caller in loopbackPending waits for an answer that can still come: no loss
\* of a socket leaves one behind (rejectLoopbackPending).
THEOREM PendingAnswerable == Spec => []PendingCanBeAnswered
<1>1. Inv => PendingCanBeAnswered
  BY DEF Inv, PendingInv
<1> QED BY <1>1, Invariance, PTL

\* Every entry of loopbackTargetSessions names a session attached to its target
\* on a socket that is not lost.
THEOREM MappedAreAttached == Spec => []MappedSessionsAttached
<1>1. Inv => MappedSessionsAttached
  BY DEF Inv, MapInv, MappedSessionsAttached
<1> QED BY <1>1, Invariance, PTL

-----------------------------------------------------------------------------
(* A discovery that runs alone.                                             *)

\* No configure() names an endpoint, and the local one is not the worker's own.
Alien == Local \notin Own /\ "configure" \notin Kinds

\* What a discovery may find and restore.
Known(e) == e \in {NoEndpoint, Local}

\* A configure() without routes is a discovery until that ends; a discovery that is not
\* verified goes through four commands.
Candidate(c) ==
    /\ c.at = "idle" => c.kind = "auto"
    /\ c.kind = "discover" => c.at = "fetch" \/ c.op \in {"getTargets", "attach", "enable", "verify"}
    /\ Known(c.previous)

\* What a caller counts as in Discoverers.
Role(c) == IF c.kind \in {"discover", "configure"} THEN c.kind ELSE "command"

\* One caller at most discovers.
Sole == \A j, k \in Discoverers : j = k

\* The discovery that is under way will restore another endpoint than the local one; when
\* none is, the local one is not in use.
Kept ==
    /\ \A k \in Callers : call[k].kind = "discover" =>
         call[k].previous # Local /\ (call[k].at = "fetch" => loopback_cdp_url # Local)
    /\ (\A k \in Callers : call[k].kind # "discover") => loopback_cdp_url # Local

\* Nothing but the local endpoint is ever in use or dialled.
EndpointsKnown == Known(loopback_cdp_url) /\ \A w \in Sockets : Known(endpoint[w])

\* The invariant.  A kept promise needs a sole discovery, the rest does not.
DiscoveryInv ==
    Alien => EndpointsKnown /\ (\A k \in Callers : Candidate(call[k])) /\ (Sole => Kept)

\* A move after which a discovery still remembers what it found, and any other caller
\* stays what it is.
Calm(c, d) ==
    /\ Candidate(d) /\ Role(d) = Role(c)
    /\ c.kind = "discover" => d.previous = c.previous /\ (d.at = "fetch" => c.at = "fetch")

\* Calm moves keep what a discovery relies on.
LEMMA CalmStep ==
    ASSUME DiscoveryInv, UNCHANGED loopback_cdp_url,
           Alien => \A w \in Sockets : Known(endpoint'[w]),
           Alien => \A k \in Callers : call'[k] = call[k] \/ Calm(call[k], call'[k])
    PROVE  DiscoveryInv'
<1> SUFFICES ASSUME Alien
             PROVE  EndpointsKnown' /\ (\A k \in Callers : Candidate(call'[k])) /\ (Sole' => Kept')
    BY DEF DiscoveryInv, Alien, Candidate, Known
<1>1. EndpointsKnown'
    BY DEF DiscoveryInv, EndpointsKnown, Known
<1>2. \A k \in Callers : Candidate(call'[k])
    BY DEF DiscoveryInv, Calm
<1>3. \A k \in Callers : Role(call'[k]) = Role(call[k])
    BY DEF Calm
<1>4. Discoverers' = Discoverers
    BY <1>3 DEF Discoverers, Role
<1>5. \A k \in Callers : call'[k].kind = "discover" <=> call[k].kind = "discover"
    BY <1>3 DEF Role
<1>6. ASSUME Sole PROVE Kept'
    BY <1>5, <1>6 DEF Calm, DiscoveryInv, Kept
<1> QED BY <1>1, <1>2, <1>4, <1>6 DEF Sole

\* What becomes of a caller that throws.
LEMMA ThrownRole ==
    ASSUME NEW c, Good(c), Candidate(c), c.at \notin Over
    PROVE  /\ Candidate(Thrown(c)) /\ Thrown(c).kind # "discover"
           /\ Role(Thrown(c)) = IF c.kind = "discover" THEN "configure" ELSE Role(c)
<1>1. c \in Records
    BY DEF Good
<1>2. CASE c.op = "attachAuto"
    <2>1. Thrown(c) = Doing(c, "method") /\ c.kind # "discover"
        BY <1>2 DEF Thrown, Good
    <2>2. /\ Thrown(c).kind = c.kind /\ Thrown(c).at = "socket"
          /\ Thrown(c).previous = c.previous
        BY <1>1, <2>1 DEF Doing, Records
    <2> QED BY <2>1, <2>2 DEF Candidate, Role
<1>3. CASE c.op # "attachAuto" /\ c.kind = "discover"
    <2>1. Thrown(c) = Doing(Fresh("configure", "socket"), "init")
        BY <1>3 DEF Thrown
    <2>2. /\ Thrown(c).kind = "configure" /\ Thrown(c).at = "socket"
          /\ Thrown(c).previous = NoEndpoint
        BY <2>1 DEF Doing, Fresh
    <2> QED BY <1>3, <2>2 DEF Candidate, Role, Known
<1>4. CASE c.op # "attachAuto" /\ c.kind # "discover"
    <2>1. Thrown(c) = Fresh(c.kind, "debugger") \/ Thrown(c) = Fresh(c.kind, "rejected")
        BY <1>4 DEF Thrown, Ended
    <2>2. /\ Thrown(c).kind = c.kind /\ Thrown(c).at \in {"debugger", "rejected"}
          /\ Thrown(c).previous = NoEndpoint
        BY <2>1 DEF Fresh
    <2> QED BY <1>4, <2>2 DEF Candidate, Role, Known
<1> QED BY <1>2, <1>3, <1>4

\* The callers K throw: a discovery among them restores what it found.
LEMMA ThrowKeeps ==
    ASSUME TypeInv, DiscoveryInv, NEW K, K \subseteq Callers, \A k \in K : call[k].at \notin Over,
           Throw(K), UNCHANGED endpoint
    PROVE  DiscoveryInv'
<1>0. \A k \in Callers : Good(call[k])
    BY DEF TypeInv
<1>1. /\ call' = [k \in Callers |-> IF k \in K THEN Thrown(call[k]) ELSE call[k]]
      /\ loopback_cdp_url' \in Forgotten(K)
    BY DEF Throw
<1> DEFINE D == {k \in K : call[k].kind = "discover"}
<1>2. CASE D = {}
    <2>1. UNCHANGED loopback_cdp_url
        BY <1>1, <1>2 DEF Forgotten
    <2>2. ASSUME Alien, NEW k \in Callers PROVE call'[k] = call[k] \/ Calm(call[k], call'[k])
        <3>1. CASE k \in K
            <4>1. Candidate(call[k]) /\ call[k].kind # "discover" /\ Good(call[k]) /\ call[k].at \notin Over
                BY <1>0, <1>2, <2>2, <3>1 DEF DiscoveryInv
            <4> QED BY <1>1, <3>1, <4>1, ThrownRole DEF Calm
        <3> QED BY <1>1, <3>1
    <2>3. Alien => \A w \in Sockets : Known(endpoint'[w])
        BY DEF DiscoveryInv, EndpointsKnown
    <2> QED BY <2>1, <2>2, <2>3, CalmStep
<1>3. CASE D # {}
    <2> SUFFICES ASSUME Alien
                 PROVE  EndpointsKnown' /\ (\A k \in Callers : Candidate(call'[k])) /\ (Sole' => Kept')
        BY DEF DiscoveryInv, Alien, Candidate, Known
    <2>0. \A k \in Callers : Candidate(call[k])
        BY DEF DiscoveryInv
    <2>1. PICK k \in D : loopback_cdp_url' = call[k].previous
        BY <1>1, <1>3 DEF Forgotten
    <2>2. \A j \in Callers : /\ Candidate(call'[j])
                             /\ j \in K => call'[j].kind # "discover"
                             /\ j \notin K => call'[j] = call[j]
                             /\ Role(call'[j]) = IF j \in D THEN "configure" ELSE Role(call[j])
        <3> TAKE j \in Callers
        <3>1. CASE j \in K
            BY <1>0, <1>1, <2>0, <3>1, ThrownRole
        <3>2. CASE j \notin K
            BY <1>1, <2>0, <3>2
        <3> QED BY <3>1, <3>2
    <2>3. EndpointsKnown'
        <3>1. Known(call[k].previous)
            BY <2>0, <2>1 DEF Candidate
        <3> QED BY <2>1, <3>1 DEF DiscoveryInv, EndpointsKnown, Known
    <2>4. Discoverers' = Discoverers
        <3>1. \A j \in Callers : Role(call'[j]) = "command" <=> Role(call[j]) = "command"
            BY <2>2 DEF Role
        <3> QED BY <3>1 DEF Discoverers, Role
    <2>5. ASSUME Sole PROVE Kept'
        <3>1. k \in Discoverers /\ call[k].previous # Local
            BY <2>1, <2>5 DEF DiscoveryInv, Kept, Discoverers
        <3>2. \A j \in Callers : call'[j].kind # "discover"
            <4> TAKE j \in Callers
            <4>1. CASE j \in K
                BY <2>2, <4>1
            <4>2. CASE j \notin K
                <5>1. j # k /\ call'[j] = call[j]
                    BY <2>1, <2>2, <4>2
                <5>2. j \notin Discoverers
                    BY <2>5, <3>1, <5>1 DEF Sole
                <5> QED BY <5>1, <5>2 DEF Discoverers
            <4> QED BY <4>1, <4>2
        <3> QED BY <2>1, <3>1, <3>2 DEF Kept
    <2> QED BY <2>2, <2>3, <2>4, <2>5 DEF Sole
<1> QED BY <1>2, <1>3

-----------------------------------------------------------------------------
\* A move within a command.
LEMMA CalmChange ==
    ASSUME NEW c, NEW d, Candidate(c), d.at = c.at \/ (c.at # "fetch" /\ d.at \notin {"fetch", "idle"}),
           d.kind = c.kind, d.op = c.op, d.previous = c.previous
    PROVE  Calm(c, d)
    BY DEF Calm, Candidate, Role

\* A move to the next command.
LEMMA CalmDoing ==
    ASSUME NEW c \in Records, NEW d \in Records, Candidate(c), d.kind = c.kind,
           d.previous = c.previous, NEW o \in Ops,
           c.kind = "discover" => o \in {"getTargets", "attach", "enable", "verify"}
    PROVE  Calm(c, Doing(d, o))
<1>1. /\ Doing(d, o).kind = c.kind /\ Doing(d, o).previous = c.previous
      /\ Doing(d, o).op = o /\ Doing(d, o).at = "socket"
    BY DEF Doing, Records
<1> QED BY <1>1 DEF Calm, Candidate, Role

\* A command goes on with its target.
LEMMA CalmWithTarget ==
    ASSUME NEW c \in Records, Candidate(c), c.kind # "discover", NEW t
    PROVE  Calm(c, WithTarget(c, t))
<1>1. /\ WithTarget(c, t).kind = c.kind /\ WithTarget(c, t).previous = c.previous
      /\ WithTarget(c, t).at = "socket"
    BY DEF WithTarget, Doing, Records
<1> QED BY <1>1 DEF Calm, Candidate, Role

\* initializeLoopbackCDP returns to a caller that is no discovery.
LEMMA CalmInitialized ==
    ASSUME NEW c \in Records, Candidate(c), c.kind # "discover"
    PROVE  Calm(c, Initialized(c))
<1>1. CASE c.kind = "configure"
    <2>1. Initialized(c) = Fresh("configure", "resolved")
        BY <1>1 DEF Initialized, Ended
    <2> QED BY <1>1, <2>1 DEF Fresh, Calm, Candidate, Role, Known
<1>2. CASE c.kind # "configure" /\ c.target = NoTarget
    <2>1. Initialized(c) = Doing(c, "method") /\ "method" \in Ops
        BY <1>2 DEF Initialized, Ops
    <2> QED BY <2>1, CalmDoing
<1>3. CASE c.kind # "configure" /\ c.target # NoTarget /\ c.target = Unresolved
    <2>1. Initialized(c) = [c EXCEPT !.at = "tabs"]
        BY <1>3 DEF Initialized
    <2>2. /\ Initialized(c).kind = c.kind /\ Initialized(c).at = "tabs"
          /\ Initialized(c).previous = c.previous
        BY <2>1 DEF Records
    <2> QED BY <2>2 DEF Calm, Candidate, Role
<1>4. CASE c.kind # "configure" /\ c.target \notin {NoTarget, Unresolved}
    <2>1. Initialized(c) = WithTarget(c, c.target)
        BY <1>4 DEF Initialized
    <2> QED BY <2>1, CalmWithTarget
<1> QED BY <1>1, <1>2, <1>3, <1>4

\* An answer moves its caller on; that to "verify" would end a discovery.
LEMMA CalmContinued ==
    ASSUME NEW c, Good(c), Candidate(c), c.at = "answer", NEW s \in Sessions \cup {NoSession},
           c.op = "attach" => s # NoSession, c.op # "verify", NEW d \in Continued(c, s)
    PROVE  Calm(c, d)
<1> USE DEF Ops
<1>1. c \in Records /\ c.op \in Ops /\ c.op # "init"
    BY DEF Good, Records
<1>2. CASE c.op = "autoAttach"
    <2>1. d = Doing(c, "discover")
        BY <1>2 DEF Continued
    <2> QED BY <1>1, <1>2, <2>1, CalmDoing DEF Candidate
<1>3. CASE c.op = "discover"
    <2>1. d = Initialized(c)
        BY <1>3 DEF Continued
    <2> QED BY <1>1, <1>3, <2>1, CalmInitialized DEF Candidate
<1>4. CASE c.op = "getTargets" /\ c.kind = "discover"
    <2>1. d = Doing(c, "attach")
        BY <1>4 DEF Continued
    <2> QED BY <1>1, <2>1, CalmDoing
<1>5. CASE c.op \in {"getTargets", "createTarget"} /\ c.kind # "discover"
    <2>1. d = Doing(c, "createTarget") \/ \E t \in Targets : d = WithTarget(c, t)
        BY <1>5 DEF Continued
    <2> QED BY <1>1, <1>5, <2>1, CalmDoing, CalmWithTarget
<1>6. CASE c.op = "attach"
    <2> DEFINE u == [c EXCEPT !.session = s]
               v == [c EXCEPT !.session = s,
                              !.context = IF s \in contexts THEN "known" ELSE "waiting"]
    <2>1. d = IF c.kind = "discover" THEN Doing(v, "enable") ELSE Doing(u, "attachAuto")
        BY <1>6 DEF Continued
    <2>2. s \in Sessions
        BY <1>6
    <2>3. u \in Records /\ u.kind = c.kind /\ u.previous = c.previous
        BY <1>1, <2>2 DEF Records
    <2>4. v \in Records /\ v.kind = c.kind /\ v.previous = c.previous
        BY <1>1, <2>2, ZenonT(30) DEF Records
    <2> HIDE DEF u, v
    <2> QED BY <1>1, <2>1, <2>3, <2>4, CalmDoing
<1>7. CASE c.op = "attachAuto"
    <2>1. d = Doing(c, "method") /\ c.kind # "discover"
        BY <1>7 DEF Continued, Good
    <2> QED BY <1>1, <2>1, CalmDoing
<1>8. CASE c.op = "method"
    <2>1. d = Fresh(c.kind, "resolved") /\ c.kind # "discover"
        BY <1>8 DEF Continued, Ended, Good
    <2> QED BY <2>1 DEF Fresh, Calm, Candidate, Role, Known
<1>9. CASE c.op = "enable"
    <2> DEFINE u == [c EXCEPT !.at = "context"]
    <2>1. d = Doing(c, "verify") \/ d = u
        BY <1>9 DEF Continued
    <2>2. CASE d = Doing(c, "verify")
        BY <1>1, <2>2, CalmDoing
    <2>3. CASE d = u
        <3>1. /\ u.kind = c.kind /\ u.op = c.op /\ u.previous = c.previous /\ u.at = "context"
            BY <1>1 DEF Records
        <3> QED BY <2>3, <3>1, CalmChange
    <2> QED BY <2>1, <2>2, <2>3
<1>10. ~(c.op = "createTarget" /\ c.kind = "discover")
    BY DEF Good
<1> QED BY <1>1, <1>2, <1>3, <1>4, <1>5, <1>6, <1>7, <1>8, <1>9, <1>10

-----------------------------------------------------------------------------
\* One caller makes a calm move.
LEMMA CalmCaller ==
    ASSUME DiscoveryInv, NEW k \in Callers, NEW d, DOMAIN call = Callers,
           call' = [call EXCEPT ![k] = d], Alien => Calm(call[k], d),
           UNCHANGED loopback_cdp_url, Alien => \A w \in Sockets : Known(endpoint'[w])
    PROVE  DiscoveryInv'
<1>1. call'[k] = d /\ \A j \in Callers : j # k => call'[j] = call[j]
    OBVIOUS
<1>2. Alien => \A j \in Callers : call'[j] = call[j] \/ Calm(call[j], call'[j])
    BY <1>1
<1> QED BY <1>2, CalmStep

\* A command starts.
LEMMA CommandDiscovery ==
    ASSUME Inv, DiscoveryInv, NEW k \in Callers, NEW t \in Forms, StartCommand(k, t)
    PROVE  DiscoveryInv'
<1>1. /\ call \in [Callers -> Records] /\ Good(call[k]) /\ call[k].at = "idle"
      /\ UNCHANGED <<loopback_cdp_url, endpoint>>
    BY DEF Inv, TypeInv, TypeOK, StartCommand, socketVars
<1>2. PICK r \in {"auto", "loopback_cdp"} :
        \E c : /\ c = [call[k] EXCEPT !.kind = r, !.target = t]
               /\ call' = [call EXCEPT ![k] = IF loopback_cdp_url = NoEndpoint THEN Thrown(c)
                                                                        ELSE Doing(c, "init")]
    BY DEF StartCommand
<1>2a. PICK c :
        /\ c = [call[k] EXCEPT !.kind = r, !.target = t]
        /\ call' = [call EXCEPT ![k] = IF loopback_cdp_url = NoEndpoint THEN Thrown(c)
                                                                 ELSE Doing(c, "init")]
    BY <1>2
<1>3. ASSUME Alien PROVE Candidate(call[k]) /\ Role(call[k]) = "command" /\ call[k].kind # "discover"
    BY <1>1, <1>3 DEF DiscoveryInv, Candidate, Role
<1>4. t \in Targets \cup {NoTarget, Unresolved}
    BY ConstantsAssumption
<1>5. c \in Records /\ c.kind = r /\ c.op = "init" /\ c.previous = call[k].previous
    BY <1>1, <1>2a, <1>4 DEF Records, AllKinds, Good
<1>6. Doing(c, "init").kind = r /\ Doing(c, "init").at = "socket" /\ Doing(c, "init").previous = c.previous
    BY <1>5 DEF Doing, Records
<1>7. /\ Thrown(c).kind = r /\ Thrown(c).at \in {"debugger", "rejected"}
      /\ Thrown(c).previous = NoEndpoint
    BY <1>5 DEF Thrown, Ended, Fresh
<1>8. ASSUME Alien PROVE Calm(call[k], Doing(c, "init")) /\ Calm(call[k], Thrown(c))
    BY <1>2, <1>3, <1>5, <1>6, <1>7, <1>8 DEF Calm, Candidate, Role, Known
<1>9. Alien => \A w \in Sockets : Known(endpoint'[w])
    BY <1>1 DEF DiscoveryInv, EndpointsKnown
<1> QED BY <1>1, <1>2a, <1>8, <1>9, CalmCaller

\* A discovery starts: it finds what was in use, which is not the local endpoint when
\* no other is under way.
LEMMA StartDiscovery ==
    ASSUME Inv, DiscoveryInv, NEW k \in Callers, StartDiscover(k)
    PROVE  DiscoveryInv'
<1> SUFFICES ASSUME Alien
             PROVE  EndpointsKnown' /\ (\A j \in Callers : Candidate(call'[j])) /\ (Sole' => Kept')
    BY DEF DiscoveryInv, Alien, Candidate, Known
<1>1. /\ call \in [Callers -> Records] /\ call[k].at = "idle"
      /\ UNCHANGED <<loopback_cdp_url, endpoint>>
    BY DEF Inv, TypeInv, TypeOK, StartDiscover, socketVars, Alien
<1>2. /\ call'[k].kind = "discover" /\ call'[k].at = "fetch" /\ call'[k].previous = loopback_cdp_url
      /\ \A j \in Callers : j # k => call'[j] = call[j]
    BY <1>1 DEF StartDiscover, Records
<1>3. EndpointsKnown /\ \A j \in Callers : Candidate(call[j])
    BY DEF DiscoveryInv
<1>4. EndpointsKnown'
    BY <1>1, <1>3 DEF EndpointsKnown
<1>5. \A j \in Callers : Candidate(call'[j])
    <2>1. Candidate(call'[k])
        BY <1>2, <1>3 DEF Candidate, EndpointsKnown
    <2> QED BY <1>2, <1>3, <2>1
<1>6. ASSUME Sole' PROVE Kept'
    <2>1. k \in Discoverers'
        BY <1>2 DEF Discoverers
    <2>2. \A j \in Callers : j # k => call[j].kind \notin {"discover", "configure"}
        <3> SUFFICES ASSUME NEW j \in Callers, j # k, call[j].kind \in {"discover", "configure"}
                     PROVE  FALSE
            OBVIOUS
        <3>1. j \in Discoverers'
            BY <1>2 DEF Discoverers
        <3> QED BY <1>6, <2>1, <3>1 DEF Sole
    <2>3. call[k].kind = "auto"
        BY <1>1, <1>3 DEF Candidate
    <2>4. \A j \in Callers : call[j].kind \notin {"discover", "configure"}
        BY <2>2, <2>3
    <2>5. Sole
        BY <2>4 DEF Sole, Discoverers
    <2>6. loopback_cdp_url # Local
        BY <2>4, <2>5 DEF DiscoveryInv, Kept
    <2>7. \A j \in Callers : call'[j].kind = "discover" => j = k
        BY <1>2, <2>4
    <2> QED BY <1>1, <1>2, <2>6, <2>7 DEF Kept
<1> QED BY <1>4, <1>5, <1>6

\* The local endpoint comes into use, and the discovery knows what to restore.
LEMMA FetchedDiscovery ==
    ASSUME Inv, DiscoveryInv, NEW k \in Callers, Fetched(k)
    PROVE  DiscoveryInv'
<1> SUFFICES ASSUME Alien
             PROVE  EndpointsKnown' /\ (\A j \in Callers : Candidate(call'[j])) /\ (Sole' => Kept')
    BY DEF DiscoveryInv, Alien, Candidate, Known
<1>1. /\ call \in [Callers -> Records] /\ call[k].at = "fetch" /\ Good(call[k])
      /\ call' = [call EXCEPT ![k] = Doing(call[k], "getTargets")]
      /\ loopback_cdp_url' = Local /\ UNCHANGED endpoint
    BY DEF Inv, TypeInv, TypeOK, Fetched, socketVars
<1>2. \A j \in Callers : Candidate(call[j]) /\ Good(call[j])
    BY DEF DiscoveryInv, Inv, TypeInv
<1>3. /\ call'[k].kind = "discover" /\ call'[k].at = "socket" /\ call'[k].op = "getTargets"
      /\ call'[k].previous = call[k].previous /\ call[k].kind = "discover"
      /\ \A j \in Callers : j # k => call'[j] = call[j]
    BY <1>1 DEF Doing, Records, Good
<1>4. EndpointsKnown'
    BY <1>1 DEF DiscoveryInv, EndpointsKnown, Known
<1>5. \A j \in Callers : Candidate(call'[j])
    BY <1>2, <1>3 DEF Candidate
<1>6. ASSUME Sole' PROVE Kept'
    <2>1. Discoverers' = Discoverers
        BY <1>3 DEF Discoverers
    <2>2. Sole /\ Kept
        BY <1>6, <2>1 DEF Sole, DiscoveryInv
    <2>3. \A j \in Callers : call'[j].kind = "discover" => j = k
        BY <1>3, <2>1, <2>2 DEF Sole, Discoverers
    <2>4. call[k].previous # Local
        BY <1>3, <2>2 DEF Kept
    <2> QED BY <1>3, <2>3, <2>4 DEF Kept
<1> QED BY <1>4, <1>5, <1>6

\* A caller gets its socket, or throws.
LEMMA GetSocketDiscovery ==
    ASSUME Inv, DiscoveryInv, NEW k \in Callers, GetSocket(k)
    PROVE  DiscoveryInv'
<1> DEFINE e == loopback_cdp_url
           c == call[k]
<1>1. /\ TypeInv /\ call \in [Callers -> Records] /\ Good(c) /\ c.at = "socket" /\ c.at \notin Over
      /\ c \in Records /\ DOMAIN call = Callers /\ endpoint \in [Sockets -> Endpoints \cup {NoEndpoint}]
    BY DEF Inv, TypeInv, TypeOK, GetSocket, Over
<1>2. ASSUME Throw({k}), UNCHANGED socketVars PROVE DiscoveryInv'
    BY <1>1, <1>2, ThrowKeeps DEF socketVars
<1>3. Alien => Candidate(c) /\ \A w \in Sockets : Known(endpoint[w])
    BY DEF DiscoveryInv, EndpointsKnown
<1>4. CASE e = NoEndpoint /\ c.op = "init"
    <2>1. call' = [call EXCEPT ![k] = Initialized(c)] /\ UNCHANGED <<loopback_cdp_url, socketVars>>
        BY <1>4 DEF GetSocket
    <2>2. Alien => Calm(c, Initialized(c))
        BY <1>1, <1>3, <1>4, CalmInitialized DEF Candidate
    <2> QED BY <1>1, <1>3, <2>1, <2>2, CalmCaller DEF socketVars
<1>5. CASE e = NoEndpoint /\ c.op # "init"
    BY <1>2, <1>5 DEF GetSocket
<1>6. ASSUME NEW w, NEW at \in {"have", "dialling"},
             call' = [call EXCEPT ![k].ws = w, ![k].at = at]
      PROVE  \E d : call' = [call EXCEPT ![k] = d] /\ (Alien => Calm(c, d))
    <2>1. PICK d : d = [c EXCEPT !.ws = w, !.at = at]
        OBVIOUS
    <2>2. call' = [call EXCEPT ![k] = d]
        BY <1>1, <1>6, <2>1
    <2>3. d.kind = c.kind /\ d.op = c.op /\ d.previous = c.previous /\ d.at = at
        BY <1>1, <2>1 DEF Records
    <2>4. Alien => Calm(c, d)
        BY <1>1, <1>3, <2>3, CalmChange
    <2> QED BY <2>2, <2>4
<1>7. ASSUME NEW w, NEW at \in {"have", "dialling"},
             call' = [call EXCEPT ![k].ws = w, ![k].at = at], UNCHANGED loopback_cdp_url,
             Alien => \A v \in Sockets : Known(endpoint'[v])
      PROVE  DiscoveryInv'
    BY <1>1, <1>6, <1>7, CalmCaller
<1>8. CASE e # NoEndpoint /\ HasOpenSocket(e)
    BY <1>3, <1>7, <1>8 DEF GetSocket, socketVars
<1>9. CASE e # NoEndpoint /\ ~HasOpenSocket(e) /\ Cached(e)
    <2>1. CASE ready[loopbackPromises[e]] = "connecting"
        BY <1>3, <1>7, <1>9, <2>1 DEF GetSocket, socketVars
    <2> QED BY <1>2, <1>9, <2>1 DEF GetSocket
<1>10. CASE e # NoEndpoint /\ ~HasOpenSocket(e) /\ ~Cached(e)
    <2>1. PICK w \in Sockets :
            /\ endpoint' = [endpoint EXCEPT ![w] = e]
            /\ call' = [call EXCEPT ![k].ws = w, ![k].at = "dialling"]
        BY <1>10 DEF GetSocket
    <2>2. UNCHANGED loopback_cdp_url
        BY <1>10 DEF GetSocket
    <2>3. Alien => \A v \in Sockets : Known(endpoint'[v])
        BY <1>1, <1>3, <2>1 DEF DiscoveryInv, EndpointsKnown
    <2> QED BY <1>7, <2>1, <2>2, <2>3
<1> QED BY <1>4, <1>5, <1>8, <1>9, <1>10

\* A caller sends on its socket.
LEMMA HaveSocketDiscovery ==
    ASSUME Inv, DiscoveryInv, NEW k \in Callers, HaveSocket(k)
    PROVE  DiscoveryInv'
<1> DEFINE c == call[k]
           w == c.ws
<1>1. /\ call \in [Callers -> Records] /\ Good(c) /\ c.at = "have" /\ c \in Records
      /\ DOMAIN call = Callers /\ UNCHANGED <<loopback_cdp_url, endpoint>> /\ w \in Sockets
    BY DEF Inv, TypeInv, TypeOK, HaveSocket, socketVars, PendingInv
<1>2. Alien => Candidate(c) /\ \A v \in Sockets : Known(endpoint'[v])
    BY <1>1 DEF DiscoveryInv, EndpointsKnown
<1>3. CASE c.op = "init"
    <2>1. Alien => c.kind # "discover"
        BY <1>1, <1>2, <1>3 DEF Candidate
    <2>2. PICK d \in {Initialized(c), Doing([c EXCEPT !.init = w], "autoAttach")} :
            call' = [call EXCEPT ![k] = d]
        BY <1>3 DEF HaveSocket
    <2>3. [c EXCEPT !.init = w] \in Records /\ [c EXCEPT !.init = w].kind = c.kind
          /\ [c EXCEPT !.init = w].previous = c.previous /\ "autoAttach" \in Ops
        BY <1>1 DEF Records, Ops
    <2>4. Alien => Calm(c, d)
        BY <1>1, <1>2, <2>1, <2>2, <2>3, CalmInitialized, CalmDoing
    <2> QED BY <1>1, <1>2, <2>2, <2>4, CalmCaller
<1>4. CASE c.op # "init"
    <2>1. PICK d : d = [c EXCEPT !.at = "answer"]
        OBVIOUS
    <2>2. call' = [call EXCEPT ![k] = d]
        BY <1>1, <1>4, <2>1 DEF HaveSocket
    <2>3. d.kind = c.kind /\ d.op = c.op /\ d.previous = c.previous /\ d.at = "answer"
        BY <1>1, <2>1 DEF Records
    <2>4. Alien => Calm(c, d)
        BY <1>1, <1>2, <2>3, CalmChange
    <2> QED BY <1>1, <1>2, <2>2, <2>4, CalmCaller
<1> QED BY <1>3, <1>4

\* Callers that stay what they are, and an endpoint that stays.
LEMMA QuietDiscovery ==
    ASSUME DiscoveryInv, UNCHANGED <<loopback_cdp_url, endpoint, call>>
    PROVE  DiscoveryInv'
BY CalmStep DEF DiscoveryInv, EndpointsKnown

\* Some callers throw, and no endpoint is dialled.
LEMMA ThrowDiscovery ==
    ASSUME Inv, DiscoveryInv, NEW K, K \subseteq Callers, \A k \in K : call[k].at \notin Over,
           Throw(K), UNCHANGED endpoint
    PROVE  DiscoveryInv'
BY ThrowKeeps DEF Inv

\* The wait for a context times out.
LEMMA ContextTimeoutDiscovery ==
    ASSUME Inv, DiscoveryInv, NEW k \in Callers, ContextTimeout(k)
    PROVE  DiscoveryInv'
<1> DEFINE c == call[k]
<1>1. /\ c \in Records /\ DOMAIN call = Callers /\ UNCHANGED endpoint
    BY DEF Inv, TypeInv, TypeOK, ContextTimeout, socketVars
<1>2. CASE c.at = "context"
    <2>1. Throw({k}) /\ \A j \in {k} : call[j].at \notin Over
        BY <1>2 DEF ContextTimeout, Over
    <2> QED BY <1>1, <2>1, ThrowDiscovery
<1>3. CASE c.at # "context"
    <2>1. PICK d : d = [c EXCEPT !.context = "timedout"]
        OBVIOUS
    <2>2. call' = [call EXCEPT ![k] = d] /\ UNCHANGED loopback_cdp_url
        BY <1>1, <1>3, <2>1 DEF ContextTimeout
    <2>3. d.kind = c.kind /\ d.op = c.op /\ d.previous = c.previous /\ d.at = c.at
        BY <1>1, <2>1 DEF Records
    <2>4. Alien => Calm(c, d)
        BY <2>3, CalmChange DEF DiscoveryInv
    <2>5. Alien => \A w \in Sockets : Known(endpoint'[w])
        BY <1>1 DEF DiscoveryInv, EndpointsKnown
    <2> QED BY <1>1, <2>2, <2>4, <2>5, CalmCaller
<1> QED BY <1>2, <1>3

\* chrome.tabs answers.
LEMMA TabsDiscovery ==
    ASSUME Inv, DiscoveryInv, NEW k \in Callers, TabsAnswer(k)
    PROVE  DiscoveryInv'
<1> DEFINE c == call[k]
<1>1. /\ c \in Records /\ DOMAIN call = Callers /\ UNCHANGED <<loopback_cdp_url, endpoint>>
      /\ c.kind # "discover"
    BY DEF Inv, TypeInv, TypeOK, TabsAnswer, socketVars, Good
<1>2. PICK d \in {WithTarget(c, t) : t \in Targets} \cup {Doing(c, "getTargets")} :
        call' = [call EXCEPT ![k] = d]
    BY DEF TabsAnswer
<1>3. Alien => Candidate(c) /\ \A w \in Sockets : Known(endpoint'[w])
    BY <1>1 DEF DiscoveryInv, EndpointsKnown
<1>4. "getTargets" \in Ops
    BY DEF Ops
<1>5. Alien => Calm(c, d)
    BY <1>1, <1>2, <1>3, <1>4, CalmWithTarget, CalmDoing
<1> QED BY <1>1, <1>2, <1>3, <1>5, CalmCaller

\* A socket opens.
LEMMA OpensDiscovery ==
    ASSUME Inv, DiscoveryInv, NEW w \in Sockets, SocketOpens(w)
    PROVE  DiscoveryInv'
<1>1. /\ call \in [Callers -> Records] /\ UNCHANGED <<loopback_cdp_url, endpoint>>
      /\ call' = [k \in Callers |-> IF k \in Dialling(w)
                                    THEN [call[k] EXCEPT !.at = "have"] ELSE call[k]]
    BY DEF Inv, TypeInv, TypeOK, SocketOpens
<1>2. ASSUME Alien, NEW k \in Callers PROVE call'[k] = call[k] \/ Calm(call[k], call'[k])
    <2>1. CASE k \in Dialling(w)
        <3>1. call[k] \in Records /\ call[k].at = "dialling" /\ call'[k] = [call[k] EXCEPT !.at = "have"]
            BY <1>1, <2>1 DEF Dialling
        <3>2. /\ call'[k].kind = call[k].kind /\ call'[k].op = call[k].op
              /\ call'[k].previous = call[k].previous /\ call'[k].at = "have"
            BY <3>1 DEF Records
        <3> QED BY <1>2, <3>1, <3>2, CalmChange DEF DiscoveryInv
    <2> QED BY <1>1, <2>1
<1>3. Alien => \A v \in Sockets : Known(endpoint'[v])
    BY <1>1 DEF DiscoveryInv, EndpointsKnown
<1> QED BY <1>1, <1>2, <1>3, CalmStep

\* A context is created.
LEMMA ContextDiscovery ==
    ASSUME Inv, DiscoveryInv, NEW s \in Sessions, ContextCreated(s)
    PROVE  DiscoveryInv'
<1>1. /\ call \in [Callers -> Records] /\ UNCHANGED <<loopback_cdp_url, endpoint>>
    BY DEF Inv, TypeInv, TypeOK, ContextCreated, socketVars
<1>2. ASSUME Alien, NEW k \in Callers PROVE call'[k] = call[k] \/ Calm(call[k], call'[k])
    <2> DEFINE c == call[k]
    <2>1. c \in Records /\ Candidate(c)
        BY <1>1, <1>2 DEF DiscoveryInv
    <2>2. PICK d : d = [c EXCEPT !.context = "known"]
        OBVIOUS
    <2>3. call'[k] = c \/ (c.at = "context" /\ call'[k] = Doing(d, "verify")) \/ call'[k] = d
        BY <2>2 DEF ContextCreated
    <2>4. d \in Records /\ d.kind = c.kind /\ d.op = c.op /\ d.previous = c.previous /\ d.at = c.at
        BY <2>1, <2>2 DEF Records
    <2>5. Calm(c, d)
        BY <2>1, <2>4, CalmChange
    <2>6. "verify" \in Ops
        BY DEF Ops
    <2>7. Calm(c, Doing(d, "verify"))
        BY <2>1, <2>4, <2>6, CalmDoing
    <2> QED BY <2>3, <2>5, <2>7
<1>3. Alien => \A v \in Sockets : Known(endpoint'[v])
    BY <1>1 DEF DiscoveryInv, EndpointsKnown
<1> QED BY <1>1, <1>2, <1>3, CalmStep

\* The token of another browser is not the worker's, so "verify" is never answered as
\* discovery wants it.
LEMMA AnswerDiscovery ==
    ASSUME Inv, DiscoveryInv, NEW w \in Sockets, NEW r \in requests[w], Answer(w, r)
    PROVE  DiscoveryInv'
<1> DEFINE c == call[r.caller]
<1>1. UNCHANGED <<loopback_cdp_url, endpoint>>
    BY DEF Answer
<1>2. CASE Awaited(r)
    <2>1. /\ r \in Requests /\ r.caller \in Callers /\ call \in [Callers -> Records]
          /\ Good(c) /\ c.at = "answer" /\ c.op = r.op
        BY <1>2, AwaitedCaller DEF Inv
    <2>2. PICK d \in Continued(c, r.session) : call' = [call EXCEPT ![r.caller] = d]
        BY <1>2 DEF Answer
    <2>3. ASSUME Alien PROVE c.op # "verify"
        <3>1. endpoint[w] \in {NoEndpoint, Local}
            BY <2>3 DEF DiscoveryInv, EndpointsKnown, Known
        <3>2. endpoint[w] \notin Own
            BY <2>3, <3>1, ConstantsAssumption DEF Alien
        <3>3. c.op = "verify" => endpoint[w] \in Own
            BY <1>2 DEF Answer, Accepted
        <3> QED BY <3>2, <3>3
    <2>4. r.session \in Sessions \cup {NoSession} /\ (c.op = "attach" => r.session # NoSession)
        BY <2>1 DEF Answer, Requests
    <2>5. Alien => Calm(c, d)
        BY <2>1, <2>2, <2>3, <2>4, CalmContinued DEF DiscoveryInv
    <2>6. Alien => \A v \in Sockets : Known(endpoint'[v])
        BY <1>1 DEF DiscoveryInv, EndpointsKnown
    <2> QED BY <1>1, <2>1, <2>2, <2>5, <2>6, CalmCaller
<1>3. CASE ~Awaited(r)
    <2>1. UNCHANGED call
        BY <1>3 DEF Answer
    <2> QED BY <1>1, <2>1, QuietDiscovery
<1> QED BY <1>2, <1>3

\* Callers that throw.
LEMMA LostDiscovery ==
    ASSUME Inv, DiscoveryInv,
           \/ \E k \in Callers : FetchFailed(k) \/ Timeout(k)
           \/ \E w \in Sockets : DialFails(w) \/ SocketLost(w)
           \/ \E w \in Sockets : \E r \in requests[w] : AnswerThrows(w, r)
    PROVE  DiscoveryInv'
<1>1. TypeInv /\ PendingInv
    BY DEF Inv
<1>2. \A k \in loopbackPending : k \in Callers /\ call[k].at = "answer"
    BY <1>1 DEF PendingInv, PendingCanBeAnswered, TypeInv, TypeOK
<1>3. ASSUME NEW k \in Callers, FetchFailed(k) \/ Timeout(k) PROVE DiscoveryInv'
    <2>1. Throw({k}) /\ call[k].at \notin Over /\ UNCHANGED endpoint
        BY <1>2, <1>3 DEF FetchFailed, Timeout, Over, socketVars
    <2> QED BY <2>1, ThrowDiscovery
<1>4. ASSUME NEW w \in Sockets, DialFails(w) \/ SocketLost(w) PROVE DiscoveryInv'
    <2>1. PICK K \in {Dialling(w), loopbackPending} : Throw(K) /\ UNCHANGED endpoint
        BY <1>4 DEF DialFails, SocketLost, Rejected
    <2>2. K \subseteq Callers /\ \A k \in K : call[k].at \notin Over
        BY <1>2, <2>1 DEF Dialling, Over
    <2> QED BY <2>1, <2>2, ThrowDiscovery
<1>5. ASSUME NEW w \in Sockets, NEW r \in requests[w], AnswerThrows(w, r) PROVE DiscoveryInv'
    <2>1. CASE Awaited(r)
        <3>1. r.caller \in Callers /\ call[r.caller].at \notin Over
            BY <1>1, <2>1, AwaitedCaller DEF Over
        <3>2. Throw({r.caller}) /\ UNCHANGED endpoint
            BY <1>5, <2>1 DEF AnswerThrows, socketVars
        <3> QED BY <3>1, <3>2, ThrowDiscovery
    <2>2. CASE ~Awaited(r)
        BY <1>5, <2>2, QuietDiscovery DEF AnswerThrows, socketVars
    <2> QED BY <2>1, <2>2
<1> QED BY <1>3, <1>4, <1>5

\* It holds at the start.
LEMMA InitDiscovery == Init => DiscoveryInv
<1> SUFFICES ASSUME Init PROVE DiscoveryInv
    OBVIOUS
<1>1. /\ loopback_cdp_url = NoEndpoint /\ NoEndpoint # Local
      /\ \A w \in Sockets : endpoint[w] = NoEndpoint
      /\ \A k \in Callers : call[k].kind = "auto" /\ call[k].previous = NoEndpoint
    BY ConstantsAssumption DEF Init, Fresh
<1> QED BY <1>1 DEF DiscoveryInv, EndpointsKnown, Candidate, Known, Kept

\* Every step of the worker keeps what a discovery relies on.
LEMMA DiscoveryStep == Inv /\ DiscoveryInv /\ [Next]_vars => DiscoveryInv'
<1> SUFFICES ASSUME Inv, DiscoveryInv, [Next]_vars PROVE DiscoveryInv'
    OBVIOUS
<1>1. ASSUME NEW k \in Callers, NEW t \in Forms, StartCommand(k, t) PROVE DiscoveryInv'
    BY <1>1, CommandDiscovery
<1>2. ASSUME NEW k \in Callers, NEW e \in Endpoints, StartConfigure(k, e) PROVE DiscoveryInv'
    <2>1. ~Alien
        BY <1>2 DEF StartConfigure, Alien
    <2> QED BY <2>1 DEF DiscoveryInv, Alien
<1>3. ASSUME NEW k \in Callers, StartDiscover(k) \/ Fetched(k) PROVE DiscoveryInv'
    BY <1>3, StartDiscovery, FetchedDiscovery
<1>4. ASSUME NEW k \in Callers, GetSocket(k) \/ HaveSocket(k) PROVE DiscoveryInv'
    BY <1>4, GetSocketDiscovery, HaveSocketDiscovery
<1>5. ASSUME NEW k \in Callers, ContextTimeout(k) \/ TabsAnswer(k) PROVE DiscoveryInv'
    BY <1>5, ContextTimeoutDiscovery, TabsDiscovery
<1>6. ASSUME NEW w \in Sockets, SocketOpens(w) PROVE DiscoveryInv'
    BY <1>6, OpensDiscovery
<1>7. ASSUME NEW s \in Sessions, ContextCreated(s) PROVE DiscoveryInv'
    BY <1>7, ContextDiscovery
<1>8. ASSUME NEW w \in Sockets, NEW r \in requests[w], Answer(w, r) PROVE DiscoveryInv'
    BY <1>8, AnswerDiscovery
<1>9. ASSUME \/ \E w \in Sockets : SocketClosing(w)
             \/ \E w \in Sockets, s \in Sessions, t \in Targets : AutoAttached(w, s, t)
             \/ \E w \in Sockets, s \in Sessions : \E r \in requests[w] : AttachedAsRequested(w, r, s)
             \/ \E s \in Sessions : Detached(s)
             \/ UNCHANGED vars
      PROVE DiscoveryInv'
    <2>1. UNCHANGED <<loopback_cdp_url, endpoint, call>>
        BY <1>9 DEF SocketClosing, AutoAttached, AttachedAsRequested, Detached, vars, socketVars
    <2> QED BY <2>1, QuietDiscovery
<1> QED
    BY <1>1, <1>2, <1>3, <1>4, <1>5, <1>6, <1>7, <1>8, <1>9, LostDiscovery DEF Next

\* A discovery that did not verify the local endpoint, for whichever reason it
\* failed, leaves the endpoint that was in use before it (discoverLoopbackCDP).
THEOREM FailedDiscoveryForgets == Spec => []SoleDiscoveryForgets
<1>1. Inv /\ DiscoveryInv => SoleDiscoveryForgets
    BY DEF DiscoveryInv, Alien, Kept, Sole, SoleDiscoveryForgets, Unverified
<1> QED BY <1>1, InitDiscovery, DiscoveryStep, Invariance, PTL DEF Spec

-----------------------------------------------------------------------------
(* Initialized sockets.                                                     *)

\* The two commands of initializeLoopbackCDP.
Enabling == {"autoAttach", "discover"}

\* How far a caller of kind i at its command o is with an initialization: a discovery
\* makes its own commands before, a command makes them after.
Stage(i, o) ==
    IF o = "init" THEN 1 ELSE IF o = "autoAttach" THEN 2 ELSE IF o = "discover" THEN 3
    ELSE IF i = "discover" THEN 0 ELSE 4

\* Where a caller is done with initializations.
Done == Over \cup {"tabs"}

\* A request of an initialization is an earlier one of its caller or the one it awaits,
\* unless the caller is done.
Ordered(w, r, c) ==
    /\ c.kind = "discover" => r.kind = "discover"
    /\ r.op \in Enabling /\ c.kind = r.kind /\ c.at \notin Done =>
         /\ Stage(r.kind, r.op) <= Stage(c.kind, c.op)
         /\ r.op = c.op => c.at = "answer" /\ c.ws = w

\* The order of all requests.
OrderInv == \A w \in Sockets : \A r \in requests[w] : Ordered(w, r, call[r.caller])

\* A socket that has been open.
Opened(w) == w \in Sockets /\ ready[w] \in {"open", "closing", "closed"}

\* An initialization whose socket is still open awaits its answers on it, and has had
\* that to its first command when it makes the second.
Initializing(c) ==
    c.op \in Enabling =>
        /\ Opened(c.init)
        /\ ready[c.init] = "open" => /\ c.op = "discover" => "autoAttach" \in enabled[c.init]
                                     /\ c.at = "answer" => c.ws = c.init

\* The invariant: a socket is marked only when both commands were answered on it.
EnablingInv ==
    /\ OrderInv
    /\ \A k \in Callers : Initializing(call[k])
    /\ \A w \in initialized : Opened(w)
    /\ InitializedIsEnabled

\* Every socket that was dialled leads to e.
Dialled(e) == \A w \in Sockets : ready[w] # "none" => endpoint[w] = e

\* A move that takes no caller back in its initializations.
Advances(c, d) ==
    /\ d.kind = "discover" => c.kind = "discover"
    /\ d.kind # c.kind => d.kind = "configure" /\ c.kind = "discover"
    /\ d.kind = c.kind /\ d.at \notin Done =>
         /\ Stage(c.kind, c.op) <= Stage(d.kind, d.op)
         /\ c.at \in Done => Stage(d.kind, d.op) = 4
         /\ c.at = "answer" /\ d.op = c.op /\ d.op \in Enabling => d.at = "answer" /\ d.ws = c.ws

\* A move that begins none.
Keeps(c, d) ==
    d.op \in Enabling =>
        d.op = c.op /\ d.init = c.init /\ (d.at = "answer" => c.at = "answer" /\ d.ws = c.ws)

\* What every move is but those of the two commands themselves.
Moves(c, d) == (c.at \in {"idle", "fetch"} \/ Advances(c, d)) /\ Keeps(c, d)

\* Sockets go their way, and what they have enabled stays while they are open.
SocketsGrow ==
    \A w \in Sockets : Opened(w) =>
        /\ ready'[w] \in {"open", "closing", "closed"}
        /\ ready'[w] = "open" => ready[w] = "open" /\ enabled[w] \subseteq enabled'[w]

\* Requests are those there were, but for their sessions.
RequestsStay ==
    \A w \in Sockets : \A x \in requests'[w] :
        \E r \in requests[w] : x.caller = r.caller /\ x.kind = r.kind /\ x.op = r.op

\* Moves keep the order of the requests.
LEMMA OrderFrame ==
    ASSUME Inv, OrderInv, RequestsStay,
           \A k \in Callers : \/ call'[k] = call[k] \/ call[k].at \in {"idle", "fetch"}
                             \/ Advances(call[k], call'[k])
    PROVE  OrderInv'
<1> SUFFICES ASSUME NEW w \in Sockets, NEW x \in requests'[w]
             PROVE  Ordered(w, x, call'[x.caller])
    BY DEF OrderInv, Ordered, Done
<1>1. PICK r \in requests[w] : x.caller = r.caller /\ x.kind = r.kind /\ x.op = r.op
    BY DEF RequestsStay
<1> DEFINE c == call[r.caller]
           d == call'[r.caller]
<1>2. r.caller \in Callers /\ c.at \notin {"idle", "fetch"} /\ Ordered(w, r, c)
    BY DEF Inv, TypeInv, TypeOK, Requests, RequestInv, OrderInv
<1>3. d = c \/ Advances(c, d)
    BY <1>2
<1> HIDE DEF c, d
<1>4. Ordered(w, r, d)
    BY <1>2, <1>3 DEF Ordered, Advances, Stage, Enabling
<1> QED BY <1>1, <1>4 DEF Ordered, d

\* Moves keep what is known of initializations under way.
LEMMA EnablingFrame ==
    ASSUME Inv, TypeOK', EnablingInv, SocketsGrow, RequestsStay, UNCHANGED initialized,
           \A k \in Callers : call'[k] = call[k] \/ Moves(call[k], call'[k])
    PROVE  EnablingInv'
<1>1. OrderInv'
    BY OrderFrame DEF EnablingInv, Moves
<1>2. ASSUME NEW w, Opened(w) PROVE w \in Sockets /\ ready'[w] \in {"open", "closing", "closed"}
    BY <1>2 DEF SocketsGrow, Opened
<1>3. ASSUME NEW k \in Callers PROVE Initializing(call[k])'
    <2> DEFINE c == call[k]
               d == call'[k]
    <2>1. Initializing(c) /\ (d = c \/ Keeps(c, d))
        BY DEF EnablingInv, Moves
    <2>2. ASSUME d.op \in Enabling
          PROVE  /\ d.init \in Sockets /\ ready'[d.init] \in {"open", "closing", "closed"}
                 /\ ready'[d.init] = "open" =>
                      /\ d.op = "discover" => "autoAttach" \in enabled'[d.init]
                      /\ d.at = "answer" => d.ws = d.init
        <3> HIDE DEF c, d
        <3>2. c.op = d.op /\ c.init = d.init /\ (d.at = "answer" => c.at = "answer" /\ d.ws = c.ws)
            BY <2>1, <2>2 DEF Keeps
        <3>3. Opened(d.init)
            BY <2>1, <2>2, <3>2 DEF Initializing
        <3>4. d.init \in Sockets
            BY <3>3 DEF Opened
        <3>5. ready'[d.init] = "open" => ready[d.init] = "open" /\ enabled[d.init] \subseteq enabled'[d.init]
            BY <3>3, <3>4 DEF SocketsGrow
        <3>6. ready[d.init] = "open" => /\ d.op = "discover" => "autoAttach" \in enabled[d.init]
                                        /\ d.at = "answer" => d.ws = d.init
            BY <2>1, <2>2, <3>2 DEF Initializing
        <3> QED BY <1>2, <3>3, <3>5, <3>6
    <2> QED BY <2>2 DEF Initializing, Opened
<1>4. ASSUME NEW w \in initialized, ready'[w] = "open"
      PROVE  enabled'[w] = {"autoAttach", "discover"}
    <2>1. w \in Sockets /\ Opened(w)
        BY DEF EnablingInv, Opened
    <2>2. ready[w] = "open" /\ enabled[w] \subseteq enabled'[w]
        BY <1>4, <2>1 DEF SocketsGrow
    <2>3. enabled[w] = {"autoAttach", "discover"}
        BY <2>2 DEF EnablingInv, InitializedIsEnabled
    <2>4. enabled'[w] \subseteq {"autoAttach", "discover"}
        BY <2>1 DEF TypeOK
    <2> QED BY <2>2, <2>3, <2>4
<1>5. \A w \in initialized : Opened(w)
    BY DEF EnablingInv
<1>6. \A w \in initialized' : w \in Sockets /\ ready'[w] \in {"open", "closing", "closed"}
    BY <1>2, <1>5
<1>7. (\A w \in initialized : Opened(w))' /\ InitializedIsEnabled'
    BY <1>4, <1>6 DEF Opened, InitializedIsEnabled
<1> QED BY <1>1, <1>3, <1>7 DEF EnablingInv

\* A caller that throws makes none of the two commands next.
LEMMA ThrownMoves ==
    ASSUME NEW c, Good(c), c.at \notin Done
    PROVE  Moves(c, Thrown(c))
<1>1. c \in Records
    BY DEF Good
<1>2. CASE c.op = "attachAuto"
    <2>1. Thrown(c) = Doing(c, "method") /\ c.kind # "discover" /\ "method" \in Ops
        BY <1>2 DEF Thrown, Good, Ops
    <2> QED BY <1>1, <1>2, <2>1, DoingFields DEF Moves, Advances, Keeps, Stage, Enabling
<1>3. CASE c.op # "attachAuto" /\ c.kind = "discover"
    <2>1. Thrown(c) = Doing(Fresh("configure", "socket"), "init")
        BY <1>3 DEF Thrown
    <2>2. Thrown(c).kind = "configure" /\ Thrown(c).op = "init"
        BY <2>1 DEF Doing, Fresh
    <2> QED BY <1>3, <2>2 DEF Moves, Advances, Keeps, Enabling
<1>4. CASE c.op # "attachAuto" /\ c.kind # "discover"
    <2>1. Thrown(c) = Fresh(c.kind, "debugger") \/ Thrown(c) = Fresh(c.kind, "rejected")
        BY <1>4 DEF Thrown, Ended
    <2>2. Thrown(c).kind = c.kind /\ Thrown(c).at \in Over /\ Thrown(c).op = "init"
        BY <2>1 DEF Fresh, Over
    <2> QED BY <1>4, <2>2 DEF Moves, Advances, Keeps, Enabling, Done
<1> QED BY <1>2, <1>3, <1>4

\* A command that knows its target has done with the two.
LEMMA WithTargetMoves ==
    ASSUME NEW c, Good(c), c.kind \notin {"configure", "discover"}, NEW t,
           c.at # "answer" \/ c.op \notin Enabling \/ c.op = "discover"
    PROVE  Moves(c, WithTarget(c, t))
<1>1. c \in Records
    BY DEF Good
<1>2. /\ WithTarget(c, t).kind = c.kind /\ WithTarget(c, t).at = "socket"
      /\ WithTarget(c, t).op \in {"method", "attach"}
    BY <1>1 DEF WithTarget, Doing, Records
<1> QED BY <1>2 DEF Moves, Advances, Keeps, Stage, Enabling

\* A caller goes on to a command that is not of the two.
LEMMA DoingMoves ==
    ASSUME NEW c, Good(c), NEW d \in Records, d.kind = c.kind, NEW o \in Ops \ Enabling,
           Stage(c.kind, c.op) <= Stage(c.kind, o), c.at \notin Done \/ Stage(c.kind, o) = 4
    PROVE  Moves(c, Doing(d, o))
<1>1. Doing(d, o).kind = c.kind /\ Doing(d, o).op = o /\ o \notin Enabling
    BY DoingFields
<1> QED BY <1>1 DEF Moves, Advances, Keeps

\* initializeLoopbackCDP returns.
LEMMA InitializedMoves ==
    ASSUME NEW c, Good(c), c.op \in {"init", "discover"}, c.at \notin Done
    PROVE  Moves(c, Initialized(c))
<1>1. c \in Records
    BY DEF Good
<1>2. CASE c.kind = "configure"
    <2>1. Initialized(c) = Fresh("configure", "resolved")
        BY <1>2 DEF Initialized, Ended
    <2> QED BY <1>2, <2>1 DEF Fresh, Moves, Advances, Keeps, Enabling, Done, Over
<1>3. CASE c.kind = "discover"
    <2>1. Initialized(c) = Doing(Fresh("configure", "socket"), "init")
        BY <1>3 DEF Initialized
    <2>2. Initialized(c).kind = "configure" /\ Initialized(c).op = "init"
        BY <2>1 DEF Doing, Fresh
    <2> QED BY <1>3, <2>2 DEF Moves, Advances, Keeps, Enabling
<1>4. CASE c.kind \notin {"configure", "discover"} /\ c.target = NoTarget
    <2>1. Initialized(c) = Doing(c, "method") /\ "method" \in Ops \ Enabling
        BY <1>4 DEF Initialized, Ops, Enabling
    <2>2. Stage(c.kind, c.op) <= Stage(c.kind, "method")
        BY <1>4 DEF Stage
    <2> QED BY <1>1, <2>1, <2>2, DoingMoves
<1>5. CASE c.kind \notin {"configure", "discover"} /\ c.target # NoTarget /\ c.target = Unresolved
    <2>1. Initialized(c) = [c EXCEPT !.at = "tabs"]
        BY <1>5 DEF Initialized
    <2>2. /\ Initialized(c).kind = c.kind /\ Initialized(c).at = "tabs"
          /\ Initialized(c).op = c.op /\ Initialized(c).init = c.init
        BY <1>1, <2>1 DEF Records
    <2> QED BY <2>2 DEF Moves, Advances, Keeps, Done
<1>6. CASE c.kind \notin {"configure", "discover"} /\ c.target \notin {NoTarget, Unresolved}
    <2>1. Initialized(c) = WithTarget(c, c.target)
        BY <1>6 DEF Initialized
    <2> QED BY <1>6, <2>1, WithTargetMoves DEF Enabling
<1> QED BY <1>2, <1>3, <1>4, <1>5, <1>6

\* An answer to another command than the first of the two moves its caller on.
LEMMA ContinuedMoves ==
    ASSUME NEW c, Good(c), c.at = "answer", NEW s \in Sessions \cup {NoSession},
           c.op = "attach" => s # NoSession, c.op # "autoAttach", NEW d \in Continued(c, s)
    PROVE  Moves(c, d)
<1> USE DEF Ops
<1>1. c \in Records /\ c.op \in Ops /\ c.op # "init" /\ c.at \notin Done
    BY DEF Good, Records, Done, Over
<1>3. CASE c.op = "discover"
    <2>1. d = Initialized(c)
        BY <1>3 DEF Continued
    <2> QED BY <1>1, <1>3, <2>1, InitializedMoves
<1>4. CASE c.op = "getTargets" /\ c.kind = "discover"
    <2>1. d = Doing(c, "attach") /\ "attach" \in Ops \ Enabling
        BY <1>4 DEF Continued, Enabling
    <2>2. Stage(c.kind, c.op) <= Stage(c.kind, "attach")
        BY <1>4 DEF Stage
    <2> QED BY <1>1, <2>1, <2>2, DoingMoves
<1>5. CASE c.op \in {"getTargets", "createTarget"} /\ c.kind # "discover"
    <2>1. d = Doing(c, "createTarget") \/ \E t \in Targets : d = WithTarget(c, t)
        BY <1>5 DEF Continued
    <2>2. Stage(c.kind, c.op) <= Stage(c.kind, "createTarget") /\ "createTarget" \in Ops \ Enabling
        BY <1>5 DEF Stage, Enabling
    <2>3. c.kind # "configure" /\ c.op \notin Enabling
        BY <1>5 DEF Good, Enabling
    <2> QED BY <1>1, <1>5, <2>1, <2>2, <2>3, DoingMoves, WithTargetMoves
<1>6. CASE c.op = "attach"
    <2> DEFINE u == [c EXCEPT !.session = s]
               v == [c EXCEPT !.session = s,
                              !.context = IF s \in contexts THEN "known" ELSE "waiting"]
    <2>1. d = IF c.kind = "discover" THEN Doing(v, "enable") ELSE Doing(u, "attachAuto")
        BY <1>6 DEF Continued
    <2>2. s \in Sessions
        BY <1>6
    <2>3. u \in Records /\ u.kind = c.kind
        BY <1>1, <2>2 DEF Records
    <2>4. v \in Records /\ v.kind = c.kind
        BY <1>1, <2>2, ZenonT(30) DEF Records
    <2> HIDE DEF u, v
    <2>5. "enable" \in Ops \ Enabling /\ "attachAuto" \in Ops \ Enabling
        BY DEF Enabling
    <2>6. Stage(c.kind, c.op) <= Stage(c.kind, "enable")
          /\ Stage(c.kind, c.op) <= Stage(c.kind, "attachAuto")
        BY <1>6 DEF Stage
    <2> QED BY <1>1, <2>1, <2>3, <2>4, <2>5, <2>6, DoingMoves
<1>7. CASE c.op = "attachAuto"
    <2>1. d = Doing(c, "method") /\ "method" \in Ops \ Enabling
        BY <1>7 DEF Continued, Enabling
    <2>2. Stage(c.kind, c.op) <= Stage(c.kind, "method")
        BY <1>7 DEF Stage
    <2> QED BY <1>1, <2>1, <2>2, DoingMoves
<1>8. CASE c.op = "method"
    <2>1. d = Fresh(c.kind, "resolved")
        BY <1>8 DEF Continued, Ended
    <2> QED BY <2>1 DEF Fresh, Moves, Advances, Keeps, Enabling, Done, Over
<1>9. CASE c.op = "enable"
    <2> DEFINE u == [c EXCEPT !.at = "context"]
    <2>1. d = Doing(c, "verify") \/ d = u
        BY <1>9 DEF Continued
    <2>2. "verify" \in Ops \ Enabling /\ Stage(c.kind, c.op) <= Stage(c.kind, "verify")
        BY <1>9 DEF Enabling, Stage
    <2>3. CASE d = u
        <3>1. u.kind = c.kind /\ u.op = c.op
            BY <1>1 DEF Records
        <3>2. c.op \notin Enabling
            BY <1>9 DEF Enabling
        <3> HIDE DEF u
        <3> QED BY <1>1, <1>9, <2>3, <3>1, <3>2 DEF Moves, Advances, Keeps, Stage, Enabling
    <2> QED BY <1>1, <2>1, <2>2, <2>3, DoingMoves
<1>10. CASE c.op = "verify"
    <2>1. d = Doing(c, "init") /\ "init" \in Ops \ Enabling /\ c.kind = "discover"
        BY <1>10 DEF Continued, Enabling, Good
    <2>2. Stage(c.kind, c.op) <= Stage(c.kind, "init")
        BY <1>10, <2>1 DEF Stage
    <2> QED BY <1>1, <2>1, <2>2, DoingMoves
<1>11. ~(c.op = "createTarget" /\ c.kind = "discover")
    BY DEF Good
<1> QED BY <1>1, <1>3, <1>4, <1>5, <1>6, <1>7, <1>8, <1>9, <1>10, <1>11

-----------------------------------------------------------------------------
\* One caller moves.
LEMMA CallerMoves ==
    ASSUME Inv, TypeOK', EnablingInv, NEW k \in Callers, NEW d,
           call' = [call EXCEPT ![k] = d], call[k] = d \/ Moves(call[k], d),
           SocketsGrow, RequestsStay, UNCHANGED initialized
    PROVE  EnablingInv'
<1>1. call'[k] = d /\ \A j \in Callers : j # k => call'[j] = call[j]
    BY DEF Inv, TypeInv, TypeOK
<1>2. \A j \in Callers : call'[j] = call[j] \/ Moves(call[j], call'[j])
    BY <1>1
<1> QED BY <1>2, EnablingFrame

\* Some callers throw.
LEMMA CallersThrow ==
    ASSUME Inv, TypeOK', EnablingInv, NEW K, \A k \in K : call[k].at \notin Done, Throw(K),
           SocketsGrow, RequestsStay, UNCHANGED initialized
    PROVE  EnablingInv'
<1>1. call' = [k \in Callers |-> IF k \in K THEN Thrown(call[k]) ELSE call[k]]
      /\ \A k \in Callers : Good(call[k])
    BY DEF Throw, Inv, TypeInv
<1>2. \A k \in Callers : call'[k] = call[k] \/ Moves(call[k], call'[k])
    BY <1>1, ThrownMoves
<1> QED BY <1>2, EnablingFrame

\* Sockets that nothing happens to.
LEMMA QuietSockets ==
    ASSUME UNCHANGED <<ready, enabled>> PROVE SocketsGrow
BY DEF SocketsGrow, Opened

\* Requests that are answered or remain.
LEMMA QuietRequests ==
    ASSUME \A w \in Sockets : requests'[w] \subseteq requests[w] PROVE RequestsStay
BY DEF RequestsStay

\* A caller that comes to another place, or whose context becomes known or does not.
LEMMA PlaceMoves ==
    ASSUME NEW c, NEW d, d.kind = c.kind, d.op = c.op, d.init = c.init,
           \/ d.at = c.at /\ d.ws = c.ws
           \/ c.at \notin Done \cup {"answer"} /\ d.at # "answer"
    PROVE  Moves(c, d)
<1>1. Stage(c.kind, c.op) <= Stage(d.kind, d.op)
    BY DEF Stage
<1> QED BY <1>1 DEF Moves, Advances, Keeps, Done

\* Callers start, fetch, fail to fetch, or time out.
LEMMA QuietEnabling ==
    ASSUME Inv, TypeOK', EnablingInv, NEW k \in Callers,
           \/ \E t \in Forms : StartCommand(k, t)
           \/ \E e \in Endpoints : StartConfigure(k, e)
           \/ StartDiscover(k) \/ Fetched(k) \/ FetchFailed(k)
           \/ Timeout(k) \/ ContextTimeout(k) \/ TabsAnswer(k)
    PROVE  EnablingInv'
<1> DEFINE c == call[k]
<1>1. /\ call \in [Callers -> Records] /\ Good(c) /\ c \in Records
      /\ \A j \in Callers : j \in loopbackPending => call[j].at = "answer"
    BY DEF Inv, TypeInv, TypeOK, Good, PendingInv, PendingCanBeAnswered
<1>2. UNCHANGED <<ready, enabled, initialized, requests>>
    BY DEF StartCommand, StartConfigure, StartDiscover, Fetched, FetchFailed, Timeout,
           ContextTimeout, TabsAnswer, socketVars, browserVars
<1>3. SocketsGrow /\ RequestsStay
    BY <1>2, QuietSockets, QuietRequests
<1>4. ASSUME NEW d, call' = [call EXCEPT ![k] = d], Moves(c, d) PROVE EnablingInv'
    BY <1>2, <1>3, <1>4, CallerMoves
<1>5. ASSUME Throw({k}), c.at \notin Done PROVE EnablingInv'
    BY <1>2, <1>3, <1>5, CallersThrow
<1>6. ASSUME NEW t \in Forms, StartCommand(k, t) PROVE EnablingInv'
    <2>1. PICK r \in {"auto", "loopback_cdp"} :
            \E d : /\ d = [c EXCEPT !.kind = r, !.target = t]
                   /\ call' = [call EXCEPT ![k] = IF loopback_cdp_url = NoEndpoint THEN Thrown(d)
                                                                            ELSE Doing(d, "init")]
        BY <1>6 DEF StartCommand
    <2>2. PICK d : /\ d = [c EXCEPT !.kind = r, !.target = t]
                   /\ call' = [call EXCEPT ![k] = IF loopback_cdp_url = NoEndpoint THEN Thrown(d)
                                                                            ELSE Doing(d, "init")]
        BY <2>1
    <2>3. d.kind = r /\ d.op = "init" /\ c.at = "idle"
        BY <1>1, <1>6, <2>2 DEF StartCommand, Good, Records
    <2>4. Thrown(d).op = "init"
        BY <2>3 DEF Thrown, Ended, Fresh
    <2>5. Doing(d, "init").op = "init"
        BY <1>1, <2>2 DEF Doing, Records
    <2>6. Moves(c, Thrown(d)) /\ Moves(c, Doing(d, "init"))
        BY <2>3, <2>4, <2>5 DEF Moves, Keeps, Enabling
    <2> QED BY <1>4, <2>2, <2>6
<1>7. ASSUME NEW e \in Endpoints, StartConfigure(k, e) PROVE EnablingInv'
    <2>1. PICK d : d = Doing([c EXCEPT !.kind = "configure"], "init")
        OBVIOUS
    <2>2. call' = [call EXCEPT ![k] = d] /\ c.at = "idle"
        BY <1>7, <2>1 DEF StartConfigure
    <2>3. d.op = "init"
        BY <1>1, <2>1 DEF Doing, Records
    <2>4. Moves(c, d)
        BY <2>2, <2>3 DEF Moves, Keeps, Enabling
    <2> QED BY <1>4, <2>2, <2>4
<1>8. CASE StartDiscover(k)
    <2>1. PICK d : d = [c EXCEPT !.kind = "discover", !.at = "fetch", !.target = Worker,
                                 !.previous = loopback_cdp_url']
        OBVIOUS
    <2>2. call' = [call EXCEPT ![k] = d] /\ c.at = "idle"
        BY <1>1, <1>8, <2>1 DEF StartDiscover
    <2>3. d.op = "init"
        BY <1>1, <2>1, <2>2 DEF Records, Good
    <2>4. Moves(c, d)
        BY <2>2, <2>3 DEF Moves, Keeps, Enabling
    <2> QED BY <1>4, <2>2, <2>4
<1>9. CASE Fetched(k)
    <2>1. call' = [call EXCEPT ![k] = Doing(c, "getTargets")] /\ c.at = "fetch"
        BY <1>9 DEF Fetched
    <2>2. Doing(c, "getTargets").op = "getTargets"
        BY <1>1 DEF Doing, Records
    <2>3. Moves(c, Doing(c, "getTargets"))
        BY <2>1, <2>2 DEF Moves, Keeps, Enabling
    <2> QED BY <1>4, <2>1, <2>3
<1>10. CASE FetchFailed(k) \/ Timeout(k)
    <2>1. Throw({k}) /\ c.at \notin Done
        BY <1>1, <1>10 DEF FetchFailed, Timeout, Done, Over
    <2> QED BY <1>5, <2>1
<1>11. CASE ContextTimeout(k)
    <2>1. CASE c.at = "context"
        BY <1>5, <1>11, <2>1 DEF ContextTimeout, Done, Over
    <2>2. CASE c.at # "context"
        <3>1. PICK d : d = [c EXCEPT !.context = "timedout"]
            OBVIOUS
        <3>2. call' = [call EXCEPT ![k] = d]
            BY <1>1, <1>11, <2>2, <3>1 DEF ContextTimeout
        <3>3. d.kind = c.kind /\ d.op = c.op /\ d.init = c.init /\ d.at = c.at /\ d.ws = c.ws
            BY <1>1, <3>1 DEF Records
        <3>4. Moves(c, d)
            BY <3>3, PlaceMoves
        <3> QED BY <1>4, <3>2, <3>4
    <2> QED BY <2>1, <2>2
<1>12. CASE TabsAnswer(k)
    <2>1. PICK d \in {WithTarget(c, t) : t \in Targets} \cup {Doing(c, "getTargets")} :
            call' = [call EXCEPT ![k] = d]
        BY <1>12 DEF TabsAnswer
    <2>2. c.at = "tabs" /\ c.kind \notin {"configure", "discover"}
        BY <1>1, <1>12 DEF TabsAnswer, Good
    <2>3. "getTargets" \in Ops \ Enabling
        BY DEF Ops, Enabling
    <2>4. Stage(c.kind, c.op) <= Stage(c.kind, "getTargets") /\ Stage(c.kind, "getTargets") = 4
        BY <2>2 DEF Stage
    <2>5. Moves(c, d)
        BY <1>1, <2>1, <2>2, <2>3, <2>4, WithTargetMoves, DoingMoves
    <2> QED BY <1>4, <2>1, <2>5
<1> QED BY <1>6, <1>7, <1>8, <1>9, <1>10, <1>11, <1>12

\* A caller that gets its socket, or throws.
LEMMA GetSocketEnabling ==
    ASSUME Inv, TypeOK', EnablingInv, NEW k \in Callers, GetSocket(k)
    PROVE  EnablingInv'
<1> DEFINE e == loopback_cdp_url
           c == call[k]
<1>1. /\ call \in [Callers -> Records] /\ Good(c) /\ c.at = "socket" /\ c.at \notin Done
      /\ c \in Records /\ ready \in [Sockets -> {"none", "connecting", "open", "closing", "closed"}]
      /\ UNCHANGED <<enabled, initialized, requests>>
    BY DEF Inv, TypeInv, TypeOK, GetSocket, Done, Over, browserVars, socketVars, Good
<1>2. RequestsStay
    BY <1>1, QuietRequests
<1>3. SocketsGrow
    <2>1. UNCHANGED ready \/ \E w \in Sockets : ready[w] = "none" /\ ready' = [ready EXCEPT ![w] = "connecting"]
        BY DEF GetSocket, socketVars
    <2> QED BY <1>1, <2>1 DEF SocketsGrow, Opened
<1>4. ASSUME Throw({k}) PROVE EnablingInv'
    BY <1>1, <1>2, <1>3, <1>4, CallersThrow
<1>5. ASSUME NEW w, NEW at \in {"have", "dialling"}, call' = [call EXCEPT ![k].ws = w, ![k].at = at]
      PROVE  EnablingInv'
    <2>1. PICK d : d = [c EXCEPT !.ws = w, !.at = at]
        OBVIOUS
    <2>2. call' = [call EXCEPT ![k] = d]
        BY <1>1, <1>5, <2>1
    <2>3. d.kind = c.kind /\ d.op = c.op /\ d.init = c.init /\ d.at = at
        BY <1>1, <2>1 DEF Records
    <2>4. Moves(c, d)
        BY <1>1, <2>3, PlaceMoves
    <2> QED BY <1>1, <1>2, <1>3, <2>2, <2>4, CallerMoves
<1>6. CASE e = NoEndpoint /\ c.op = "init"
    <2>1. call' = [call EXCEPT ![k] = Initialized(c)]
        BY <1>6 DEF GetSocket
    <2>2. Moves(c, Initialized(c))
        BY <1>1, <1>6, InitializedMoves
    <2> QED BY <1>1, <1>2, <1>3, <2>1, <2>2, CallerMoves
<1>7. CASE e = NoEndpoint /\ c.op # "init"
    BY <1>4, <1>7 DEF GetSocket
<1>8. CASE e # NoEndpoint /\ HasOpenSocket(e)
    BY <1>5, <1>8 DEF GetSocket
<1>9. CASE e # NoEndpoint /\ ~HasOpenSocket(e) /\ Cached(e)
    BY <1>4, <1>5, <1>9 DEF GetSocket
<1>10. CASE e # NoEndpoint /\ ~HasOpenSocket(e) /\ ~Cached(e)
    BY <1>5, <1>10 DEF GetSocket
<1> QED BY <1>6, <1>7, <1>8, <1>9, <1>10

\* What sockets and browsers do of themselves.
LEMMA SocketsEnabling ==
    ASSUME Inv, TypeOK', EnablingInv,
           \/ \E w \in Sockets : SocketOpens(w) \/ DialFails(w) \/ SocketClosing(w) \/ SocketLost(w)
           \/ \E w \in Sockets, s \in Sessions, t \in Targets : AutoAttached(w, s, t)
           \/ \E w \in Sockets, s \in Sessions : \E r \in requests[w] : AttachedAsRequested(w, r, s)
           \/ \E s \in Sessions : Detached(s) \/ ContextCreated(s)
           \/ UNCHANGED vars
    PROVE  EnablingInv'
<1>1. /\ call \in [Callers -> Records] /\ \A k \in Callers : Good(call[k]) /\ call[k] \in Records
      /\ ready \in [Sockets -> {"none", "connecting", "open", "closing", "closed"}]
      /\ enabled \in [Sockets -> SUBSET Enabling] /\ requests \in [Sockets -> SUBSET Requests]
      /\ \A j \in Callers : j \in loopbackPending => call[j].at = "answer"
    BY DEF Inv, TypeInv, TypeOK, Good, PendingInv, PendingCanBeAnswered, Enabling
<1>2. ASSUME NEW w \in Sockets, SocketOpens(w) PROVE EnablingInv'
    <2>1. /\ ready[w] = "connecting" /\ ready' = [ready EXCEPT ![w] = "open"]
          /\ UNCHANGED <<enabled, initialized, requests>>
          /\ call' = [k \in Callers |-> IF k \in Dialling(w)
                                        THEN [call[k] EXCEPT !.at = "have"] ELSE call[k]]
        BY <1>2 DEF SocketOpens, browserVars
    <2>2. ASSUME NEW k \in Callers PROVE call'[k] = call[k] \/ Moves(call[k], call'[k])
        <3>1. CASE k \in Dialling(w)
            <4>1. call[k].at = "dialling" /\ call'[k] = [call[k] EXCEPT !.at = "have"]
                BY <2>1, <3>1 DEF Dialling
            <4>2. /\ call'[k].kind = call[k].kind /\ call'[k].op = call[k].op
                  /\ call'[k].init = call[k].init /\ call'[k].at = "have"
                BY <1>1, <4>1 DEF Records
            <4> QED BY <4>1, <4>2, PlaceMoves DEF Done, Over
        <3> QED BY <2>1, <3>1
    <2>3. SocketsGrow
        BY <1>1, <2>1 DEF SocketsGrow, Opened
    <2> QED BY <2>1, <2>2, <2>3, QuietRequests, EnablingFrame
<1>3. ASSUME NEW w \in Sockets, DialFails(w) \/ SocketLost(w) PROVE EnablingInv'
    <2>1. PICK K \in {Dialling(w), loopbackPending} : Throw(K)
        BY <1>3 DEF DialFails, SocketLost, Rejected
    <2>2. \A k \in K : call[k].at \notin Done
        BY <1>1, <2>1 DEF Dialling, Done, Over, Inv, TypeInv, TypeOK
    <2>3. /\ ready' = [ready EXCEPT ![w] = "closed"] /\ UNCHANGED initialized
          /\ \A v \in Sockets : v # w => enabled'[v] = enabled[v]
          /\ \A v \in Sockets : requests'[v] \subseteq requests[v]
        BY <1>1, <1>3 DEF DialFails, SocketLost, browserVars
    <2>4. SocketsGrow
        BY <1>1, <2>3 DEF SocketsGrow, Opened
    <2> QED BY <2>1, <2>2, <2>3, <2>4, QuietRequests, CallersThrow
<1>4. ASSUME NEW w \in Sockets, SocketClosing(w) PROVE EnablingInv'
    <2>1. /\ ready' = [ready EXCEPT ![w] = "closing"]
          /\ UNCHANGED <<enabled, initialized, requests, call>>
        BY <1>4 DEF SocketClosing, browserVars
    <2>2. SocketsGrow
        BY <1>1, <2>1 DEF SocketsGrow, Opened
    <2> QED BY <2>1, <2>2, QuietRequests, EnablingFrame
<1>5. ASSUME NEW w \in Sockets, NEW s \in Sessions, NEW t \in Targets, AutoAttached(w, s, t)
      PROVE  EnablingInv'
    BY <1>5, QuietSockets, QuietRequests, EnablingFrame DEF AutoAttached, socketVars
<1>6. ASSUME NEW w \in Sockets, NEW s \in Sessions, NEW r \in requests[w], AttachedAsRequested(w, r, s)
      PROVE  EnablingInv'
    <2>1. /\ requests' = [requests EXCEPT ![w] = (@ \ {r}) \cup {[r EXCEPT !.session = s]}]
          /\ UNCHANGED <<ready, enabled, initialized, call>>
        BY <1>6 DEF AttachedAsRequested, socketVars
    <2>2. r \in Requests
        BY <1>1
    <2>3. PICK x : x = [r EXCEPT !.session = s]
        OBVIOUS
    <2>4. x.caller = r.caller /\ x.kind = r.kind /\ x.op = r.op
        BY <2>2, <2>3 DEF Requests
    <2>5. \A v \in Sockets : \A y \in requests'[v] : y \in requests[v] \/ (v = w /\ y = x)
        BY <1>1, <2>1, <2>3
    <2>6. RequestsStay
        BY <2>4, <2>5 DEF RequestsStay
    <2> QED BY <2>1, <2>6, QuietSockets, EnablingFrame
<1>7. ASSUME NEW s \in Sessions, Detached(s) PROVE EnablingInv'
    BY <1>7, QuietSockets, QuietRequests, EnablingFrame DEF Detached, socketVars
<1>8. ASSUME NEW s \in Sessions, ContextCreated(s) PROVE EnablingInv'
    <2>1. UNCHANGED <<ready, enabled, initialized, requests>>
        BY <1>8 DEF ContextCreated, socketVars, browserVars
    <2>2. ASSUME NEW k \in Callers PROVE call'[k] = call[k] \/ Moves(call[k], call'[k])
        <3> DEFINE c == call[k]
        <3>1. PICK d : d = [c EXCEPT !.context = "known"]
            OBVIOUS
        <3>2. call'[k] = c \/ (c.at = "context" /\ call'[k] = Doing(d, "verify")) \/ call'[k] = d
            BY <1>8, <3>1 DEF ContextCreated
        <3>3. /\ d \in Records /\ d.kind = c.kind /\ d.op = c.op /\ d.init = c.init
              /\ d.at = c.at /\ d.ws = c.ws
            BY <1>1, <3>1 DEF Records
        <3>4. Moves(c, d)
            BY <3>3, PlaceMoves
        <3>5. ASSUME c.at = "context" PROVE Moves(c, Doing(d, "verify"))
            <4>1. c.op = "enable" /\ c.at \notin Done /\ Good(c)
                BY <1>1, <3>5 DEF Good, Done, Over
            <4>2. "verify" \in Ops \ Enabling /\ Stage(c.kind, c.op) <= Stage(c.kind, "verify")
                BY <4>1 DEF Ops, Enabling, Stage
            <4> QED BY <3>3, <4>1, <4>2, DoingMoves
        <3> QED BY <3>2, <3>4, <3>5
    <2> QED BY <2>1, <2>2, QuietSockets, QuietRequests, EnablingFrame
<1>9. ASSUME UNCHANGED vars PROVE EnablingInv'
    BY <1>9, QuietSockets, QuietRequests, EnablingFrame DEF vars, socketVars, browserVars
<1> QED BY <1>2, <1>3, <1>4, <1>5, <1>6, <1>7, <1>8, <1>9

\* A caller that has its socket begins an initialization of it, sends a command of one on
\* the socket that it began with if that is open, or sends another.
LEMMA HaveSocketEnabling ==
    ASSUME Inv, TypeOK', EnablingInv, NEW e, Dialled(e), NEW k \in Callers, HaveSocket(k)
    PROVE  EnablingInv'
<1> DEFINE c == call[k]
           w == c.ws
<1>1. /\ call \in [Callers -> Records] /\ Good(c) /\ c.at = "have" /\ c \in Records
      /\ w \in Sockets /\ ready[w] = "open" /\ requests \in [Sockets -> SUBSET Requests]
      /\ c.at \notin Done /\ UNCHANGED <<ready, enabled, initialized>>
    BY DEF Inv, TypeInv, TypeOK, HaveSocket, socketVars, PendingInv, Done, Over
<1>2. SocketsGrow
    BY <1>1, QuietSockets
<1>3. CASE c.op = "init" /\ w \in initialized
    <2>1. call' = [call EXCEPT ![k] = Initialized(c)] /\ UNCHANGED requests
        BY <1>3 DEF HaveSocket
    <2>2. Moves(c, Initialized(c))
        BY <1>1, <1>3, InitializedMoves
    <2> QED BY <1>1, <1>2, <2>1, <2>2, QuietRequests, CallerMoves
<1>4. CASE c.op = "init" /\ w \notin initialized
    <2>1. PICK u : u = [c EXCEPT !.init = w]
        OBVIOUS
    <2>2. PICK d : d = Doing(u, "autoAttach")
        OBVIOUS
    <2>3. call' = [call EXCEPT ![k] = d] /\ UNCHANGED requests
        BY <1>4, <2>1, <2>2 DEF HaveSocket
    <2>4. u \in Records /\ u.kind = c.kind /\ u.init = w
        BY <1>1, <2>1 DEF Records
    <2>5. d.kind = c.kind /\ d.op = "autoAttach" /\ d.at = "socket" /\ d.init = w
        BY <2>2, <2>4 DEF Doing, Records
    <2>6. call'[k] = d /\ \A j \in Callers : j # k => call'[j] = call[j]
        BY <1>1, <2>3
    <2>7. Stage(c.kind, c.op) <= Stage(d.kind, d.op)
        BY <1>4, <2>5 DEF Stage
    <2>8. Advances(c, d)
        BY <1>1, <2>5, <2>7 DEF Advances
    <2>9. OrderInv'
        <3>1. RequestsStay
            BY <2>3, QuietRequests
        <3> QED BY <2>6, <2>8, <3>1, OrderFrame DEF EnablingInv
    <2>10. ASSUME NEW j \in Callers PROVE Initializing(call[j])'
        <3>1. CASE j = k
            BY <1>1, <2>5, <2>6, <3>1 DEF Initializing, Opened
        <3>2. CASE j # k
            BY <1>1, <2>6, <3>2 DEF EnablingInv, Initializing, Opened
        <3> QED BY <3>1, <3>2
    <2> QED BY <1>1, <2>9, <2>10 DEF EnablingInv, InitializedIsEnabled, Opened
<1>5. CASE c.op # "init"
    <2>1. PICK d : d = [c EXCEPT !.at = "answer"]
        OBVIOUS
    <2>2. PICK q : q = Request(k)
        OBVIOUS
    <2>3. /\ call' = [call EXCEPT ![k] = d]
          /\ requests' = [requests EXCEPT ![w] = @ \cup {q}]
        BY <1>1, <1>5, <2>1, <2>2 DEF HaveSocket
    <2>4. /\ d.kind = c.kind /\ d.op = c.op /\ d.at = "answer" /\ d.ws = w /\ d.init = c.init
        BY <1>1, <2>1 DEF Records
    <2>5. q.caller = k /\ q.kind = c.kind /\ q.op = c.op
        BY <2>2 DEF Request
    <2>6. call'[k] = d /\ \A j \in Callers : j # k => call'[j] = call[j]
        BY <1>1, <2>3
    <2>7. ASSUME NEW v \in Sockets, NEW x \in requests'[v] PROVE Ordered(v, x, call'[x.caller])
        <3>1. CASE x \in requests[v]
            <4>1. Ordered(v, x, call[x.caller]) /\ x.caller \in Callers
                BY <1>1, <3>1 DEF EnablingInv, OrderInv, Requests
            <4>2. CASE x.caller = k
                BY <1>1, <2>4, <2>6, <4>1, <4>2 DEF Ordered, Done, Over
            <4> QED BY <2>6, <4>1, <4>2
        <3>2. CASE x \notin requests[v]
            <4>1. v = w /\ x = q
                BY <1>1, <2>3, <3>2
            <4>2. Stage(x.kind, x.op) <= Stage(d.kind, d.op)
                BY <2>4, <2>5, <4>1 DEF Stage
            <4> QED BY <2>4, <2>5, <2>6, <4>1, <4>2 DEF Ordered
        <3> QED BY <3>1, <3>2
    <2>8. ASSUME NEW j \in Callers PROVE Initializing(call[j])'
        <3>1. Initializing(call[j])
            BY DEF EnablingInv
        <3>2. CASE j = k
            <4>1. ASSUME c.op \in Enabling, ready[c.init] = "open" PROVE c.init = w
                <5>1. c.init \in Sockets
                    BY <3>1, <3>2, <4>1 DEF Initializing, Opened
                <5>2. endpoint[c.init] = e /\ endpoint[w] = e
                    BY <1>1, <4>1, <5>1 DEF Dialled
                <5>3. OneSocketPerEndpoint
                    BY DEF Inv, SocketInv
                <5> QED BY <1>1, <4>1, <5>1, <5>2, <5>3, OneSocketUnfolded
            <4> QED BY <1>1, <2>4, <2>6, <3>1, <3>2, <4>1 DEF Initializing, Opened
        <3>3. CASE j # k
            BY <1>1, <2>6, <3>1, <3>3 DEF Initializing, Opened
        <3> QED BY <3>2, <3>3
    <2> QED BY <1>1, <2>7, <2>8 DEF EnablingInv, OrderInv, InitializedIsEnabled, Opened
<1> QED BY <1>3, <1>4, <1>5

\* An answer of the browser.
LEMMA AnswerEnabling ==
    ASSUME Inv, TypeOK', EnablingInv, NEW w \in Sockets, NEW r \in requests[w], Answer(w, r)
    PROVE  EnablingInv'
<1> DEFINE c == call[r.caller]
<1>1. /\ requests \in [Sockets -> SUBSET Requests] /\ enabled \in [Sockets -> SUBSET Enabling]
      /\ ready[w] = "open" /\ requests' = [requests EXCEPT ![w] = @ \ {r}]
      /\ enabled' = [enabled EXCEPT ![w] = @ \cup ({r.op} \cap Enabling)]
      /\ UNCHANGED ready
    BY DEF Inv, TypeInv, TypeOK, Answer, Enabling
<1>2. SocketsGrow /\ RequestsStay
    <2>1. \A v \in Sockets : enabled[v] \subseteq enabled'[v]
        BY <1>1
    <2>2. \A v \in Sockets : requests'[v] \subseteq requests[v]
        BY <1>1
    <2> QED BY <1>1, <2>1, <2>2, QuietRequests DEF SocketsGrow, Opened
<1>3. CASE ~Awaited(r)
    <2>1. UNCHANGED <<call, initialized>>
        BY <1>3 DEF Answer
    <2> QED BY <1>2, <2>1, EnablingFrame
<1>4. CASE Awaited(r)
    <2>1. /\ r \in Requests /\ r.caller \in Callers /\ call \in [Callers -> Records]
          /\ Good(c) /\ c.at = "answer" /\ c.op = r.op /\ c.kind = r.kind
          /\ c \in Records /\ c.at \notin Done
        BY <1>4, AwaitedCaller DEF Inv, Done, Over, Good
    <2>2. PICK d \in Continued(c, r.session) : call' = [call EXCEPT ![r.caller] = d]
        BY <1>4 DEF Answer
    <2>3. /\ initialized' = initialized \cup Marked(c)
          /\ c.op = "attach" => r.session # NoSession
          /\ r.session \in Sessions \cup {NoSession}
        BY <1>4, <2>1 DEF Answer, Requests
    <2>4. call'[r.caller] = d /\ \A j \in Callers : j # r.caller => call'[j] = call[j]
        BY <2>1, <2>2
    <2>5. c.op \in Enabling => c.ws = w
        BY <2>1 DEF EnablingInv, OrderInv, Ordered
    <2>6. Initializing(c)
        BY <2>1 DEF EnablingInv
    <2>7. ASSUME c.op \in Enabling, ready[c.init] = "open" PROVE c.init = w
        BY <2>1, <2>5, <2>6, <2>7 DEF Initializing
    <2>8. CASE c.op = "autoAttach"
        <3>1. d = Doing(c, "discover") /\ UNCHANGED initialized
            BY <2>2, <2>3, <2>8 DEF Continued, Marked
        <3>2. d.kind = c.kind /\ d.op = "discover" /\ d.at = "socket" /\ d.init = c.init
            BY <2>1, <3>1 DEF Doing, Records
        <3>3. Stage(c.kind, c.op) <= Stage(d.kind, d.op)
            BY <2>8, <3>2 DEF Stage
        <3>4. Advances(c, d)
            BY <2>1, <2>8, <3>2, <3>3 DEF Advances
        <3>5. OrderInv'
            BY <1>2, <2>4, <3>4, OrderFrame DEF EnablingInv
        <3>6. "autoAttach" \in enabled'[w]
            BY <1>1, <2>1, <2>8 DEF Enabling
        <3>7. Opened(c.init)
            BY <2>6, <2>8 DEF Initializing, Enabling
        <3>8. ASSUME NEW j \in Callers PROVE Initializing(call[j])'
            <4>1. CASE j = r.caller
                BY <1>1, <2>4, <2>7, <2>8, <3>2, <3>6, <3>7, <4>1 DEF Initializing, Opened, Enabling
            <4>2. CASE j # r.caller
                <5>1. call'[j] = call[j] /\ Initializing(call[j])
                    BY <2>4, <4>2 DEF EnablingInv
                <5>2. \A v \in Sockets : enabled[v] \subseteq enabled'[v]
                    BY <1>1
                <5> QED BY <1>1, <5>1, <5>2 DEF Initializing, Opened
            <4> QED BY <4>1, <4>2
        <3>9. ASSUME NEW v \in initialized', ready'[v] = "open"
              PROVE  enabled'[v] = {"autoAttach", "discover"}
            <4>1. v \in initialized /\ v \in Sockets /\ ready[v] = "open"
                BY <1>1, <3>1, <3>9 DEF EnablingInv, Opened
            <4>2. enabled[v] = {"autoAttach", "discover"}
                BY <4>1 DEF EnablingInv, InitializedIsEnabled
            <4> QED BY <1>1, <4>1, <4>2 DEF Enabling
        <3> QED BY <1>1, <3>1, <3>5, <3>8, <3>9 DEF EnablingInv, InitializedIsEnabled, Opened
    <2>9. CASE c.op = "discover"
        <3>1. d = Initialized(c) /\ initialized' = initialized \cup {c.init}
            BY <2>2, <2>3, <2>9 DEF Continued, Marked
        <3>2. Moves(c, d)
            BY <2>1, <2>9, <3>1, InitializedMoves
        <3>3. OrderInv'
            BY <1>2, <2>4, <3>2, OrderFrame DEF EnablingInv, Moves
        <3>4. Opened(c.init)
            BY <2>6, <2>9 DEF Initializing, Enabling
        <3>5. \A v \in Sockets : enabled[v] \subseteq enabled'[v]
            BY <1>1
        <3>6. ASSUME NEW j \in Callers PROVE Initializing(call[j])'
            <4>1. CASE j = r.caller
                <5>1. d.op \in Enabling => d.op = c.op /\ d.init = c.init /\ d.at # "answer"
                    <6>1. d.at # "answer"
                        BY <2>1, <2>9, <3>1, InitializedFollows DEF Follows, Inv, TypeInv, Done
                    <6> QED BY <3>2, <6>1 DEF Moves, Keeps
                <5> QED BY <1>1, <2>4, <2>6, <3>4, <3>5, <4>1, <5>1 DEF Initializing, Opened
            <4>2. CASE j # r.caller
                <5>1. call'[j] = call[j] /\ Initializing(call[j])
                    BY <2>4, <4>2 DEF EnablingInv
                <5> QED BY <1>1, <3>5, <5>1 DEF Initializing, Opened
            <4> QED BY <4>1, <4>2
        <3>7. ASSUME NEW v \in initialized', ready'[v] = "open"
              PROVE  enabled'[v] = {"autoAttach", "discover"}
            <4>1. CASE v \in initialized
                <5>1. v \in Sockets /\ ready[v] = "open"
                    BY <1>1, <3>7, <4>1 DEF EnablingInv, Opened
                <5>2. enabled[v] = {"autoAttach", "discover"}
                    BY <4>1, <5>1 DEF EnablingInv, InitializedIsEnabled
                <5> QED BY <1>1, <5>1, <5>2 DEF Enabling
            <4>2. CASE v = c.init
                <5>1. v = w /\ "autoAttach" \in enabled[w]
                    BY <1>1, <2>6, <2>7, <2>9, <3>7, <4>2 DEF Initializing, Enabling
                <5>2. "discover" \in enabled'[w] /\ enabled'[w] \subseteq Enabling
                    BY <1>1, <2>1, <2>9 DEF Enabling
                <5> QED BY <3>5, <5>1, <5>2 DEF Enabling
            <4> QED BY <3>1, <4>1, <4>2
        <3> QED BY <1>1, <3>1, <3>3, <3>4, <3>6, <3>7 DEF EnablingInv, InitializedIsEnabled, Opened
    <2>10. CASE c.op \notin Enabling
        <3>1. UNCHANGED initialized
            BY <2>3, <2>10 DEF Marked, Enabling
        <3>2. Moves(c, d)
            BY <2>1, <2>2, <2>3, <2>10, ContinuedMoves DEF Enabling
        <3> QED BY <1>2, <2>1, <2>2, <3>1, <3>2, CallerMoves
    <2> QED BY <2>8, <2>9, <2>10 DEF Enabling
<1> QED BY <1>3, <1>4

\* An answer that makes its caller throw.
LEMMA AnswerThrowsEnabling ==
    ASSUME Inv, TypeOK', EnablingInv, NEW w \in Sockets, NEW r \in requests[w], AnswerThrows(w, r)
    PROVE  EnablingInv'
<1>1. /\ requests \in [Sockets -> SUBSET Requests] /\ requests' = [requests EXCEPT ![w] = @ \ {r}]
      /\ UNCHANGED <<ready, enabled, initialized>>
    BY DEF Inv, TypeInv, TypeOK, AnswerThrows, socketVars
<1>2. SocketsGrow /\ RequestsStay
    BY <1>1, QuietSockets, QuietRequests
<1>3. CASE Awaited(r)
    <2>1. Throw({r.caller}) /\ call[r.caller].at \notin Done
        BY <1>3, AwaitedCaller DEF AnswerThrows, Inv, Done, Over
    <2> QED BY <1>1, <1>2, <2>1, CallersThrow
<1>4. CASE ~Awaited(r)
    BY <1>1, <1>2, <1>4, EnablingFrame DEF AnswerThrows
<1> QED BY <1>3, <1>4

\* While e is the endpoint, every socket that is dialled leads to e.
LEMMA DialledStep ==
    ASSUME TypeOK, NEW e, loopback_cdp_url \in {NoEndpoint, e}, Dialled(e), [Next]_vars
    PROVE  Dialled(e)'
<1>1. /\ ready \in [Sockets -> {"none", "connecting", "open", "closing", "closed"}]
      /\ endpoint \in [Sockets -> Endpoints \cup {NoEndpoint}]
    BY DEF TypeOK
<1>2. ASSUME NEW k \in Callers, GetSocket(k) PROVE Dialled(e)'
    <2>1. \/ UNCHANGED <<ready, endpoint>>
          \/ \E w \in Sockets : /\ ready' = [ready EXCEPT ![w] = "connecting"]
                                /\ endpoint' = [endpoint EXCEPT ![w] = e]
        BY <1>2 DEF GetSocket, socketVars
    <2> QED BY <1>1, <2>1 DEF Dialled
<1>3. ASSUME NEW w \in Sockets, SocketOpens(w) \/ DialFails(w) \/ SocketClosing(w) \/ SocketLost(w)
      PROVE  Dialled(e)'
    <2>1. UNCHANGED endpoint /\ ready[w] # "none" /\ \A v \in Sockets : v # w => ready'[v] = ready[v]
        BY <1>1, <1>3 DEF SocketOpens, DialFails, SocketClosing, SocketLost
    <2> QED BY <2>1 DEF Dialled
<1>4. ASSUME UNCHANGED <<ready, endpoint>> PROVE Dialled(e)'
    BY <1>4 DEF Dialled
<1>5. ASSUME NEW k \in Callers,
             \/ \E t \in Forms : StartCommand(k, t)
             \/ \E x \in Endpoints : StartConfigure(k, x)
             \/ StartDiscover(k) \/ Fetched(k) \/ FetchFailed(k)
             \/ HaveSocket(k) \/ Timeout(k) \/ ContextTimeout(k) \/ TabsAnswer(k)
      PROVE  Dialled(e)'
    BY <1>4, <1>5 DEF StartCommand, StartConfigure, StartDiscover, Fetched, FetchFailed,
                      HaveSocket, Timeout, ContextTimeout, TabsAnswer, socketVars
<1>6. ASSUME \/ \E w \in Sockets, s \in Sessions, t \in Targets : AutoAttached(w, s, t)
             \/ \E w \in Sockets, s \in Sessions : \E r \in requests[w] : AttachedAsRequested(w, r, s)
             \/ \E s \in Sessions : Detached(s) \/ ContextCreated(s)
             \/ \E w \in Sockets : \E r \in requests[w] : Answer(w, r) \/ AnswerThrows(w, r)
      PROVE  Dialled(e)'
    BY <1>4, <1>6, ZenonT(30) DEF AutoAttached, AttachedAsRequested, Detached, ContextCreated, Answer,
                      AnswerThrows, socketVars
<1>7. CASE UNCHANGED vars
    BY <1>4, <1>7 DEF vars, socketVars
<1> QED BY <1>2, <1>3, <1>5, <1>6, <1>7 DEF Next

\* Every step of the worker keeps the invariant of initializations while there is one endpoint.
LEMMA EnablingStep ==
    ASSUME Inv, NEW e, Dialled(e), EnablingInv, [Next]_vars PROVE EnablingInv'
<1>1. TypeOK'
    BY NextInv DEF Inv, TypeInv
<1>2. ASSUME NEW k \in Callers,
             \/ \E t \in Forms : StartCommand(k, t)
             \/ \E x \in Endpoints : StartConfigure(k, x)
             \/ StartDiscover(k) \/ Fetched(k) \/ FetchFailed(k)
             \/ Timeout(k) \/ ContextTimeout(k) \/ TabsAnswer(k)
      PROVE  EnablingInv'
    BY <1>1, <1>2, QuietEnabling
<1>3. ASSUME NEW k \in Callers, GetSocket(k) PROVE EnablingInv'
    BY <1>1, <1>3, GetSocketEnabling
<1>4. ASSUME NEW k \in Callers, HaveSocket(k) PROVE EnablingInv'
    BY <1>1, <1>4, HaveSocketEnabling
<1>5. ASSUME NEW w \in Sockets, NEW r \in requests[w], Answer(w, r) PROVE EnablingInv'
    BY <1>1, <1>5, AnswerEnabling
<1>6. ASSUME NEW w \in Sockets, NEW r \in requests[w], AnswerThrows(w, r) PROVE EnablingInv'
    BY <1>1, <1>6, AnswerThrowsEnabling
<1> QED BY <1>1, <1>2, <1>3, <1>4, <1>5, <1>6, SocketsEnabling DEF Next

\* In every run in which the loopback endpoint is e or none, an open socket that counts
\* as initialized has both auto-attach and discovery on, however initializations of it
\* and of the sockets before it overlap (initializeLoopbackCDP).
THEOREM OneEndpointEnabled ==
    ASSUME NEW e \in Endpoints
    PROVE  Spec /\ [](loopback_cdp_url \in {NoEndpoint, e}) => []InitializedIsEnabled
<1> DEFINE AtE == loopback_cdp_url \in {NoEndpoint, e}
           IInv == Dialled(e) /\ EnablingInv
<1>1. Init => IInv
    <2> SUFFICES ASSUME Init PROVE IInv
        OBVIOUS
    <2>1. /\ \A w \in Sockets : ready[w] = "none" /\ requests[w] = {}
          /\ initialized = {} /\ \A k \in Callers : call[k].op = "init"
        BY DEF Init, Fresh
    <2> QED BY <2>1 DEF Dialled, EnablingInv, OrderInv, Initializing, InitializedIsEnabled, Enabling
<1>2. Inv /\ AtE /\ IInv /\ [Next]_vars => IInv'
    <2>1. Inv => TypeOK
        BY DEF Inv, TypeInv
    <2> QED BY <2>1, DialledStep, EnablingStep
<1>3. IInv => InitializedIsEnabled
    BY DEF EnablingInv
<1> HIDE DEF AtE, IInv
<1>4. Spec /\ []AtE => []InitializedIsEnabled
    BY <1>1, <1>2, <1>3, Invariance, PTL DEF Spec
<1> QED BY <1>4 DEF AtE

=============================================================================
