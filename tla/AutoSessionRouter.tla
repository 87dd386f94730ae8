------------------------- MODULE AutoSessionRouter -------------------------
(***************************************************************************)
(* The session router every ModCDP client keeps beside its CDP connection  *)
(* (js/src/router/AutoSessionRouter.ts): which browser session serves a    *)
(* target, which execution context a session has, and the promises of the  *)
(* callers that wait for one.  The router is driven by protocol events in  *)
(* the order the connection delivers them, by callers that attach and      *)
(* wait, and by timers; JavaScript runs each handler to completion, so     *)
(* each is one action.  A caller that awaits a response goes on in an      *)
(* action of its own: where the transport hands over several messages at   *)
(* once, those behind the response are handled first.                      *)
(*                                                                         *)
(* The environment is the browser.  live is what it has told the client so *)
(* far; a context event comes from the renderer and may be delivered       *)
(* arbitrarily late, even after its session was detached, which is what    *)
(* the detached-session guards are for.                                    *)
(***************************************************************************)
EXTENDS Naturals, Sequences, SequencesExt

CONSTANTS
    Targets,     \* browser targets (pages, service workers)
    Sessions,    \* flat session ids; one may be attached again once detached
    Contexts,    \* Runtime execution context ids
    Callers,     \* calls of attachToTarget and waitForExecutionContext
    NoTarget, NoSession, NoContext,
    Chunked,     \* the transport handles all messages of a chunk in one turn
    MaxDetachedSessionGuards   \* max_detached_session_guards, 1024 in the code

ASSUME ConstantsAssumption ==
    /\ NoTarget \notin Targets
    /\ NoSession \notin Sessions
    /\ NoContext \notin Contexts
    /\ Chunked \in BOOLEAN
    /\ MaxDetachedSessionGuards \in Nat \ {0}

VARIABLES
    target_sessions,            \* target -> session that serves it
    session_targets,            \* session -> target it was attached to
    execution_contexts,         \* session -> last execution context reported
    execution_context_waiters,  \* session -> callers whose promise is pending
    detached_sessions,          \* guarded session ids, oldest first
    timers,                     \* callers whose wait timeout is armed
    pc, wanted, session, result,  \* per caller: progress, target, session, context
    overtaken,                  \* history: callers whose session was detached between
                                \*   the response and their return
    live,                       \* browser: session -> target, as reported
    emitted                     \* browser: context events not yet delivered

routerVars == <<target_sessions, session_targets, execution_contexts,
                execution_context_waiters, detached_sessions>>
callerVars == <<timers, pc, wanted, session, result, overtaken>>
browserVars == <<live, emitted>>
vars == <<routerVars, callerVars, browserVars>>

\* attachToTarget awaits the browser ("attaching"), whose event comes first
\* ("announced"), then its response ("answered"), then it returns ("attached").
\* The last three are settled waits.
Progress == {"idle", "attaching", "announced", "answered", "attached", "waiting",
             "resolved", "rejected", "timedout"}

Init ==
    /\ target_sessions = [t \in Targets |-> NoSession]
    /\ session_targets = [s \in Sessions |-> NoTarget]
    /\ execution_contexts = [s \in Sessions |-> NoContext]
    /\ execution_context_waiters = [s \in Sessions |-> {}]
    /\ detached_sessions = <<>>
    /\ timers = {}
    /\ pc = [k \in Callers |-> "idle"]
    /\ wanted = [k \in Callers |-> NoTarget]
    /\ session = [k \in Callers |-> NoSession]
    /\ result = [k \in Callers |-> NoContext]
    /\ overtaken = {}
    /\ live = [s \in Sessions |-> NoTarget]
    /\ emitted = {}

-----------------------------------------------------------------------------
(* The pieces of recordProtocolEvent and waitForExecutionContext.  A        *)
(* definition named Bad... is a faulty variant of the one below it, kept to *)
(* show that the properties notice the fault; nothing uses it.              *)

BadSettle(W, outcome, context) ==      \* timers cleared, a rejection never sent
    /\ timers' = timers \ W
    /\ pc' = [k \in Callers |-> IF k \in W /\ outcome = "resolved" THEN outcome ELSE pc[k]]
    /\ result' = [k \in Callers |-> IF k \in W THEN context ELSE result[k]]

\* Clear the timers of the callers in W and settle their promises.
Settle(W, outcome, context) ==
    /\ timers' = timers \ W
    /\ pc' = [k \in Callers |-> IF k \in W THEN outcome ELSE pc[k]]
    /\ result' = [k \in Callers |-> IF k \in W THEN context ELSE result[k]]

AddWaiter(k, s) == [execution_context_waiters EXCEPT ![s] = @ \cup {k}]

BadWaitersOf(s) == UNION {execution_context_waiters[x] : x \in Sessions}  \* everyone's

WaitersOf(s) == execution_context_waiters[s]

BadKnownContext(s) == NoContext        \* the table is not consulted first

KnownContext(s) == execution_contexts[s]

BadIsGuarded(s) == FALSE               \* late events are not filtered

IsGuarded(s) == s \in ToSet(detached_sessions)

\* Map.delete on an insertion-ordered map of distinct keys.
Without(guards, s) ==
    IF s \in ToSet(guards)
    THEN RemoveAt(guards, CHOOSE i \in DOMAIN guards : guards[i] = s)
    ELSE guards

\* The guard moves to the newest place; at most one guard is then too many.
MarkDetachedSession(guards, s) ==
    LET newest == Append(Without(guards, s), s)
    IN  IF Len(newest) > MaxDetachedSessionGuards THEN Tail(newest) ELSE newest

BadUnmapped(s) == target_sessions      \* the session goes, its target's entry stays

\* The entry of the session's target is dropped, whichever session it names.
Unmapped(s) == [t \in Targets |-> IF t = session_targets[s] THEN NoSession
                                  ELSE target_sessions[t]]

\* Target.attachedToTarget: the newest session of a target serves it.
RecordAttached(s, t) ==
    /\ detached_sessions' = Without(detached_sessions, s)
    /\ target_sessions' = [target_sessions EXCEPT ![t] = s]
    /\ session_targets' = [session_targets EXCEPT ![s] = t]
    /\ UNCHANGED <<execution_contexts, execution_context_waiters>>

\* Runtime.executionContextCreated: dropped for a guarded session.
RecordExecutionContext(s, c) ==
    \/ /\ IsGuarded(s)
       /\ UNCHANGED <<routerVars, callerVars>>
    \/ /\ ~IsGuarded(s)
       /\ execution_contexts' = [execution_contexts EXCEPT ![s] = c]
       /\ execution_context_waiters' = [execution_context_waiters EXCEPT ![s] = {}]
       /\ Settle(WaitersOf(s), "resolved", c)
       /\ UNCHANGED <<target_sessions, session_targets, detached_sessions, wanted, session,
                      overtaken>>

\* Target.detachedFromTarget.
ForgetSession(s) ==
    /\ target_sessions' = Unmapped(s)
    /\ session_targets' = [session_targets EXCEPT ![s] = NoTarget]
    /\ execution_contexts' = [execution_contexts EXCEPT ![s] = NoContext]
    /\ detached_sessions' = MarkDetachedSession(detached_sessions, s)
    /\ execution_context_waiters' = [execution_context_waiters EXCEPT ![s] = {}]
    /\ Settle(WaitersOf(s), "rejected", NoContext)
    /\ overtaken' = overtaken \cup {k \in Callers : pc[k] = "answered" /\ session[k] = s}
    /\ UNCHANGED <<wanted, session>>

-----------------------------------------------------------------------------
(* Callers.                                                                 *)

\* The connection's next message is handled, before those go on whom the one before
\* it answered only if both came in one chunk.
NextMessage == Chunked \/ \A k \in Callers : pc[k] # "answered"

\* attachToTarget: an existing session is returned, otherwise the command
\* leaves for the browser and nothing is recorded until the event arrives.
AttachToTarget(k, t) ==
    /\ pc[k] = "idle"
    /\ wanted' = [wanted EXCEPT ![k] = t]
    /\ \/ /\ target_sessions[t] # NoSession
          /\ pc' = [pc EXCEPT ![k] = "attached"]
          /\ session' = [session EXCEPT ![k] = target_sessions[t]]
       \/ /\ target_sessions[t] = NoSession
          /\ pc' = [pc EXCEPT ![k] = "attaching"]
          /\ UNCHANGED session
    /\ UNCHANGED <<routerVars, browserVars, timers, result, overtaken>>

\* The browser attaches as it was asked to: the event comes before the response.
AttachAnnounced(k, s) ==
    /\ NextMessage /\ pc[k] = "attaching"
    /\ live[s] = NoTarget
    /\ live' = [live EXCEPT ![s] = wanted[k]]
    /\ RecordAttached(s, wanted[k])
    /\ pc' = [pc EXCEPT ![k] = "announced"]
    /\ session' = [session EXCEPT ![k] = s]
    /\ UNCHANGED <<timers, wanted, result, overtaken, emitted>>

\* The promise of send resolves, with the session or with a result that names none.
AttachResponse(k) ==
    /\ NextMessage /\ pc[k] \in {"attaching", "announced"}
    /\ pc' = [pc EXCEPT ![k] = "answered"]
    /\ UNCHANGED <<routerVars, browserVars, timers, wanted, session, result, overtaken>>

\* attachToTarget goes on behind its await, and returns the session or null.
AttachReturn(k) ==
    /\ pc[k] = "answered"
    /\ pc' = [pc EXCEPT ![k] = "attached"]
    /\ UNCHANGED <<routerVars, browserVars, timers, wanted, session, result, overtaken>>

\* The browser answers with an error (the target is gone).
AttachError(k) ==
    /\ NextMessage /\ pc[k] = "attaching"
    /\ pc' = [pc EXCEPT ![k] = "rejected"]
    /\ UNCHANGED <<routerVars, browserVars, timers, wanted, session, result, overtaken>>

\* waitForExecutionContext, on the session just attached or on any id a
\* caller already holds; a known context answers at once.
WaitForExecutionContext(k, s) ==
    /\ \/ pc[k] = "idle"
       \/ pc[k] = "attached" /\ session[k] = s
    /\ session' = [session EXCEPT ![k] = s]
    /\ \/ /\ KnownContext(s) # NoContext
          /\ pc' = [pc EXCEPT ![k] = "resolved"]
          /\ result' = [result EXCEPT ![k] = KnownContext(s)]
          /\ UNCHANGED <<timers, execution_context_waiters>>
       \/ /\ KnownContext(s) = NoContext
          /\ pc' = [pc EXCEPT ![k] = "waiting"]
          /\ timers' = timers \cup {k}
          /\ execution_context_waiters' = AddWaiter(k, s)
          /\ UNCHANGED result
    /\ UNCHANGED <<target_sessions, session_targets, execution_contexts,
                   detached_sessions, wanted, overtaken, browserVars>>

\* There is nothing to wait for where attachToTarget returned null.
WaitWithoutSession(k) ==
    /\ pc[k] = "attached" /\ session[k] = NoSession
    /\ pc' = [pc EXCEPT ![k] = "rejected"]
    /\ UNCHANGED <<routerVars, browserVars, timers, wanted, session, result, overtaken>>

\* The waiter's timeout fires, behind all that was to go on: it leaves the table and
\* its promise rejects.
WaitTimeout(k) ==
    /\ k \in timers /\ \A j \in Callers : pc[j] # "answered"
    /\ timers' = timers \ {k}
    /\ pc' = [pc EXCEPT ![k] = "timedout"]
    /\ execution_context_waiters' =
           [execution_context_waiters EXCEPT ![session[k]] = @ \ {k}]
    /\ UNCHANGED <<target_sessions, session_targets, execution_contexts,
                   detached_sessions, wanted, session, result, overtaken, browserVars>>

-----------------------------------------------------------------------------
(* The browser, whose events recordProtocolEvent handles as they arrive.    *)

\* Target.setAutoAttach: a session nobody asked for by name.
AutoAttach(s, t) ==
    /\ NextMessage /\ live[s] = NoTarget
    /\ live' = [live EXCEPT ![s] = t]
    /\ RecordAttached(s, t)
    /\ UNCHANGED <<callerVars, emitted>>

\* Never between the two messages that a session begins with.
Detach(s) ==
    /\ NextMessage /\ live[s] # NoTarget
    /\ \A k \in Callers : pc[k] = "announced" => session[k] # s
    /\ live' = [live EXCEPT ![s] = NoTarget]
    /\ ForgetSession(s)
    /\ UNCHANGED emitted

\* The renderer creates a context while its session is attached.
EmitContext(s, c) ==
    /\ live[s] # NoTarget
    /\ emitted' = emitted \cup {<<s, c>>}
    /\ UNCHANGED <<routerVars, callerVars, live>>

DeliverContext(s, c) ==
    /\ NextMessage /\ <<s, c>> \in emitted
    /\ emitted' = emitted \ {<<s, c>>}
    /\ RecordExecutionContext(s, c)
    /\ UNCHANGED live

Next ==
    \/ \E k \in Callers, t \in Targets : AttachToTarget(k, t)
    \/ \E k \in Callers, s \in Sessions : AttachAnnounced(k, s)
    \/ \E k \in Callers : AttachResponse(k)
    \/ \E k \in Callers : AttachReturn(k)
    \/ \E k \in Callers : AttachError(k)
    \/ \E k \in Callers, s \in Sessions : WaitForExecutionContext(k, s)
    \/ \E k \in Callers : WaitWithoutSession(k)
    \/ \E k \in Callers : WaitTimeout(k)
    \/ \E s \in Sessions, t \in Targets : AutoAttach(s, t)
    \/ \E s \in Sessions : Detach(s)
    \/ \E s \in Sessions, c \in Contexts : EmitContext(s, c)
    \/ \E s \in Sessions, c \in Contexts : DeliverContext(s, c)

Spec == Init /\ [][Next]_vars

\* An armed timer fires unless it is cleared, and what was answered goes on: the only
\* progress the event loop owes a waiter whose session stays silent.
FairSpec == Spec /\ \A k \in Callers : WF_vars(WaitTimeout(k)) /\ WF_vars(AttachReturn(k))

-----------------------------------------------------------------------------
(* Properties.                                                              *)

\* Every variable stays in its domain; the detached-session guards stay distinct
\* and within their bound, whatever order of detaches and attaches marks them.
TypeOK ==
    /\ target_sessions \in [Targets -> Sessions \cup {NoSession}]
    /\ session_targets \in [Sessions -> Targets \cup {NoTarget}]
    /\ execution_contexts \in [Sessions -> Contexts \cup {NoContext}]
    /\ execution_context_waiters \in [Sessions -> SUBSET Callers]
    /\ detached_sessions \in Seq(Sessions)
    /\ Len(detached_sessions) <= MaxDetachedSessionGuards
    /\ IsInjective(detached_sessions)
    /\ timers \in SUBSET Callers
    /\ pc \in [Callers -> Progress]
    /\ wanted \in [Callers -> Targets \cup {NoTarget}]
    /\ session \in [Callers -> Sessions \cup {NoSession}]
    /\ result \in [Callers -> Contexts \cup {NoContext}]
    /\ overtaken \in SUBSET Callers
    /\ live \in [Sessions -> Targets \cup {NoTarget}]
    /\ emitted \in SUBSET (Sessions \X Contexts)

\* A promise is pending exactly while its waiter is in the table of its session
\* and its timer is armed: no handler loses, duplicates or misfiles a waiter,
\* and none settles a promise but leaves its timer running.
WaitersArmed ==
    \A k \in Callers :
        /\ pc[k] = "waiting" <=> k \in timers
        /\ \A s \in Sessions :
             k \in execution_context_waiters[s] <=> pc[k] = "waiting" /\ session[k] = s

\* No caller sleeps on a session whose execution context the router knows: the
\* check and the registration in waitForExecutionContext miss no event.
NoMissedContext ==
    \A s \in Sessions :
        execution_contexts[s] # NoContext => execution_context_waiters[s] = {}

\* The table of waiters loses no one: who waits is in it, armed, and does not wait for
\* what is known.
WaitersKept == WaitersArmed /\ NoMissedContext

\* sessionIdForTarget never names a session the browser has detached or one
\* attached to another target, however attaches and detaches interleave.
MappedSessionsLive ==
    \A t \in Targets : target_sessions[t] # NoSession => live[target_sessions[t]] = t

\* A session that is detached and guarded has no execution context, although
\* its context events may still be in flight.
GuardedSessionsClean ==
    \A s \in ToSet(detached_sessions) :
        live[s] = NoTarget /\ execution_contexts[s] = NoContext

\* A session that is attached loses the entry of its target only to another session of
\* that target, one that attaches after it or, whichever is the newer, one that detaches.
EntryLostToSibling(s, t) ==
    live[s] = t /\ target_sessions[t] = s /\ live'[s] = t /\ target_sessions'[t] # s
      => \E x \in Sessions \ {s} : {live[x], live'[x]} = {t, NoTarget}

\* However attaches, detaches and late context events interleave, sessionIdForTarget
\* names only sessions that the browser has attached to that target and not denied since,
\* the entry of one goes with it or with a session of the same target, and a session that
\* is still guarded has no execution context (once its guard is evicted it may have).
TablesFollowBrowser ==
    /\ [](MappedSessionsLive /\ GuardedSessionsClean)
    /\ [][\A s \in Sessions, t \in Targets : EntryLostToSibling(s, t)]_vars

\* While no more sessions exist than guards, no execution context outlives its
\* session: a late context event cannot bring a detached session back.
ContextsOfLiveSessions ==
    \A s \in Sessions : execution_contexts[s] # NoContext => live[s] # NoTarget

\* The session that attachToTarget returns is attached to the target it was asked for
\* when it returns, be it from the table or from the browser; but where the transport hands
\* over several messages at once, the browser may have detached it in a message behind
\* the response, and then alone the caller gets a dead session.
AttachReturnsServing ==
    [][\A k \in Callers :
         pc[k] \in {"idle", "answered"} /\ pc'[k] = "attached" /\ session'[k] # NoSession
           => \/ live'[session'[k]] = wanted'[k]
              \/ Chunked /\ k \in overtaken]_vars

\* A waiter resolves with the context its own session has, and a pending wait
\* is rejected before its timeout only in the step that detaches its session.
WaitsSettledBySession ==
    [][\A k \in Callers :
         /\ pc[k] # "resolved" /\ pc'[k] = "resolved"
              => result'[k] = execution_contexts'[session'[k]] /\ result'[k] # NoContext
         /\ pc[k] = "waiting" /\ pc'[k] = "rejected"
              => live[session[k]] # NoTarget /\ live'[session[k]] = NoTarget]_vars

\* Every wait for an execution context ends, even if the browser never speaks
\* of its session again.
EveryWaitEnds ==
    \A k \in Callers : (pc[k] = "waiting") ~> (pc[k] # "waiting")

=============================================================================
