---------------------- MODULE AutoSessionRouterProofs ----------------------
(***************************************************************************)
(* Proofs about AutoSessionRouter for every set of targets, sessions,      *)
(* contexts and callers and every bound on the guards.                     *)
(***************************************************************************)
EXTENDS AutoSessionRouter, FiniteSets, SequenceTheorems, FiniteSetTheorems, TLAPS

-----------------------------------------------------------------------------
(* The insertion-ordered map of guards as a sequence of distinct sessions.  *)

\* Deleting a key removes exactly that key and keeps the keys distinct.
LEMMA WithoutProperties ==
    ASSUME NEW S, NEW q \in Seq(S), IsInjective(q), NEW s \in S
    PROVE  /\ Without(q, s) \in Seq(S)
           /\ IsInjective(Without(q, s))
           /\ ToSet(Without(q, s)) = ToSet(q) \ {s}
           /\ Len(Without(q, s)) <= Len(q)
           /\ s \in ToSet(q) => Len(Without(q, s)) = Len(q) - 1
<1>1. CASE s \notin ToSet(q)
  <2>1. Without(q, s) = q
    BY <1>1 DEF Without
  <2>2. QED
    BY <2>1, <1>1
<1>2. CASE s \in ToSet(q)
  <2> DEFINE i == CHOOSE j \in DOMAIN q : q[j] = s
             w == Without(q, s)
  <2>1. i \in 1..Len(q) /\ q[i] = s
    BY <1>2 DEF ToSet
  <2>2. w = SubSeq(q, 1, i-1) \o SubSeq(q, i+1, Len(q))
    BY <1>2 DEF Without, RemoveAt
  <2> HIDE DEF i
  <2>3. /\ SubSeq(q, 1, i-1) \in Seq(S)
        /\ Len(SubSeq(q, 1, i-1)) = i-1
        /\ \A j \in 1..i-1 : SubSeq(q, 1, i-1)[j] = q[j]
    <3>1. \A j \in 1..i-1 : q[j] \in S
      BY <2>1
    <3>2. QED
      BY <3>1, <2>1, SubSeqProperties
  <2>4. /\ SubSeq(q, i+1, Len(q)) \in Seq(S)
        /\ Len(SubSeq(q, i+1, Len(q))) = Len(q) - i
        /\ \A j \in 1..Len(q)-i : SubSeq(q, i+1, Len(q))[j] = q[j+i]
    <3>1. \A j \in i+1..Len(q) : q[j] \in S
      BY <2>1
    <3>2. /\ SubSeq(q, i+1, Len(q)) \in Seq(S)
          /\ Len(SubSeq(q, i+1, Len(q))) = IF i+1 <= Len(q) THEN Len(q)-(i+1)+1 ELSE 0
          /\ \A j \in 1 .. Len(q)-(i+1)+1 : SubSeq(q, i+1, Len(q))[j] = q[(i+1)+j-1]
      BY <3>1, <2>1, SubSeqProperties
    <3>3. QED
      BY <3>2, <2>1
  <2>5. /\ w \in Seq(S)
        /\ Len(w) = Len(q) - 1
        /\ \A j \in 1..Len(q)-1 : w[j] = IF j <= i-1 THEN q[j] ELSE q[j+1]
    <3> DEFINE a == SubSeq(q, 1, i-1)
               b == SubSeq(q, i+1, Len(q))
    <3> HIDE DEF a, b
    <3>1. /\ a \o b \in Seq(S)
          /\ Len(a \o b) = Len(a) + Len(b)
          /\ \A j \in 1 .. Len(a) + Len(b) :
               (a \o b)[j] = IF j <= Len(a) THEN a[j] ELSE b[j - Len(a)]
      BY <2>3, <2>4, ConcatProperties DEF a, b
    <3>2. /\ Len(a) = i-1 /\ Len(b) = Len(q) - i
          /\ \A j \in 1..i-1 : a[j] = q[j]
          /\ \A j \in 1..Len(q)-i : b[j] = q[j+i]
      BY <2>3, <2>4 DEF a, b
    <3>3. w = a \o b
      BY <2>2 DEF a, b
    <3> HIDE DEF w
    <3>4. Len(a) + Len(b) = Len(q) - 1
      BY <3>2, <2>1
    <3>5. ASSUME NEW j \in 1..Len(q)-1
          PROVE  w[j] = IF j <= i-1 THEN q[j] ELSE q[j+1]
      <4>1. j \in 1 .. Len(a) + Len(b)
        BY <3>4
      <4>2. w[j] = IF j <= Len(a) THEN a[j] ELSE b[j - Len(a)]
        BY <4>1, <3>1, <3>3
      <4>3. CASE j <= i-1
        BY <4>2, <4>3, <3>2, <2>1
      <4>4. CASE ~(j <= i-1)
        <5>1. j - (i-1) \in 1..Len(q)-i /\ (j - (i-1)) + i = j+1
          BY <4>4, <2>1
        <5>2. b[j - (i-1)] = q[j+1]
          BY <5>1, <3>2
        <5>3. QED
          BY <4>2, <4>4, <5>2, <3>2
      <4>5. QED
        BY <4>3, <4>4
    <3>6. QED
      BY <3>1, <3>3, <3>4, <3>5
  <2> HIDE DEF w
  <2>6. IsInjective(w)
    <3> DEFINE g(j) == IF j <= i-1 THEN j ELSE j+1
    <3>1. \A j \in 1..Len(q)-1 : g(j) \in 1..Len(q) /\ w[j] = q[g(j)]
      BY <2>5, <2>1
    <3>2. \A j, k \in 1..Len(q)-1 : g(j) = g(k) => j = k
      BY <2>1
    <3>3. DOMAIN w = 1..Len(q)-1 /\ DOMAIN q = 1..Len(q)
      BY <2>5
    <3> HIDE DEF g
    <3>4. QED
      BY <3>1, <3>2, <3>3 DEF IsInjective
  <2>7. ToSet(w) = ToSet(q) \ {s}
    <3>1. ASSUME NEW x \in ToSet(w) PROVE x \in ToSet(q) \ {s}
      BY <3>1, <2>5, <2>1 DEF ToSet, IsInjective
    <3>2. ASSUME NEW x \in ToSet(q) \ {s} PROVE x \in ToSet(w)
      <4>1. PICK j \in 1..Len(q) : q[j] = x
        BY <3>2 DEF ToSet
      <4>2. CASE j < i
        BY <4>1, <4>2, <2>5, <2>1 DEF ToSet
      <4>3. CASE j > i
        <5>1. j-1 \in 1..Len(w) /\ w[j-1] = q[j]
          BY <4>1, <4>3, <2>5, <2>1
        <5>2. QED
          BY <5>1, <4>1, <2>5 DEF ToSet
      <4>4. j # i
        BY <4>1, <2>1, <3>2
      <4>5. QED
        BY <4>1, <4>2, <4>3, <4>4, <2>1
    <3>3. QED
      BY <3>1, <3>2
  <2>8. QED
    BY <2>5, <2>6, <2>7 DEF w
<1>3. QED
  BY <1>1, <1>2

\* Guarding a session leaves it guarded, adds no other session, evicts at most
\* the oldest and stays within the bound.
LEMMA MarkProperties ==
    ASSUME NEW q \in Seq(Sessions), IsInjective(q),
           Len(q) <= MaxDetachedSessionGuards, NEW s \in Sessions
    PROVE  LET m == MarkDetachedSession(q, s)
           IN  /\ m \in Seq(Sessions)
               /\ IsInjective(m)
               /\ Len(m) <= MaxDetachedSessionGuards
               /\ ToSet(m) \subseteq ToSet(q) \cup {s}
               /\ Len(Without(q, s)) < MaxDetachedSessionGuards
                    => ToSet(m) = ToSet(q) \cup {s}
<1> DEFINE w == Without(q, s)
           n == Append(w, s)
           m == MarkDetachedSession(q, s)
<1>1. /\ w \in Seq(Sessions)
      /\ IsInjective(w)
      /\ ToSet(w) = ToSet(q) \ {s}
      /\ Len(w) <= Len(q)
  BY WithoutProperties
<1>2. m = IF Len(n) > MaxDetachedSessionGuards THEN Tail(n) ELSE n
  BY DEF MarkDetachedSession
<1> HIDE DEF w, m
<1>3. /\ n \in Seq(Sessions)
      /\ Len(n) = Len(w) + 1
      /\ \A i \in 1..Len(w) : n[i] = w[i]
      /\ n[Len(w) + 1] = s
  BY <1>1, AppendProperties
<1> HIDE DEF n
<1>4. IsInjective(n)
  BY <1>1, <1>3, SMTT(30) DEF IsInjective, ToSet
<1>5. ToSet(n) = ToSet(q) \cup {s}
  <2>1. ToSet(n) = ToSet(w) \cup {s}
    BY <1>1, <1>3 DEF ToSet
  <2>2. QED
    BY <2>1, <1>1
<1>6. CASE Len(n) > MaxDetachedSessionGuards
  <2>1. m = Tail(n) /\ n # <<>>
    BY <1>2, <1>6, ConstantsAssumption DEF ConstantsAssumption
  <2>2. /\ m \in Seq(Sessions)
        /\ Len(m) = Len(n) - 1
        /\ \A i \in 1..Len(m) : m[i] = n[i+1]
    BY <2>1, <1>3, HeadTailProperties
  <2>3. IsInjective(m)
    <3>1. DOMAIN m = 1..Len(m) /\ DOMAIN n = 1..Len(n)
      BY <2>2, <1>3
    <3>2. ASSUME NEW a \in 1..Len(m), NEW b \in 1..Len(m), m[a] = m[b]
          PROVE  a = b
      <4>1. a+1 \in DOMAIN n /\ b+1 \in DOMAIN n
        BY <3>1, <2>2, <1>3, <1>1
      <4>2. n[a+1] = n[b+1]
        BY <2>2, <3>2
      <4>3. a+1 = b+1
        BY <4>1, <4>2, <1>4 DEF IsInjective
      <4>4. QED
        BY <4>3
    <3>3. QED
      BY <3>1, <3>2 DEF IsInjective
  <2>4. ToSet(m) \subseteq ToSet(n)
    <3>1. ASSUME NEW i \in 1..Len(m) PROVE m[i] \in ToSet(n)
      <4>1. i+1 \in DOMAIN n /\ m[i] = n[i+1]
        BY <2>2, <1>3, <1>1
      <4>2. QED
        BY <4>1 DEF ToSet
    <3>2. QED
      BY <3>1, <2>2 DEF ToSet
  <2>5. Len(m) <= MaxDetachedSessionGuards
    BY <2>2, <1>3, <1>1, ConstantsAssumption DEF ConstantsAssumption
  <2>6. ~(Len(w) < MaxDetachedSessionGuards)
    BY <1>3, <1>6, <1>1, ConstantsAssumption DEF ConstantsAssumption
  <2>7. QED
    BY <2>2, <2>3, <2>4, <2>5, <2>6, <1>5 DEF m, w
<1>7. CASE ~(Len(n) > MaxDetachedSessionGuards)
  <2>1. m = n
    BY <1>2, <1>7
  <2>2. Len(n) <= MaxDetachedSessionGuards
    BY <1>7, <1>3, ConstantsAssumption DEF ConstantsAssumption
  <2>3. QED
    BY <2>1, <2>2, <1>3, <1>4, <1>5 DEF m, w
<1>8. QED
  BY <1>6, <1>7

-----------------------------------------------------------------------------
(* Type correctness.                                                        *)

\* A freshly constructed router has its types.
LEMMA InitTypeOK == Init => TypeOK
<1> SUFFICES ASSUME Init PROVE TypeOK
  OBVIOUS
<1>1. /\ detached_sessions \in Seq(Sessions)
      /\ Len(detached_sessions) <= MaxDetachedSessionGuards
      /\ IsInjective(detached_sessions)
  BY ConstantsAssumption DEF Init, IsInjective, ConstantsAssumption
<1>2. QED
  BY <1>1 DEF Init, TypeOK, Progress

\* Clearing or setting a guard keeps the guards typed, bounded and distinct.
LEMMA GuardsTyped ==
    ASSUME TypeOK, NEW s \in Sessions
    PROVE  /\ Without(detached_sessions, s) \in Seq(Sessions)
           /\ Len(Without(detached_sessions, s)) <= MaxDetachedSessionGuards
           /\ IsInjective(Without(detached_sessions, s))
           /\ MarkDetachedSession(detached_sessions, s) \in Seq(Sessions)
           /\ Len(MarkDetachedSession(detached_sessions, s)) <= MaxDetachedSessionGuards
           /\ IsInjective(MarkDetachedSession(detached_sessions, s))
<1>1. /\ detached_sessions \in Seq(Sessions)
      /\ Len(detached_sessions) <= MaxDetachedSessionGuards
      /\ IsInjective(detached_sessions)
  BY DEF TypeOK
<1>2. /\ Without(detached_sessions, s) \in Seq(Sessions)
      /\ IsInjective(Without(detached_sessions, s))
      /\ Len(Without(detached_sessions, s)) <= Len(detached_sessions)
  BY <1>1, WithoutProperties
<1>3. Len(Without(detached_sessions, s)) <= MaxDetachedSessionGuards
  BY <1>1, <1>2, ConstantsAssumption DEF ConstantsAssumption
<1>4. QED
  BY <1>1, <1>2, <1>3, MarkProperties

\* The steps of a caller that change nothing but how far it is.
CallerMoves(k) ==
    AttachResponse(k) \/ AttachReturn(k) \/ AttachError(k) \/ WaitWithoutSession(k)

\* Every handler of the router keeps the types and the guards' bound.
LEMMA NextTypeOK == TypeOK /\ [Next]_vars => TypeOK'
<1> SUFFICES ASSUME TypeOK, [Next]_vars PROVE TypeOK'
  OBVIOUS
<1> USE DEF TypeOK, Progress, routerVars, callerVars, browserVars
<1>1. ASSUME NEW k \in Callers, NEW t \in Targets, AttachToTarget(k, t) PROVE TypeOK'
  BY <1>1, ZenonT(30) DEF AttachToTarget
<1>2. ASSUME NEW k \in Callers, NEW s \in Sessions, AttachAnnounced(k, s) PROVE TypeOK'
  BY <1>2, GuardsTyped DEF AttachAnnounced, RecordAttached
<1>3. ASSUME NEW k \in Callers, CallerMoves(k) PROVE TypeOK'
  BY <1>3 DEF CallerMoves, AttachResponse, AttachReturn, AttachError, WaitWithoutSession
<1>4. ASSUME NEW k \in Callers, NEW s \in Sessions, WaitForExecutionContext(k, s)
      PROVE  TypeOK'
  BY <1>4 DEF WaitForExecutionContext, KnownContext, AddWaiter
<1>5. ASSUME NEW k \in Callers, WaitTimeout(k) PROVE TypeOK'
  BY <1>5 DEF WaitTimeout
<1>6. ASSUME NEW s \in Sessions, NEW t \in Targets, AutoAttach(s, t) PROVE TypeOK'
  BY <1>6, GuardsTyped DEF AutoAttach, RecordAttached
<1>7. ASSUME NEW s \in Sessions, Detach(s) PROVE TypeOK'
  <2>1. target_sessions' \in [Targets -> Sessions \cup {NoSession}]
    BY <1>7 DEF Detach, ForgetSession, Unmapped
  <2>2. /\ timers' \in SUBSET Callers
        /\ pc' \in [Callers -> Progress]
        /\ result' \in [Callers -> Contexts \cup {NoContext}]
        /\ overtaken' \in SUBSET Callers
    BY <1>7 DEF Detach, ForgetSession, Settle
  <2>3. /\ detached_sessions' \in Seq(Sessions)
        /\ Len(detached_sessions') <= MaxDetachedSessionGuards
        /\ IsInjective(detached_sessions')
    BY <1>7, GuardsTyped DEF Detach, ForgetSession
  <2>4. QED
    BY <1>7, <2>1, <2>2, <2>3 DEF Detach, ForgetSession
<1>8. ASSUME NEW s \in Sessions, NEW c \in Contexts, EmitContext(s, c) PROVE TypeOK'
  BY <1>8 DEF EmitContext
<1>9. ASSUME NEW s \in Sessions, NEW c \in Contexts, DeliverContext(s, c) PROVE TypeOK'
  <2>1. CASE IsGuarded(s)
    BY <1>9, <2>1 DEF DeliverContext, RecordExecutionContext
  <2>2. CASE ~IsGuarded(s)
    BY <1>9, <2>2 DEF DeliverContext, RecordExecutionContext, Settle, WaitersOf
  <2>3. QED
    BY <2>1, <2>2
<1>10. CASE UNCHANGED vars
  BY <1>10 DEF vars
<1>11. QED
  BY <1>1, <1>2, <1>3, <1>4, <1>5, <1>6, <1>7, <1>8, <1>9, <1>10 DEF Next, CallerMoves

\* Every variable keeps its domain, and the detached-session guards stay
\* distinct and within max_detached_session_guards (markDetachedSession).
THEOREM TypeCorrect == Spec => []TypeOK
<1>1. QED
  BY InitTypeOK, NextTypeOK, PTL DEF Spec

-----------------------------------------------------------------------------
(* The waiter table.                                                        *)

\* No handler separates a pending promise from its waiter and timer.
LEMMA NextWaitersArmed == TypeOK /\ WaitersArmed /\ [Next]_vars => WaitersArmed'
<1> SUFFICES ASSUME TypeOK, WaitersArmed, [Next]_vars PROVE WaitersArmed'
  OBVIOUS
<1> USE DEF TypeOK, WaitersArmed, routerVars, callerVars, browserVars
<1>1. ASSUME NEW k \in Callers, NEW t \in Targets, AttachToTarget(k, t)
      PROVE  WaitersArmed'
  BY <1>1 DEF AttachToTarget
<1>2. ASSUME NEW k \in Callers, NEW s \in Sessions, AttachAnnounced(k, s)
      PROVE  WaitersArmed'
  BY <1>2 DEF AttachAnnounced, RecordAttached
<1>3. ASSUME NEW k \in Callers, CallerMoves(k) PROVE WaitersArmed'
  BY <1>3 DEF CallerMoves, AttachResponse, AttachReturn, AttachError, WaitWithoutSession
<1>4. ASSUME NEW k \in Callers, NEW s \in Sessions, WaitForExecutionContext(k, s)
      PROVE  WaitersArmed'
  BY <1>4 DEF WaitForExecutionContext, KnownContext, AddWaiter
<1>5. ASSUME NEW k \in Callers, WaitTimeout(k) PROVE WaitersArmed'
  BY <1>5 DEF WaitTimeout
<1>6. ASSUME NEW s \in Sessions, NEW t \in Targets, AutoAttach(s, t)
      PROVE  WaitersArmed'
  BY <1>6 DEF AutoAttach, RecordAttached
<1>7. ASSUME NEW s \in Sessions, Detach(s) PROVE WaitersArmed'
  BY <1>7 DEF Detach, ForgetSession, Settle, WaitersOf
<1>8. ASSUME NEW s \in Sessions, NEW c \in Contexts, EmitContext(s, c)
      PROVE  WaitersArmed'
  BY <1>8 DEF EmitContext
<1>9. ASSUME NEW s \in Sessions, NEW c \in Contexts, DeliverContext(s, c)
      PROVE  WaitersArmed'
  BY <1>9 DEF DeliverContext, RecordExecutionContext, Settle, WaitersOf
<1>10. CASE UNCHANGED vars
  BY <1>10 DEF vars
<1>11. QED
  BY <1>1, <1>2, <1>3, <1>4, <1>5, <1>6, <1>7, <1>8, <1>9, <1>10 DEF Next, CallerMoves

\* A promise of waitForExecutionContext is pending exactly while its waiter is
\* in the table of its own session with its timer armed: none is ever orphaned.
THEOREM WaitersStayArmed == Spec => []WaitersArmed
<1>1. Init => WaitersArmed
  BY DEF Init, WaitersArmed
<1>2. QED
  BY <1>1, NextWaitersArmed, TypeCorrect, PTL DEF Spec

\* Recording a context empties the waiters of its session, and a wait is
\* registered only where no context is known.
LEMMA NextNoMissedContext ==
    TypeOK /\ NoMissedContext /\ [Next]_vars => NoMissedContext'
<1> SUFFICES ASSUME TypeOK, NoMissedContext, [Next]_vars PROVE NoMissedContext'
  OBVIOUS
<1> USE DEF TypeOK, NoMissedContext, routerVars, callerVars, browserVars
<1>1. ASSUME NEW k \in Callers, NEW s \in Sessions, WaitForExecutionContext(k, s)
      PROVE  NoMissedContext'
  BY <1>1 DEF WaitForExecutionContext, KnownContext, AddWaiter
<1>2. ASSUME NEW k \in Callers, WaitTimeout(k) PROVE NoMissedContext'
  BY <1>2 DEF WaitTimeout
<1>3. ASSUME NEW s \in Sessions, Detach(s) PROVE NoMissedContext'
  BY <1>3 DEF Detach, ForgetSession
<1>4. ASSUME NEW s \in Sessions, NEW c \in Contexts, DeliverContext(s, c)
      PROVE  NoMissedContext'
  BY <1>4 DEF DeliverContext, RecordExecutionContext
<1>5. CASE UNCHANGED <<execution_contexts, execution_context_waiters>>
  BY <1>5
<1>6. QED
  BY <1>1, <1>2, <1>3, <1>4, <1>5
  DEF Next, vars, AttachToTarget, AttachAnnounced, AttachResponse, AttachReturn,
      AttachError, WaitWithoutSession, AutoAttach, EmitContext, RecordAttached

\* waitForExecutionContext never sleeps past a context the router knows.
THEOREM ContextsAreNotMissed == Spec => []NoMissedContext
<1>1. Init => NoMissedContext
  BY DEF Init, NoMissedContext
<1>2. QED
  BY <1>1, NextNoMissedContext, TypeCorrect, PTL DEF Spec

-----------------------------------------------------------------------------
(* The target table.                                                        *)

\* The router's view of the sessions is the browser's, as far as reported.
ViewIsLive == \A s \in Sessions : session_targets[s] = live[s]

MappingInv == ViewIsLive /\ MappedSessionsLive

\* Both tables follow what the browser has reported (recordProtocolEvent).
LEMMA NextMappingInv == TypeOK /\ MappingInv /\ [Next]_vars => MappingInv'
<1> SUFFICES ASSUME TypeOK, MappingInv, [Next]_vars PROVE MappingInv'
  OBVIOUS
<1> USE ConstantsAssumption
    DEF ConstantsAssumption, TypeOK, MappingInv, ViewIsLive, MappedSessionsLive,
        routerVars, callerVars, browserVars
<1>1. ASSUME NEW s \in Sessions, NEW t \in Targets \cup {NoTarget},
             live[s] = NoTarget, live' = [live EXCEPT ![s] = t], RecordAttached(s, t)
      PROVE  MappingInv'
  BY <1>1 DEF RecordAttached
<1>2. ASSUME NEW s \in Sessions, Detach(s) PROVE MappingInv'
  BY <1>2 DEF Detach, ForgetSession, Unmapped
<1>3. CASE UNCHANGED <<target_sessions, session_targets, live>>
  BY <1>3
<1>4. ASSUME NEW k \in Callers, NEW s \in Sessions, AttachAnnounced(k, s)
      PROVE  MappingInv'
  BY <1>1, <1>4 DEF AttachAnnounced
<1>5. ASSUME NEW s \in Sessions, NEW t \in Targets, AutoAttach(s, t) PROVE MappingInv'
  BY <1>1, <1>5 DEF AutoAttach
<1>6. ASSUME NEW s \in Sessions, NEW c \in Contexts, DeliverContext(s, c)
      PROVE  UNCHANGED <<target_sessions, session_targets, live>>
  BY <1>6 DEF DeliverContext, RecordExecutionContext
<1>7. QED
  BY <1>2, <1>3, <1>4, <1>5, <1>6
  DEF Next, vars, AttachToTarget, AttachResponse, AttachReturn, AttachError,
      WaitForExecutionContext, WaitWithoutSession, WaitTimeout, EmitContext

\* The router's view of targets and sessions is the browser's at every moment:
\* session_targets is exact, and target_sessions names live sessions only.
THEOREM MappingCorrect == Spec => []MappingInv
<1>1. Init => MappingInv
  BY DEF Init, MappingInv, ViewIsLive, MappedSessionsLive
<1>2. QED
  BY <1>1, NextMappingInv, TypeCorrect, PTL DEF Spec

\* sessionIdForTarget never returns a session that was detached or that serves
\* another target (recordProtocolEvent, forgetSession).
THEOREM MappedSessionsAreLive == Spec => []MappedSessionsLive
<1>1. MappingInv => MappedSessionsLive
  BY DEF MappingInv
<1>2. QED
  BY <1>1, MappingCorrect, PTL

-----------------------------------------------------------------------------
(* What callers are told.                                                   *)

\* A caller whose attach command is in flight asked for a target, and the session that
\* the browser gave it is attached to that target, or was when the response came and was
\* detached by a message of the same chunk.
ReturnInv ==
    /\ \A k \in Callers : pc[k] \in {"attaching", "announced", "answered"} => wanted[k] \in Targets
    /\ \A k \in Callers : pc[k] \in {"idle", "attaching"} => session[k] = NoSession
    /\ \A k \in Callers : pc[k] = "announced" =>
         session[k] \in Sessions /\ live[session[k]] = wanted[k]
    /\ \A k \in Callers : pc[k] = "answered" /\ session[k] # NoSession =>
         live[session[k]] = wanted[k] \/ k \in overtaken
    /\ \A k \in overtaken : Chunked

\* The steps in which a caller goes on by itself leave the browser's sessions alone.
LEMMA ReturnFrame ==
    ASSUME TypeOK, ReturnInv, UNCHANGED <<live, overtaken>>,
           \A k \in Callers : \/ UNCHANGED <<pc[k], wanted[k], session[k]>>
                              \/ pc'[k] \notin {"idle", "attaching", "announced", "answered"}
    PROVE  ReturnInv'
BY DEF ReturnInv

\* Between the response and the return a session is lost only to a detach that is noted,
\* and to none where no other message is handled meanwhile (attachToTarget).
LEMMA NextReturnInv == TypeOK /\ ReturnInv /\ [Next]_vars => ReturnInv'
<1> SUFFICES ASSUME TypeOK, ReturnInv, [Next]_vars PROVE ReturnInv'
  OBVIOUS
<1> USE ConstantsAssumption DEF ConstantsAssumption, TypeOK, routerVars, callerVars, browserVars
<1>1. ASSUME NEW j \in Callers, NEW t \in Targets, AttachToTarget(j, t) PROVE ReturnInv'
  BY <1>1 DEF AttachToTarget, ReturnInv
<1>2. ASSUME NEW j \in Callers, NEW s \in Sessions, AttachAnnounced(j, s) PROVE ReturnInv'
  BY <1>2 DEF AttachAnnounced, ReturnInv
<1>3. ASSUME NEW j \in Callers, AttachResponse(j) PROVE ReturnInv'
  BY <1>3 DEF AttachResponse, ReturnInv
<1>4. ASSUME NEW j \in Callers, AttachReturn(j) \/ AttachError(j) \/ WaitWithoutSession(j)
      PROVE  ReturnInv'
  BY <1>4, ReturnFrame DEF AttachReturn, AttachError, WaitWithoutSession
<1>5. ASSUME NEW j \in Callers, NEW s \in Sessions, WaitForExecutionContext(j, s)
      PROVE  ReturnInv'
  BY <1>5, ReturnFrame DEF WaitForExecutionContext
<1>6. ASSUME NEW j \in Callers, WaitTimeout(j) PROVE ReturnInv'
  BY <1>6, ReturnFrame DEF WaitTimeout
<1>7. ASSUME NEW s \in Sessions, NEW t \in Targets, AutoAttach(s, t) PROVE ReturnInv'
  BY <1>7 DEF AutoAttach, ReturnInv
<1>8. ASSUME NEW s \in Sessions, Detach(s) PROVE ReturnInv'
  <2>1. /\ live' = [live EXCEPT ![s] = NoTarget] /\ UNCHANGED <<wanted, session>>
        /\ overtaken' = overtaken \cup {k \in Callers : pc[k] = "answered" /\ session[k] = s}
        /\ \A k \in Callers : pc'[k] = pc[k] \/ pc'[k] = "rejected"
        /\ \A k \in Callers : pc[k] = "announced" => session[k] # s
        /\ NextMessage
    BY <1>8 DEF Detach, ForgetSession, Settle
  <2>2. \A k \in overtaken' : Chunked
    BY <2>1 DEF NextMessage, ReturnInv
  <2>3. \A k \in Callers : pc'[k] = "answered" /\ session'[k] # NoSession =>
          live'[session'[k]] = wanted'[k] \/ k \in overtaken'
    BY <2>1 DEF ReturnInv
  <2>4. \A k \in Callers : pc'[k] = "announced" =>
          session'[k] \in Sessions /\ live'[session'[k]] = wanted'[k]
    BY <2>1 DEF ReturnInv
  <2>5. QED
    BY <2>1, <2>2, <2>3, <2>4 DEF ReturnInv
<1>9. ASSUME NEW s \in Sessions, NEW c \in Contexts, EmitContext(s, c) PROVE ReturnInv'
  BY <1>9, ReturnFrame DEF EmitContext
<1>10. ASSUME NEW s \in Sessions, NEW c \in Contexts, DeliverContext(s, c) PROVE ReturnInv'
  <2>1. UNCHANGED <<live, overtaken, wanted, session>>
    BY <1>10 DEF DeliverContext, RecordExecutionContext
  <2>2. \A k \in Callers : pc'[k] = pc[k] \/ pc'[k] = "resolved"
    BY <1>10 DEF DeliverContext, RecordExecutionContext, Settle
  <2>3. QED
    BY <2>1, <2>2, ReturnFrame
<1>11. CASE UNCHANGED vars
  BY <1>11, ReturnFrame DEF vars
<1>12. QED
  BY <1>1, <1>2, <1>3, <1>4, <1>5, <1>6, <1>7, <1>8, <1>9, <1>10, <1>11 DEF Next

\* What holds of a session that is on its way to the caller of attachToTarget.
LEMMA ReturnInvariant == Spec => []ReturnInv
<1>1. Init => ReturnInv
  BY DEF Init, ReturnInv
<1>2. QED
  BY <1>1, NextReturnInv, TypeCorrect, PTL DEF Spec

\* What attachToTarget returns serves the target it was asked for when it returns, whether
\* it came from the table or from the browser, unless the transport handled its detach
\* between the response and the return.
THEOREM AttachReturnsLive == Spec => AttachReturnsServing
<1> DEFINE Serves(k) ==
               pc[k] \in {"idle", "answered"} /\ pc'[k] = "attached" /\ session'[k] # NoSession
                 => \/ live'[session'[k]] = wanted'[k]
                    \/ Chunked /\ k \in overtaken
<1>1. TypeOK /\ MappingInv /\ ReturnInv /\ [Next]_vars => [\A k \in Callers : Serves(k)]_vars
  <2> SUFFICES ASSUME TypeOK, MappingInv, ReturnInv, Next, NEW k \in Callers,
                      pc[k] \in {"idle", "answered"}, pc'[k] = "attached",
                      session'[k] # NoSession
               PROVE  \/ live'[session'[k]] = wanted'[k]
                      \/ Chunked /\ k \in overtaken
    OBVIOUS
  <2> USE DEF TypeOK, routerVars, callerVars, browserVars
  <2>1. ASSUME NEW j \in Callers, NEW t \in Targets, AttachToTarget(j, t)
        PROVE  live'[session'[k]] = wanted'[k]
    BY <2>1 DEF AttachToTarget, MappingInv, MappedSessionsLive
  <2>2. ASSUME NEW j \in Callers, AttachReturn(j)
        PROVE  live'[session'[k]] = wanted'[k] \/ (Chunked /\ k \in overtaken)
    BY <2>2 DEF AttachReturn, ReturnInv
  <2>3. ASSUME NEW j \in Callers, NEW s \in Sessions,
               WaitForExecutionContext(j, s) \/ AttachAnnounced(j, s)
        PROVE  FALSE
    BY <2>3 DEF WaitForExecutionContext, AttachAnnounced
  <2>4. ASSUME NEW j \in Callers,
               \/ AttachError(j) \/ WaitTimeout(j) \/ AttachResponse(j)
               \/ WaitWithoutSession(j)
        PROVE  FALSE
    BY <2>4 DEF AttachError, WaitTimeout, AttachResponse, WaitWithoutSession
  <2>5. ASSUME NEW s \in Sessions, Detach(s) PROVE FALSE
    BY <2>5 DEF Detach, ForgetSession, Settle
  <2>6. ASSUME NEW s \in Sessions, NEW c \in Contexts, DeliverContext(s, c)
        PROVE  FALSE
    BY <2>6 DEF DeliverContext, RecordExecutionContext, Settle
  <2>7. QED
    BY <2>1, <2>2, <2>3, <2>4, <2>5, <2>6 DEF Next, AutoAttach, EmitContext
<1>2. QED
  BY <1>1, TypeCorrect, MappingCorrect, ReturnInvariant, PTL
  DEF Spec, AttachReturnsServing

-----------------------------------------------------------------------------
(* Detached sessions and late context events.                               *)

\* A guarded session is detached, and no late event writes to it.
LEMMA NextGuardedSessionsClean ==
    TypeOK /\ GuardedSessionsClean /\ [Next]_vars => GuardedSessionsClean'
<1> SUFFICES ASSUME TypeOK, GuardedSessionsClean, [Next]_vars
             PROVE  GuardedSessionsClean'
  OBVIOUS
<1>0. detached_sessions \in Seq(Sessions) /\ IsInjective(detached_sessions)
      /\ Len(detached_sessions) <= MaxDetachedSessionGuards
  BY DEF TypeOK
<1>1. ASSUME NEW s \in Sessions, NEW t \in Targets \cup {NoTarget},
             live' = [live EXCEPT ![s] = t], RecordAttached(s, t)
      PROVE  GuardedSessionsClean'
  <2>1. ToSet(detached_sessions') = ToSet(detached_sessions) \ {s}
    BY <1>0, <1>1, WithoutProperties DEF RecordAttached
  <2>2. ToSet(detached_sessions) \subseteq Sessions
    BY <1>0 DEF ToSet
  <2>3. QED
    BY <1>1, <2>1, <2>2 DEF RecordAttached, GuardedSessionsClean, TypeOK
<1>2. ASSUME NEW s \in Sessions, Detach(s) PROVE GuardedSessionsClean'
  <2>1. ToSet(detached_sessions') \subseteq ToSet(detached_sessions) \cup {s}
    BY <1>0, <1>2, MarkProperties DEF Detach, ForgetSession
  <2>2. QED
    BY <1>2, <2>1 DEF Detach, ForgetSession, GuardedSessionsClean, TypeOK
<1>3. ASSUME NEW s \in Sessions, NEW c \in Contexts, DeliverContext(s, c)
      PROVE  GuardedSessionsClean'
  <2>1. detached_sessions' = detached_sessions /\ live' = live
    BY <1>3 DEF DeliverContext, RecordExecutionContext, routerVars
  <2>2. CASE IsGuarded(s)
    BY <1>3, <2>1, <2>2
    DEF DeliverContext, RecordExecutionContext, routerVars, GuardedSessionsClean
  <2>3. CASE ~IsGuarded(s)
    <3>1. execution_contexts' = [execution_contexts EXCEPT ![s] = c]
      BY <1>3, <2>3 DEF DeliverContext, RecordExecutionContext
    <3>2. \A x \in ToSet(detached_sessions) : x # s
      BY <2>3 DEF IsGuarded
    <3>3. QED
      BY <2>1, <3>1, <3>2 DEF GuardedSessionsClean, TypeOK
  <2>4. QED
    BY <2>2, <2>3
<1>4. CASE UNCHANGED <<detached_sessions, live, execution_contexts>>
  BY <1>4 DEF GuardedSessionsClean
<1>5. ASSUME NEW k \in Callers, NEW s \in Sessions, AttachAnnounced(k, s)
      PROVE  GuardedSessionsClean'
  BY <1>1, <1>5 DEF AttachAnnounced, TypeOK
<1>6. ASSUME NEW s \in Sessions, NEW t \in Targets, AutoAttach(s, t)
      PROVE  GuardedSessionsClean'
  BY <1>1, <1>6 DEF AutoAttach
<1>7. ASSUME \/ \E k \in Callers, t \in Targets : AttachToTarget(k, t)
             \/ \E k \in Callers : CallerMoves(k) \/ WaitTimeout(k)
             \/ \E k \in Callers, s \in Sessions : WaitForExecutionContext(k, s)
             \/ \E s \in Sessions, c \in Contexts : EmitContext(s, c)
             \/ UNCHANGED vars
      PROVE  UNCHANGED <<detached_sessions, live, execution_contexts>>
  BY <1>7 DEF vars, routerVars, browserVars, AttachToTarget, CallerMoves, AttachResponse,
              AttachReturn, AttachError, WaitWithoutSession, WaitForExecutionContext,
              WaitTimeout, EmitContext
<1>8. QED
  BY <1>2, <1>3, <1>4, <1>5, <1>6, <1>7 DEF Next, CallerMoves

\* While a detached session is guarded it has no execution context, whatever
\* context events of it are still in flight (recordExecutionContext).
THEOREM GuardsHold == Spec => []GuardedSessionsClean
<1>1. Init => GuardedSessionsClean
  BY DEF Init, GuardedSessionsClean, ToSet
<1>2. QED
  BY <1>1, NextGuardedSessionsClean, TypeCorrect, PTL DEF Spec

\* With at least as many guards as sessions no guard is ever evicted.
GuardsSuffice == IsFiniteSet(Sessions) /\ Cardinality(Sessions) <= MaxDetachedSessionGuards

\* With no more sessions than guards, marking a session evicts none: a list of
\* distinct sessions is never longer than their number.
LEMMA NoEviction ==
    ASSUME GuardsSuffice, TypeOK, NEW s \in Sessions
    PROVE  ToSet(MarkDetachedSession(detached_sessions, s))
             = ToSet(detached_sessions) \cup {s}
<1> DEFINE w == Without(detached_sessions, s)
           n == Append(w, s)
<1>0. detached_sessions \in Seq(Sessions) /\ IsInjective(detached_sessions)
      /\ Len(detached_sessions) <= MaxDetachedSessionGuards
  BY DEF TypeOK
<1>1. w \in Seq(Sessions) /\ IsInjective(w) /\ ToSet(w) = ToSet(detached_sessions) \ {s}
  BY <1>0, WithoutProperties
<1> HIDE DEF w
<1>2. /\ n \in Seq(Sessions)
      /\ Len(n) = Len(w) + 1
      /\ \A i \in 1..Len(w) : n[i] = w[i]
      /\ n[Len(w) + 1] = s
  BY <1>1, AppendProperties
<1> HIDE DEF n
<1>3. IsInjective(n)
  BY <1>1, <1>2 DEF IsInjective, ToSet
<1>4. n \in Injection(1..Len(n), Sessions)
  BY <1>2, <1>3 DEF IsInjective, Injection
<1>5. Cardinality(1..Len(n)) <= Cardinality(Sessions)
  BY <1>4, FS_Injection DEF GuardsSuffice
<1>6. Cardinality(1..Len(n)) = Len(n)
  BY <1>1, <1>2, FS_Interval
<1>7. Cardinality(Sessions) \in Nat
  BY FS_CardinalityType DEF GuardsSuffice
<1>8. Len(w) < MaxDetachedSessionGuards
  BY <1>1, <1>2, <1>5, <1>6, <1>7, ConstantsAssumption
  DEF GuardsSuffice, ConstantsAssumption
<1>9. QED
  BY <1>0, <1>8, MarkProperties DEF w

\* Every context event in flight is of a live or of a guarded session.
LateEventsGuarded ==
    \A e \in emitted : live[e[1]] # NoTarget \/ e[1] \in ToSet(detached_sessions)

LateInv == LateEventsGuarded /\ ContextsOfLiveSessions

\* Under GuardsSuffice, every late context event meets a live or a guarded session.
LEMMA NextLateInv ==
    ASSUME GuardsSuffice
    PROVE  TypeOK /\ ReturnInv /\ LateInv /\ [Next]_vars => LateInv'
<1> SUFFICES ASSUME TypeOK, ReturnInv, LateInv, [Next]_vars PROVE LateInv'
  OBVIOUS
<1>0. detached_sessions \in Seq(Sessions) /\ IsInjective(detached_sessions)
  BY DEF TypeOK
<1> USE DEF LateInv, LateEventsGuarded, ContextsOfLiveSessions
<1>1. ASSUME NEW s \in Sessions, NEW t \in Targets,
             live' = [live EXCEPT ![s] = t], RecordAttached(s, t), UNCHANGED emitted
      PROVE  LateInv'
  <2>1. ToSet(detached_sessions') = ToSet(detached_sessions) \ {s}
    BY <1>0, <1>1, WithoutProperties DEF RecordAttached
  <2>2. QED
    BY <1>1, <2>1, ConstantsAssumption DEF RecordAttached, TypeOK, ConstantsAssumption
<1>2. ASSUME NEW s \in Sessions, Detach(s) PROVE LateInv'
  <2>1. ToSet(detached_sessions') = ToSet(detached_sessions) \cup {s}
    BY <1>2, NoEviction DEF Detach, ForgetSession
  <2>2. QED
    BY <1>2, <2>1 DEF Detach, ForgetSession, TypeOK
<1>3. ASSUME NEW s \in Sessions, NEW c \in Contexts, DeliverContext(s, c)
      PROVE  LateInv'
  BY <1>3 DEF DeliverContext, RecordExecutionContext, IsGuarded, TypeOK, routerVars
<1>4. ASSUME NEW s \in Sessions, NEW c \in Contexts, EmitContext(s, c) PROVE LateInv'
  BY <1>4 DEF EmitContext, routerVars
<1>5. CASE UNCHANGED <<detached_sessions, live, execution_contexts, emitted>>
  BY <1>5
<1>6. ASSUME NEW k \in Callers, NEW s \in Sessions, AttachAnnounced(k, s)
      PROVE  LateInv'
  BY <1>1, <1>6 DEF AttachAnnounced, ReturnInv
<1>7. ASSUME NEW s \in Sessions, NEW t \in Targets, AutoAttach(s, t) PROVE LateInv'
  BY <1>1, <1>7 DEF AutoAttach
<1>8. QED
  BY <1>2, <1>3, <1>4, <1>5, <1>6, <1>7
  DEF Next, vars, routerVars, browserVars, AttachToTarget, AttachResponse, AttachReturn,
      AttachError, WaitForExecutionContext, WaitWithoutSession, WaitTimeout

\* With no more sessions than guards no execution context outlives its session:
\* a late Runtime.executionContextCreated never resurrects a detached one.
THEOREM ContextsDieWithSessions ==
    ASSUME GuardsSuffice
    PROVE  Spec => []ContextsOfLiveSessions
<1>1. Init => LateInv
  BY DEF Init, LateInv, LateEventsGuarded, ContextsOfLiveSessions
<1>2. TypeOK /\ ReturnInv /\ LateInv /\ [Next]_vars => LateInv'
  BY NextLateInv
<1>3. LateInv => ContextsOfLiveSessions
  BY DEF LateInv
<1>4. QED
  BY <1>1, <1>2, <1>3, TypeCorrect, ReturnInvariant, PTL DEF Spec

-----------------------------------------------------------------------------
(* How waits end.                                                           *)

\* Caller k resolves with its own session's context and is rejected only by the
\* detach of its own session.
SettledRightly(k) ==
    /\ pc[k] # "resolved" /\ pc'[k] = "resolved"
         => result'[k] = execution_contexts'[session'[k]] /\ result'[k] # NoContext
    /\ pc[k] = "waiting" /\ pc'[k] = "rejected"
         => live[session[k]] # NoTarget /\ live'[session[k]] = NoTarget

\* A wait resolves with the context of its own session and never of another's,
\* and is cut short only by the detach of its own session (forgetSession).
THEOREM WaitsEndRightly == Spec => WaitsSettledBySession
<1>1. TypeOK /\ WaitersArmed /\ [Next]_vars
        => [\A k \in Callers : SettledRightly(k)]_vars
  <2> SUFFICES ASSUME TypeOK, WaitersArmed, Next, NEW k \in Callers
               PROVE  SettledRightly(k)
    OBVIOUS
  <2> USE DEF TypeOK, WaitersArmed, SettledRightly, routerVars, callerVars, browserVars
  <2>1. ASSUME NEW s \in Sessions, NEW c \in Contexts, DeliverContext(s, c)
        PROVE  SettledRightly(k)
    <3>1. CASE IsGuarded(s)
      BY <2>1, <3>1 DEF DeliverContext, RecordExecutionContext
    <3>2. CASE ~IsGuarded(s)
      BY <2>1, <3>2, ConstantsAssumption
      DEF DeliverContext, RecordExecutionContext, Settle, WaitersOf, ConstantsAssumption
    <3>3. QED
      BY <3>1, <3>2
  <2>2. ASSUME NEW s \in Sessions, Detach(s) PROVE SettledRightly(k)
    BY <2>2 DEF Detach, ForgetSession, Settle, WaitersOf
  <2>3. ASSUME NEW j \in Callers, NEW s \in Sessions, WaitForExecutionContext(j, s)
        PROVE  SettledRightly(k)
    BY <2>3 DEF WaitForExecutionContext, KnownContext
  <2>4. ASSUME NEW j \in Callers, NEW t \in Targets, AttachToTarget(j, t)
        PROVE  SettledRightly(k)
    BY <2>4 DEF AttachToTarget
  <2>5. ASSUME NEW j \in Callers, NEW s \in Sessions, AttachAnnounced(j, s)
        PROVE  SettledRightly(k)
    BY <2>5 DEF AttachAnnounced
  <2>6. ASSUME NEW j \in Callers, CallerMoves(j) \/ WaitTimeout(j)
        PROVE  SettledRightly(k)
    BY <2>6 DEF CallerMoves, AttachResponse, AttachReturn, AttachError,
                WaitWithoutSession, WaitTimeout
  <2>7. ASSUME NEW s \in Sessions, NEW t \in Targets, AutoAttach(s, t)
        PROVE  SettledRightly(k)
    BY <2>7 DEF AutoAttach
  <2>8. ASSUME NEW s \in Sessions, NEW c \in Contexts, EmitContext(s, c)
        PROVE  SettledRightly(k)
    BY <2>8 DEF EmitContext
  <2>9. QED
    BY <2>1, <2>2, <2>3, <2>4, <2>5, <2>6, <2>7, <2>8 DEF Next, CallerMoves
<1>2. QED
  BY <1>1, TypeCorrect, WaitersStayArmed, PTL
  DEF Spec, WaitsSettledBySession, SettledRightly

-----------------------------------------------------------------------------
(* What the runs check, as conjunctions.                                    *)

\* An attached session keeps its target's entry until another session of the target
\* attaches or detaches (recordProtocolEvent, forgetSession).
LEMMA EntryKept ==
    ASSUME TypeOK, MappingInv, Next, NEW s \in Sessions, NEW t \in Targets
    PROVE  EntryLostToSibling(s, t)
<1> SUFFICES ASSUME live[s] = t, target_sessions[t] = s, live'[s] = t, target_sessions'[t] # s
             PROVE  \E x \in Sessions \ {s} : {live[x], live'[x]} = {t, NoTarget}
  BY DEF EntryLostToSibling
<1> USE ConstantsAssumption
    DEF ConstantsAssumption, TypeOK, routerVars, callerVars, browserVars
<1>1. ASSUME NEW x \in Sessions, NEW u \in Targets,
             live[x] = NoTarget, live' = [live EXCEPT ![x] = u], RecordAttached(x, u)
      PROVE  \E y \in Sessions \ {s} : {live[y], live'[y]} = {t, NoTarget}
  <2>1. u = t /\ x # s /\ live[x] = NoTarget /\ live'[x] = t
    BY <1>1 DEF RecordAttached
  <2>2. QED
    BY <2>1
<1>2. ASSUME NEW x \in Sessions, Detach(x)
      PROVE  \E y \in Sessions \ {s} : {live[y], live'[y]} = {t, NoTarget}
  <2>1. live' = [live EXCEPT ![x] = NoTarget] /\ target_sessions' = Unmapped(x)
    BY <1>2 DEF Detach, ForgetSession
  <2>2. x # s
    BY <2>1
  <2>3. live[x] = t /\ live'[x] = NoTarget
    BY <2>1 DEF Unmapped, MappingInv, ViewIsLive
  <2>4. QED
    BY <2>2, <2>3
<1>3. ASSUME NEW k \in Callers, NEW x \in Sessions, AttachAnnounced(k, x), wanted[k] \in Targets
      PROVE  \E y \in Sessions \ {s} : {live[y], live'[y]} = {t, NoTarget}
  BY <1>1, <1>3 DEF AttachAnnounced
<1>4. ASSUME NEW k \in Callers, NEW x \in Sessions, AttachAnnounced(k, x), wanted[k] \notin Targets
      PROVE  FALSE
  BY <1>4 DEF AttachAnnounced, RecordAttached
<1>5. ASSUME NEW x \in Sessions, NEW u \in Targets, AutoAttach(x, u)
      PROVE  \E y \in Sessions \ {s} : {live[y], live'[y]} = {t, NoTarget}
  BY <1>1, <1>5 DEF AutoAttach
<1>6. ASSUME UNCHANGED target_sessions PROVE FALSE
  BY <1>6
<1>7. ASSUME NEW x \in Sessions, NEW c \in Contexts, DeliverContext(x, c) PROVE FALSE
  BY <1>6, <1>7 DEF DeliverContext, RecordExecutionContext
<1>8. QED
  BY <1>2, <1>3, <1>4, <1>5, <1>6, <1>7
  DEF Next, AttachToTarget, AttachResponse, AttachReturn, AttachError,
      WaitForExecutionContext, WaitWithoutSession, WaitTimeout, EmitContext

\* What sessionIdForTarget names is attached to the target and not denied since, an entry
\* goes only with its session or with another of the same target, and a session that is
\* still guarded has no execution context.
THEOREM TablesFollow == Spec => TablesFollowBrowser
<1>1. TypeOK /\ MappingInv /\ [Next]_vars
        => [\A s \in Sessions, t \in Targets : EntryLostToSibling(s, t)]_vars
  BY EntryKept
<1>2. QED
  BY <1>1, TypeCorrect, MappingCorrect, MappedSessionsAreLive, GuardsHold, PTL
  DEF Spec, TablesFollowBrowser

\* The table of waiters loses no one.
THEOREM WaitersAreKept == Spec => []WaitersKept
BY WaitersStayArmed, ContextsAreNotMissed, PTL DEF WaitersKept
=============================================================================
