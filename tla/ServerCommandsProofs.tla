------------------------ MODULE ServerCommandsProofs ------------------------
(***************************************************************************)
(* Proofs about ServerCommands, for every set of calls, methods, routes,   *)
(* debuggees and events: the types, that a command runs once, and not when *)
(* it is refused, what attachedDebuggees holds, that the server and the    *)
(* clients find the same route, and which events overtake which.           *)
(***************************************************************************)
EXTENDS ServerCommands, SequenceTheorems, FiniteSetTheorems, WellFoundedInduction, TLAPS

Fields == {"method", "at", "left", "chained", "params", "route", "debuggee"}

\* Where a call k that has executed at the places r may be, with attached debuggees D.
Executed(k, r) ==
    /\ k.at \in {"idle", "request", "handler", "loopback"} => r = <<>>
    /\ k.at \in {"debugger", "attach", "enable", "send"} =>
         r = <<>> \/ (k.route = "auto" /\ r = <<"loopback">>)
    /\ \/ r \in {<<>>, <<"handler">>, <<"loopback">>, <<"debugger">>}
       \/ k.route = "auto" /\ r = <<"loopback", "debugger">>

LetPass(k, r) ==
    /\ k.at \in Places \ {"idle", "request", "resolved", "rejected"} => k.params = "value"
    /\ r # <<>> => k.params = "value"

Sends(k, D) ==
    /\ k.at \in {"attach", "enable", "send"} => k.debuggee \in Debuggees
    /\ k.at = "send" => k.debuggee \in D

CallOK(k, r, D) ==
    /\ DOMAIN k = Fields /\ k.at \in Places
    /\ Executed(k, r) /\ LetPass(k, r) /\ Sends(k, D)

CallsInv ==
    /\ DOMAIN call = Calls /\ ran = [c \in Calls |-> ran[c]]
    /\ \A c \in Calls : CallOK(call[c], ran[c], attachedDebuggees)

DebuggeeInv ==
    /\ attachedDebuggees \subseteq Debuggees /\ detached \subseteq Debuggees
    /\ debugger \in [Debuggees -> {"none", "worker", "other"}]
    /\ AttachedUnlessDetached

IInv == CallsInv /\ DebuggeeInv /\ commandHandlers \subseteq Methods \cup Domains

LEMMA InitIInv == Init => IInv
<1> SUFFICES ASSUME Init PROVE IInv
    OBVIOUS
<1>1. CallOK(Idle, <<>>, {})
    BY DEF CallOK, Executed, LetPass, Sends, Idle, Fields, Places
<1>2. CallsInv
    BY <1>1 DEF Init, CallsInv
<1>3. DebuggeeInv
    BY DEF Init, DebuggeeInv, AttachedUnlessDetached
<1>4. commandHandlers \subseteq Methods \cup Domains
    BY CommandsAssumption DEF Init
<1> QED BY <1>2, <1>3, <1>4 DEF IInv

-----------------------------------------------------------------------------
\* Debuggees are never forgotten, so that a call stays fine when others move on.
LEMMA MoreDebuggees ==
    ASSUME NEW k, NEW r, NEW D, NEW E, CallOK(k, r, D), D \subseteq E
    PROVE  CallOK(k, r, E)
    BY DEF CallOK, Sends

\* A step of the call c alone.
LEMMA OneCall ==
    ASSUME CallsInv, NEW c \in Calls, NEW k, NEW r,
           call' = [call EXCEPT ![c] = k], ran' = [ran EXCEPT ![c] = r],
           attachedDebuggees \subseteq attachedDebuggees',
           CallOK(k, r, attachedDebuggees')
    PROVE  CallsInv'
<1>1. \A d \in Calls : CallOK(call'[d], ran'[d], attachedDebuggees')
    <2> TAKE d \in Calls
    <2>1. CASE d = c
        BY <2>1 DEF CallsInv
    <2>2. CASE d # c
        <3>1. call'[d] = call[d] /\ ran'[d] = ran[d]
            BY <2>2 DEF CallsInv
        <3>2. CallOK(call[d], ran[d], attachedDebuggees)
            BY DEF CallsInv
        <3> QED BY <3>1, <3>2, MoreDebuggees
    <2> QED BY <2>1, <2>2
<1> QED BY <1>1 DEF CallsInv

\* Every step of a call but its calls of chrome.debugger.attach and setAutoAttach leaves
\* the debuggees and registries as they are.
Alone(c, k, r) ==
    /\ call' = [call EXCEPT ![c] = k] /\ ran' = [ran EXCEPT ![c] = r]
    /\ UNCHANGED <<attachedDebuggees, debugger, detached, commandHandlers>>

LEMMA AloneIInv ==
    ASSUME IInv, NEW c \in Calls, NEW k, NEW r, Alone(c, k, r),
           CallOK(k, r, attachedDebuggees)
    PROVE  IInv'
<1>1. CallsInv'
    BY OneCall DEF IInv, Alone
<1>2. DebuggeeInv' /\ commandHandlers' \subseteq Methods \cup Domains
    BY DEF IInv, Alone, DebuggeeInv, AttachedUnlessDetached
<1> QED BY <1>1, <1>2 DEF IInv

\* What entering a chain of middlewares changes of a call.
LEMMA ChainFacts ==
    ASSUME CallsInv, NEW c \in Calls, NEW phase, NEW m
    PROVE  /\ DOMAIN InChain(c, phase, m) = Fields
           /\ InChain(c, phase, m).at = phase
           /\ InChain(c, phase, m).params = call[c].params
           /\ InChain(c, phase, m).route = call[c].route
           /\ InChain(c, phase, m).debuggee = call[c].debuggee
<1>1. DOMAIN call[c] = Fields
    BY DEF CallsInv, CallOK
<1> QED BY <1>1 DEF InChain, Fields

\* A call that executed somewhere, or nowhere, and now responds or is rejected.
LEMMA RespondsOK ==
    ASSUME CallsInv, NEW c \in Calls, NEW r, call[c].params = "value",
           \/ r \in {<<>>, <<"handler">>, <<"loopback">>, <<"debugger">>}
           \/ call[c].route = "auto" /\ r = <<"loopback", "debugger">>
    PROVE  /\ CallOK(InChain(c, "response", call[c].method), r, attachedDebuggees)
           /\ CallOK([call[c] EXCEPT !.at = "rejected"], r, attachedDebuggees)
<1>1. DOMAIN call[c] = Fields
    BY DEF CallsInv, CallOK
<1>2. CallOK(InChain(c, "response", call[c].method), r, attachedDebuggees)
    BY ChainFacts DEF CallOK, Executed, LetPass, Sends, Places
<1>3. CallOK([call[c] EXCEPT !.at = "rejected"], r, attachedDebuggees)
    BY <1>1 DEF CallOK, Executed, LetPass, Sends, Places, Fields
<1> QED BY <1>2, <1>3

\* Rejects and Responds, as what the call becomes.
LEMMA Becomes ==
    ASSUME CallsInv, NEW c \in Calls
    PROVE  /\ Responds(c) =>
                call' = [call EXCEPT ![c] = InChain(c, "response", call[c].method)]
           /\ Rejects(c) => call' = [call EXCEPT ![c] = [call[c] EXCEPT !.at = "rejected"]]
    BY DEF CallsInv, Responds, Rejects

\* Nothing has been executed more; or one more.
LEMMA SameRan ==
    ASSUME CallsInv, NEW c \in Calls
    PROVE  /\ UNCHANGED ran => ran' = [ran EXCEPT ![c] = ran[c]]
           /\ \A where : Runs(c, where) => ran' = [ran EXCEPT ![c] = Append(ran[c], where)]
<1>1. ran = [ran EXCEPT ![c] = ran[c]]
    <2>1. ran = [d \in Calls |-> ran[d]]
        BY DEF CallsInv
    <2> QED BY <2>1
<1> QED BY <1>1 DEF Runs

LEMMA AppendOne ==
    ASSUME NEW a
    PROVE  Append(<<>>, a) = <<a>>
    OBVIOUS

LEMMA AppendTwo ==
    ASSUME NEW a, NEW b
    PROVE  Append(<<a>>, b) = <<a, b>>
<1> DEFINE S == {a, b}
<1>1. <<a>> \in Seq(S)
    OBVIOUS
<1>2. b \in S
    OBVIOUS
<1>3. Len(<<a>>) = 1
    OBVIOUS
<1>4. <<a>>[1] = a
    OBVIOUS
<1>5. <<a, b>> \in Seq(S)
    OBVIOUS
<1>6. Len(<<a, b>>) = 2
    OBVIOUS
<1>7. <<a, b>>[1] = a /\ <<a, b>>[2] = b
    OBVIOUS
<1> HIDE DEF S
<1>8. Append(<<a>>, b) \in Seq(S) /\ Len(Append(<<a>>, b)) = 2
    BY <1>1, <1>2, <1>3, AppendProperties
<1>9. Append(<<a>>, b)[1] = a /\ Append(<<a>>, b)[2] = b
    BY <1>1, <1>2, <1>3, <1>4, AppendProperties
<1>10. \A i \in 1 .. 2 : Append(<<a>>, b)[i] = <<a, b>>[i]
    BY <1>7, <1>9
<1> QED BY <1>5, <1>6, <1>8, <1>10, SeqEqual

-----------------------------------------------------------------------------
\* handleCommand, its middlewares, and the lookup of handler and route.
LEMMA HandleCommandIInv ==
    ASSUME IInv, NEW c \in Calls, NEW m \in Methods, HandleCommand(c, m)
    PROVE  IInv'
<1>0. CallsInv /\ CallOK(call[c], ran[c], attachedDebuggees) /\ call[c].at = "idle"
    BY DEF IInv, CallsInv, HandleCommand
<1>1. Alone(c, InChain(c, "request", m), ran[c])
    BY <1>0, SameRan DEF Alone, HandleCommand, Elsewhere, registries, debuggees
<1>2. ran[c] = <<>>
    BY <1>0 DEF CallOK, Executed
<1>3. CallOK(InChain(c, "request", m), ran[c], attachedDebuggees)
    BY <1>0, <1>2, ChainFacts DEF CallOK, Executed, LetPass, Sends, Places
<1> QED BY <1>1, <1>3, AloneIInv

LEMMA NextMiddlewareIInv ==
    ASSUME IInv, NEW c \in Calls, NextMiddleware(c)
    PROVE  IInv'
<1>0. /\ CallsInv /\ CallOK(call[c], ran[c], attachedDebuggees) /\ DOMAIN call[c] = Fields
      /\ call' = [call EXCEPT ![c] = [call[c] EXCEPT !.left = Tail(@)]]
    BY DEF IInv, CallsInv, CallOK, NextMiddleware
<1>1. PICK k : k = [call[c] EXCEPT !.left = Tail(@)]
    OBVIOUS
<1>2. Alone(c, k, ran[c])
    BY <1>0, <1>1, SameRan DEF Alone, NextMiddleware, Elsewhere, registries, debuggees
<1>3. /\ DOMAIN k = Fields /\ k.at = call[c].at /\ k.params = call[c].params
      /\ k.route = call[c].route /\ k.debuggee = call[c].debuggee
    BY <1>0, <1>1 DEF Fields
<1>4. CallOK(k, ran[c], attachedDebuggees)
    BY <1>0, <1>3 DEF CallOK, Executed, LetPass, Sends
<1> QED BY <1>2, <1>4, AloneIInv

LEMMA DispatchIInv ==
    ASSUME IInv, NEW c \in Calls, Dispatch(c)
    PROVE  IInv'
<1>0. /\ CallsInv /\ CallOK(call[c], ran[c], attachedDebuggees) /\ DOMAIN call[c] = Fields
      /\ call[c].at = "request" /\ ran[c] = <<>>
    BY DEF IInv, CallsInv, CallOK, Executed, Dispatch
<1>1. PICK ending, route, place :
        /\ ending \in Endings(c) /\ place \in {"rejected", "handler", "loopback", "debugger"}
        /\ Refuses(ending) => place = "rejected"
        /\ call' = [call EXCEPT ![c] = [call[c] EXCEPT
                      !.left = <<>>, !.params = ending, !.route = route, !.at = place]]
    <2>1. PICK ending \in Endings(c), parses \in BOOLEAN :
            call' = [call EXCEPT
               ![c].left = <<>>,
               ![c].params = ending,
               ![c].route = IF HasHandler(call[c].method) THEN "handler"
                            ELSE RouteOf(call[c].method, routes),
               ![c].at = IF Refuses(ending) \/ ~parses THEN "rejected"
                         ELSE IF HasHandler(call[c].method) THEN "handler"
                         ELSE Upstream(RouteOf(call[c].method, routes))]
        BY DEF Dispatch
    <2>2. \A r : Upstream(r) \in {"rejected", "loopback", "debugger"}
        BY DEF Upstream
    <2> DEFINE route == IF HasHandler(call[c].method) THEN "handler"
                        ELSE RouteOf(call[c].method, routes)
               place == IF Refuses(ending) \/ ~parses THEN "rejected"
                        ELSE IF HasHandler(call[c].method) THEN "handler"
                        ELSE Upstream(RouteOf(call[c].method, routes))
    <2>3. /\ place \in {"rejected", "handler", "loopback", "debugger"}
          /\ Refuses(ending) => place = "rejected"
        BY <2>2
    <2>4. call' = [call EXCEPT ![c] = [call[c] EXCEPT
                    !.left = <<>>, !.params = ending, !.route = route, !.at = place]]
        BY <1>0, <2>1 DEF CallsInv, Fields
    <2> QED BY <2>3, <2>4
<1>2. PICK k : k = [call[c] EXCEPT
                     !.left = <<>>, !.params = ending, !.route = route, !.at = place]
    OBVIOUS
<1>3. Alone(c, k, ran[c])
    BY <1>0, <1>1, <1>2, SameRan DEF Alone, Dispatch, Elsewhere, registries, debuggees
<1>4. DOMAIN k = Fields /\ k.at = place /\ k.params = ending
    BY <1>0, <1>2 DEF Fields
<1>5. ending \in {"value", "nothing", "throws"}
    BY <1>1 DEF Endings
<1>6. place # "rejected" => ending = "value"
    BY <1>1, <1>5 DEF Refuses
<1>7. CallOK(k, ran[c], attachedDebuggees)
    BY <1>0, <1>1, <1>4, <1>6 DEF CallOK, Executed, LetPass, Sends, Places
<1> QED BY <1>3, <1>7, AloneIInv

\* A call ends or responds, having executed at r.
LEMMA EndsIInv ==
    ASSUME IInv, NEW c \in Calls, NEW r, ran' = [ran EXCEPT ![c] = r],
           Responds(c) \/ Rejects(c), call[c].params = "value",
           UNCHANGED <<attachedDebuggees, debugger, detached, commandHandlers>>,
           \/ r \in {<<>>, <<"handler">>, <<"loopback">>, <<"debugger">>}
           \/ call[c].route = "auto" /\ r = <<"loopback", "debugger">>
    PROVE  IInv'
<1>0. CallsInv
    BY DEF IInv
<1>1. /\ CallOK(InChain(c, "response", call[c].method), r, attachedDebuggees)
      /\ CallOK([call[c] EXCEPT !.at = "rejected"], r, attachedDebuggees)
    BY <1>0, RespondsOK
<1>2. \/ Alone(c, InChain(c, "response", call[c].method), r)
      \/ Alone(c, [call[c] EXCEPT !.at = "rejected"], r)
    BY <1>0, Becomes DEF Alone
<1> QED BY <1>1, <1>2, AloneIInv

LEMMA HandlerEndsIInv ==
    ASSUME IInv, NEW c \in Calls, HandlerEnds(c)
    PROVE  IInv'
<1>0. CallsInv /\ call[c].params = "value" /\ ran[c] = <<>>
    BY DEF IInv, CallsInv, CallOK, LetPass, Executed, HandlerEnds, Places
<1>1. Runs(c, "handler") /\ (Responds(c) \/ Rejects(c))
    BY DEF HandlerEnds
<1>2. ran' = [ran EXCEPT ![c] = <<"handler">>]
    <2>1. ran' = [ran EXCEPT ![c] = Append(ran[c], "handler")]
        BY <1>0, <1>1, SameRan
    <2>2. Append(ran[c], "handler") = <<"handler">>
        BY <1>0, AppendOne
    <2> QED BY <2>1, <2>2
<1>3. UNCHANGED <<attachedDebuggees, debugger, detached, commandHandlers>>
    BY DEF HandlerEnds, Elsewhere, registries, debuggees
<1> QED BY <1>0, <1>1, <1>2, <1>3, EndsIInv

LEMMA LoopbackEndsIInv ==
    ASSUME IInv, NEW c \in Calls, LoopbackEnds(c)
    PROVE  IInv'
<1>0. /\ CallsInv /\ call[c].params = "value" /\ ran[c] = <<>> /\ DOMAIN call[c] = Fields
      /\ call[c].at = "loopback"
    BY DEF IInv, CallsInv, CallOK, LetPass, Executed, LoopbackEnds, Places
<1>1. UNCHANGED <<attachedDebuggees, debugger, detached, commandHandlers>>
    BY DEF LoopbackEnds, Elsewhere, registries, debuggees
<1>2. PICK r \in {<<>>, <<"loopback">>} : ran' = [ran EXCEPT ![c] = r]
    BY <1>0, SameRan, AppendOne, SMTT(30) DEF LoopbackEnds
<1>3. CASE Responds(c) \/ Rejects(c)
    BY <1>0, <1>1, <1>2, <1>3, EndsIInv
<1>4. CASE call[c].route = "auto" /\ call' = [call EXCEPT ![c].at = "debugger"]
    <2>1. PICK k : k = [call[c] EXCEPT !.at = "debugger"]
        OBVIOUS
    <2>2. Alone(c, k, r)
        BY <1>1, <1>2, <1>4, <2>1 DEF Alone
    <2>3. /\ DOMAIN k = Fields /\ k.at = "debugger" /\ k.params = "value"
          /\ k.route = "auto"
        BY <1>0, <1>4, <2>1 DEF Fields
    <2>4. CallOK(k, r, attachedDebuggees)
        BY <1>2, <2>3 DEF CallOK, Executed, LetPass, Sends, Places
    <2> QED BY <2>2, <2>4, AloneIInv
<1> QED BY <1>3, <1>4 DEF LoopbackEnds, FallsBack

LEMMA RespondIInv ==
    ASSUME IInv, NEW c \in Calls, Respond(c)
    PROVE  IInv'
<1>0. /\ CallsInv /\ CallOK(call[c], ran[c], attachedDebuggees) /\ DOMAIN call[c] = Fields
      /\ call[c].at = "response" /\ call[c].params = "value"
    BY DEF IInv, CallsInv, CallOK, LetPass, Respond, Places
<1>1. PICK place \in {"rejected", "resolved"} :
        call' = [call EXCEPT ![c] = [call[c] EXCEPT !.left = <<>>, !.at = place]]
    <2>1. PICK ending \in Endings(c), parses \in BOOLEAN :
            call' = [call EXCEPT ![c].left = <<>>,
                       ![c].at = IF ending = "throws" \/ ~parses THEN "rejected" ELSE "resolved"]
        BY DEF Respond
    <2>2. call' = [call EXCEPT ![c] = [call[c] EXCEPT !.left = <<>>,
                     !.at = IF ending = "throws" \/ ~parses THEN "rejected" ELSE "resolved"]]
        BY <1>0, <2>1 DEF CallsInv, Fields
    <2> QED BY <2>2
<1>2. PICK k : k = [call[c] EXCEPT !.left = <<>>, !.at = place]
    OBVIOUS
<1>3. Alone(c, k, ran[c])
    BY <1>0, <1>1, <1>2, SameRan DEF Alone, Respond, Elsewhere, registries, debuggees
<1>4. /\ DOMAIN k = Fields /\ k.at = place /\ k.params = "value" /\ k.route = call[c].route
    BY <1>0, <1>2 DEF Fields
<1>5. CallOK(k, ran[c], attachedDebuggees)
    BY <1>0, <1>1, <1>4 DEF CallOK, Executed, LetPass, Sends, Places
<1> QED BY <1>3, <1>5, AloneIInv

-----------------------------------------------------------------------------
\* sendChromeDebugger.
Debugs(c) ==
    /\ CallsInv /\ DebuggeeInv /\ CallOK(call[c], ran[c], attachedDebuggees)
    /\ DOMAIN call[c] = Fields /\ call[c].params = "value"
    /\ ran[c] = <<>> \/ (call[c].route = "auto" /\ ran[c] = <<"loopback">>)

LEMMA DebugsFacts ==
    ASSUME IInv, NEW c \in Calls, call[c].at \in {"debugger", "attach", "enable", "send"}
    PROVE  Debugs(c)
    BY DEF IInv, Debugs, CallsInv, CallOK, LetPass, Executed, Places

\* The call goes on to another place, for the same debuggee unless it had none.
LEMMA GoesOnOK ==
    ASSUME NEW c \in Calls, Debugs(c), NEW k, NEW D, DOMAIN k = Fields,
           k.params = call[c].params, k.route = call[c].route,
           k.at \in {"attach", "enable", "send"}, k.debuggee \in Debuggees,
           k.at = "send" => k.debuggee \in D
    PROVE  CallOK(k, ran[c], D)
    BY DEF Debugs, CallOK, Executed, LetPass, Sends, Places

LEMMA ResolveDebuggeeIInv ==
    ASSUME IInv, NEW c \in Calls, ResolveDebuggee(c)
    PROVE  IInv'
<1>0. Debugs(c) /\ CallsInv /\ call[c].params = "value"
    BY DebugsFacts DEF ResolveDebuggee, Debugs
<1>1. /\ UNCHANGED <<attachedDebuggees, debugger, detached, commandHandlers>>
      /\ ran' = [ran EXCEPT ![c] = ran[c]]
    BY <1>0, SameRan DEF ResolveDebuggee, DebuggerOnly, registries, debuggees
<1>2. CASE Rejects(c)
    BY <1>0, <1>1, <1>2, EndsIInv DEF Debugs
<1>3. ASSUME NEW d \in Debuggees,
             call' = [call EXCEPT ![c].debuggee = d,
                        ![c].at = IF d \in attachedDebuggees THEN "send" ELSE "attach"]
      PROVE  IInv'
    <2> DEFINE place == IF d \in attachedDebuggees THEN "send" ELSE "attach"
    <2>1. PICK k : k = [call[c] EXCEPT !.debuggee = d, !.at = place]
        OBVIOUS
    <2>2. call' = [call EXCEPT ![c] = k]
        BY <1>0, <1>3, <2>1 DEF CallsInv, Debugs, Fields
    <2>3. Alone(c, k, ran[c])
        BY <1>1, <2>2 DEF Alone
    <2>4. /\ DOMAIN k = Fields /\ k.at = place /\ k.params = call[c].params
          /\ k.route = call[c].route /\ k.debuggee = d
        BY <1>0, <2>1 DEF Fields, Debugs
    <2>5. CallOK(k, ran[c], attachedDebuggees)
        BY <1>0, <2>4, GoesOnOK
    <2> QED BY <2>3, <2>5, AloneIInv
<1> QED BY <1>2, <1>3 DEF ResolveDebuggee

LEMMA AttachIInv ==
    ASSUME IInv, NEW c \in Calls, Attach(c)
    PROVE  IInv'
<1>0. /\ Debugs(c) /\ CallsInv /\ DebuggeeInv /\ call[c].params = "value"
      /\ call[c].debuggee \in Debuggees
    BY DebugsFacts DEF Attach, Debugs, CallOK, Sends
<1>1. /\ UNCHANGED <<attachedDebuggees, detached, commandHandlers>>
      /\ ran' = [ran EXCEPT ![c] = ran[c]]
    BY <1>0, SameRan DEF Attach, DebuggerOnly, registries
<1>2. CASE Rejects(c) /\ UNCHANGED debugger
    BY <1>0, <1>1, <1>2, EndsIInv DEF Debugs
<1>3. CASE /\ debugger' = [debugger EXCEPT ![call[c].debuggee] = IF @ = "none" THEN "worker" ELSE @]
           /\ call' = [call EXCEPT ![c].at = "enable"]
    <2>1. PICK k : k = [call[c] EXCEPT !.at = "enable"]
        OBVIOUS
    <2>2. call' = [call EXCEPT ![c] = k]
        BY <1>3, <2>1
    <2>3. /\ DOMAIN k = Fields /\ k.at = "enable" /\ k.params = call[c].params
          /\ k.route = call[c].route /\ k.debuggee = call[c].debuggee
        BY <1>0, <2>1 DEF Fields, Debugs
    <2>4. CallOK(k, ran[c], attachedDebuggees)
        BY <1>0, <2>3, GoesOnOK
    <2>5. CallsInv'
        BY <1>0, <1>1, <2>2, <2>4, OneCall
    <2>6. DebuggeeInv'
        BY <1>0, <1>1, <1>3 DEF DebuggeeInv, AttachedUnlessDetached
    <2> QED BY <1>1, <2>5, <2>6 DEF IInv
<1> QED BY <1>2, <1>3 DEF Attach

LEMMA EnableIInv ==
    ASSUME IInv, NEW c \in Calls, Enable(c)
    PROVE  IInv'
<1>0. /\ Debugs(c) /\ CallsInv /\ DebuggeeInv /\ call[c].params = "value"
      /\ call[c].debuggee \in Debuggees
    BY DebugsFacts DEF Enable, Debugs, CallOK, Sends
<1>1. /\ UNCHANGED <<debugger, detached, commandHandlers>>
      /\ ran' = [ran EXCEPT ![c] = ran[c]]
    BY <1>0, SameRan DEF Enable, DebuggerOnly, registries
<1>2. CASE Rejects(c) /\ UNCHANGED attachedDebuggees
    BY <1>0, <1>1, <1>2, EndsIInv DEF Debugs
<1>3. CASE /\ Enabled(call[c].debuggee)
           /\ attachedDebuggees' = attachedDebuggees \cup {call[c].debuggee}
           /\ call' = [call EXCEPT ![c].at = "send"]
    <2>1. PICK k : k = [call[c] EXCEPT !.at = "send"]
        OBVIOUS
    <2>2. call' = [call EXCEPT ![c] = k]
        BY <1>3, <2>1
    <2>3. /\ DOMAIN k = Fields /\ k.at = "send" /\ k.params = call[c].params
          /\ k.route = call[c].route /\ k.debuggee = call[c].debuggee
        BY <1>0, <2>1 DEF Fields, Debugs
    <2>4. CallOK(k, ran[c], attachedDebuggees')
        BY <1>0, <1>3, <2>3, GoesOnOK
    <2>5. CallsInv'
        BY <1>0, <1>1, <1>3, <2>2, <2>4, OneCall
    <2>6. DebuggeeInv'
        BY <1>0, <1>1, <1>3 DEF DebuggeeInv, AttachedUnlessDetached, Enabled
    <2> QED BY <1>1, <2>5, <2>6 DEF IInv
<1> QED BY <1>2, <1>3 DEF Enable

LEMMA SendIInv ==
    ASSUME IInv, NEW c \in Calls, Send(c)
    PROVE  IInv'
<1>0. Debugs(c) /\ CallsInv /\ call[c].params = "value"
    BY DebugsFacts DEF Send, Debugs
<1>1. UNCHANGED <<attachedDebuggees, debugger, detached, commandHandlers>>
    BY DEF Send, DebuggerOnly, registries, debuggees
<1>2. CASE Runs(c, "debugger") /\ Responds(c)
    <2>1. ran' = [ran EXCEPT ![c] = Append(ran[c], "debugger")]
        BY <1>0, <1>2, SameRan
    <2>2. \/ Append(ran[c], "debugger") = <<"debugger">>
          \/ call[c].route = "auto" /\ Append(ran[c], "debugger") = <<"loopback", "debugger">>
        BY <1>0, AppendOne, AppendTwo DEF Debugs
    <2> QED BY <1>0, <1>1, <1>2, <2>1, <2>2, EndsIInv
<1>3. CASE UNCHANGED ran /\ Rejects(c)
    <2>1. ran' = [ran EXCEPT ![c] = ran[c]]
        BY <1>0, <1>3, SameRan
    <2> QED BY <1>0, <1>1, <1>3, <2>1, EndsIInv DEF Debugs
<1> QED BY <1>2, <1>3 DEF Send

-----------------------------------------------------------------------------
LEMMA NextIInv == IInv /\ [Next]_vars => IInv'
<1> SUFFICES ASSUME IInv, [Next]_vars PROVE IInv'
    OBVIOUS
<1>0. CallsInv /\ DebuggeeInv /\ commandHandlers \subseteq Methods \cup Domains
    BY DEF IInv
<1>1. ASSUME UNCHANGED <<call, ran, attachedDebuggees, debugger, detached>>,
             commandHandlers' \subseteq Methods \cup Domains
      PROVE  IInv'
    <2>1. CallsInv' /\ DebuggeeInv'
        BY <1>0, <1>1 DEF CallsInv, DebuggeeInv, AttachedUnlessDetached
    <2> QED BY <1>1, <2>1 DEF IInv
<1>2. CASE Registration
    BY <1>0, <1>1, <1>2
    DEF Registration, Configure, AddCustomCommand, AddMiddleware, commands, debuggees
<1>3. CASE \E c \in Calls : Command(c)
    BY <1>3, HandleCommandIInv, NextMiddlewareIInv, DispatchIInv, HandlerEndsIInv,
       LoopbackEndsIInv, RespondIInv, ResolveDebuggeeIInv, AttachIInv, EnableIInv, SendIInv
    DEF Command
<1>4. ASSUME NEW d \in Debuggees, BrowserDetaches(d) \/ OtherDebugger(d)
      PROVE  IInv'
    <2>1. UNCHANGED <<call, ran, attachedDebuggees, commandHandlers>>
        BY <1>4 DEF BrowserDetaches, OtherDebugger, commands, DebuggerOnly, registries
    <2>2. CallsInv'
        BY <1>0, <2>1 DEF CallsInv
    <2>3. DebuggeeInv'
        BY <1>0, <1>4, <2>1 DEF BrowserDetaches, OtherDebugger, DebuggeeInv, AttachedUnlessDetached
    <2> QED BY <1>0, <2>1, <2>2, <2>3 DEF IInv
<1>5. CASE \E e \in Attaches \cup Plain :
             EventArrives(e) \/ EventCommandEnds(e) \/ EventChainEnds(e)
    BY <1>0, <1>1, <1>5
    DEF EventArrives, EventCommandEnds, EventChainEnds, EventOnly, commands, debuggees, registries
<1>6. CASE UNCHANGED vars
    BY <1>0, <1>1, <1>6 DEF vars, commands, debuggees, registries
<1> QED BY <1>2, <1>3, <1>4, <1>5, <1>6 DEF Next

LEMMA AllStays == Spec => []IInv
    BY InitIInv, NextIInv, PTL DEF Spec

-----------------------------------------------------------------------------
\* A call is at a place of the code; what is sent through chrome.debugger goes to a
\* debuggee that has been attached.
THEOREM TypeCorrect == Spec => []TypeOK
<1>1. IInv => TypeOK
    BY DEF IInv, CallsInv, CallOK, Sends, DebuggeeInv, TypeOK
<1> QED BY <1>1, AllStays, PTL

\* handleCommand executes a command in one place and once, whatever is registered,
\* configured or lost meanwhile; only the route "auto" may run it a second time.
THEOREM OneExecution == Spec => []RunsOnce
<1>1. IInv => RunsOnce
    <2>1. \A a : Len(<<a>>) = 1
        OBVIOUS
    <2>2. Len(<<>>) = 0
        OBVIOUS
    <2> QED BY <2>1, <2>2 DEF IInv, CallsInv, CallOK, Executed, RunsOnce
<1> QED BY <1>1, AllStays, PTL

\* What a request middleware has refused, or not yet let pass, has run nowhere.
THEOREM RefusedStays == Spec => []RefusedRunsNowhere
<1>1. IInv => RefusedRunsNowhere
    BY DEF IInv, CallsInv, CallOK, LetPass, RefusedRunsNowhere
<1> QED BY <1>1, AllStays, PTL

\* sendChromeDebugger keeps in attachedDebuggees only what the worker itself debugs,
\* until the browser detaches it.
THEOREM AttachedIsOurs == Spec => []AttachedUnlessDetached
<1>1. IInv => AttachedUnlessDetached
    BY DEF IInv, DebuggeeInv
<1> QED BY <1>1, AllStays, PTL

-----------------------------------------------------------------------------
(* Routes: no key comes twice, whatever is configured.                     *)

\* Induction over the naturals, for a set instead of a predicate: < is well-founded, so
\* that what S lacks would have a least element.
LEMMA LessThan ==
    \E R : /\ IsWellFoundedOn(R, Nat)
           /\ \A m, n \in Nat : m < n => <<m, n>> \in R
<1>1. \A m, n \in Nat : m < n => <<m, n>> \in OpToRel(<, Nat)
    BY DEF OpToRel
<1> QED BY <1>1, NatLessThanWellFounded, Zenon

LEMMA SetInduction ==
    ASSUME NEW S, 0 \in S, \A n \in S : n \in Nat => n + 1 \in S
    PROVE  Nat \subseteq S
<1> SUFFICES ASSUME NEW T, T = Nat \ S, T # {} PROVE FALSE
    OBVIOUS
<1>1. PICK R : /\ IsWellFoundedOn(R, Nat)
               /\ \A m, n \in Nat : m < n => <<m, n>> \in R
    BY LessThan
<1>2. PICK x \in T : \A y \in T : ~ (<<y, x>> \in R)
    BY <1>1, WFMin
<1>3. x \in Nat /\ x \notin S
    OBVIOUS
<1>4. PICK y \in Nat : y + 1 = x
    <2>1. x # 0
        BY <1>3
    <2>2. x - 1 \in Nat /\ (x - 1) + 1 = x
        BY <1>3, <2>1
    <2> QED BY <2>2
<1>5. y \notin S
    BY <1>3, <1>4
<1>6. y \in T /\ y < x
    BY <1>3, <1>4, <1>5
<1> QED BY <1>1, <1>2, <1>3, <1>4, <1>6

\* What the recursion of NewEntries defines, for the first n entries of user.
IsNew(base, user, g, n) ==
    g = [i \in 0 .. n |-> IF i = 0 THEN <<>>
                          ELSE IF Has(base, user[i].pattern) THEN g[i - 1]
                          ELSE Append(g[i - 1], user[i])]

\* There is such a function, so that the CHOOSE behind the recursive definition has a value.
LEMMA NewExists ==
    ASSUME NEW base, NEW user, NEW n \in Nat
    PROVE  \E g : IsNew(base, user, g, n)
<1> DEFINE S == {m \in Nat : \E g : IsNew(base, user, g, m)}
<1>1. 0 \in S
    <2>1. IsNew(base, user, [i \in 0 .. 0 |-> <<>>], 0)
        BY DEF IsNew
    <2> QED BY <2>1
<1>2. ASSUME NEW m \in S PROVE m + 1 \in S
    <2>1. PICK g : IsNew(base, user, g, m)
        OBVIOUS
    <2> DEFINE last == IF Has(base, user[m + 1].pattern) THEN g[m] ELSE Append(g[m], user[m + 1])
               h == [i \in 0 .. m + 1 |-> IF i = m + 1 THEN last ELSE g[i]]
    <2>2. m \in Nat
        OBVIOUS
    <2>3. \A i \in 0 .. m : g[i] = IF i = 0 THEN <<>>
                                   ELSE IF Has(base, user[i].pattern) THEN g[i - 1]
                                   ELSE Append(g[i - 1], user[i])
        BY <2>1, <2>2 DEF IsNew
    <2>4. h = [i \in 0 .. m + 1 |-> IF i = 0 THEN <<>>
                          ELSE IF Has(base, user[i].pattern) THEN h[i - 1]
                          ELSE Append(h[i - 1], user[i])]
        <3> SUFFICES ASSUME NEW i \in 0 .. m + 1
                     PROVE  h[i] = IF i = 0 THEN <<>>
                                   ELSE IF Has(base, user[i].pattern) THEN h[i - 1]
                                   ELSE Append(h[i - 1], user[i])
            OBVIOUS
        <3>1. CASE i = m + 1
            <4>1. h[i] = last /\ h[i - 1] = g[m] /\ i # 0
                BY <2>2, <3>1
            <4> QED BY <3>1, <4>1
        <3>2. CASE i \in 1 .. m
            <4>1. h[i] = g[i] /\ h[i - 1] = g[i - 1] /\ i # 0
                BY <2>2, <3>2
            <4> QED BY <2>2, <2>3, <3>2, <4>1
        <3>3. CASE i = 0
            <4>1. h[i] = g[i]
                BY <2>2, <3>3
            <4> QED BY <2>2, <2>3, <3>3, <4>1
        <3> QED BY <2>2, <3>1, <3>2, <3>3
    <2>5. IsNew(base, user, h, m + 1)
        BY <2>4 DEF IsNew
    <2> QED BY <2>2, <2>5
<1> HIDE DEF S
<1>3. Nat \subseteq S
    BY <1>1, <1>2, SetInduction
<1> QED BY <1>3 DEF S

LEMMA NewEntriesIs ==
    ASSUME NEW base, NEW user, Len(user) \in Nat
    PROVE  \E g : IsNew(base, user, g, Len(user)) /\ NewEntries(base, user) = g[Len(user)]
<1> DEFINE new == CHOOSE g : IsNew(base, user, g, Len(user))
<1>1. IsNew(base, user, new, Len(user))
    BY NewExists
<1>2. NewEntries(base, user) = new[Len(user)]
    BY DEF NewEntries, IsNew
<1> QED BY <1>1, <1>2

-----------------------------------------------------------------------------
Table(t) == t \in Seq(Entries) /\ Keyed(t)

\* What of user has been taken over after its first i entries.
Taken(base, user, t, i) ==
    /\ Table(t)
    /\ \A k \in DOMAIN t : /\ ~Has(base, t[k].pattern)
                           /\ \E j \in 1 .. i : user[j] = t[k]

\* One more entry, whose key base has not.
LEMMA AppendTaken ==
    ASSUME NEW base, NEW user, Table(user), NEW t, NEW i \in 0 .. Len(user) - 1,
           Taken(base, user, t, i), ~Has(base, user[i + 1].pattern)
    PROVE  Taken(base, user, Append(t, user[i + 1]), i + 1)
<1> DEFINE e == user[i + 1]
           u == Append(t, e)
<1>1. /\ t \in Seq(Entries) /\ user \in Seq(Entries) /\ Len(t) \in Nat /\ Len(user) \in Nat
      /\ DOMAIN t = 1 .. Len(t) /\ DOMAIN user = 1 .. Len(user) /\ i + 1 \in DOMAIN user
      /\ i \in Nat
    BY LenProperties DEF Taken, Table
<1>2. e \in Entries
    BY <1>1, ElementOfSeq
<1> HIDE DEF e
<1>3. /\ u \in Seq(Entries) /\ Len(u) = Len(t) + 1 /\ u[Len(t) + 1] = e
      /\ \A k \in 1 .. Len(t) : u[k] = t[k]
    BY <1>1, <1>2, AppendProperties
<1> HIDE DEF u
<1>4. DOMAIN u = 1 .. Len(t) + 1
    BY <1>3, LenProperties
<1>5. \A k \in 1 .. Len(t) : t[k].pattern # e.pattern
    <2> SUFFICES ASSUME NEW k \in 1 .. Len(t) PROVE t[k].pattern # e.pattern
        OBVIOUS
    <2>1. PICK j \in 1 .. i : user[j] = t[k]
        BY <1>1 DEF Taken
    <2>2. j \in DOMAIN user /\ j # i + 1
        BY <1>1
    <2>3. user[j].pattern # user[i + 1].pattern
        BY <1>1, <2>2 DEF Table, Keyed
    <2> QED BY <2>1, <2>3 DEF e
<1>6. Keyed(u)
    <2> SUFFICES ASSUME NEW k \in DOMAIN u, NEW l \in DOMAIN u, u[k].pattern = u[l].pattern
                 PROVE  k = l
        BY DEF Keyed
    <2>1. CASE k \in 1 .. Len(t) /\ l \in 1 .. Len(t)
        BY <1>1, <1>3, <2>1 DEF Taken, Table, Keyed
    <2>2. CASE k = Len(t) + 1 /\ l \in 1 .. Len(t)
        BY <1>3, <1>5, <2>2
    <2>3. CASE l = Len(t) + 1 /\ k \in 1 .. Len(t)
        BY <1>3, <1>5, <2>3
    <2> QED BY <1>1, <1>4, <2>1, <2>2, <2>3
<1>7. ASSUME NEW k \in DOMAIN u
      PROVE  ~Has(base, u[k].pattern) /\ \E j \in 1 .. i + 1 : user[j] = u[k]
    <2>1. CASE k \in 1 .. Len(t)
        <3>1. ~Has(base, t[k].pattern) /\ \E j \in 1 .. i : user[j] = t[k]
            BY <1>1, <2>1 DEF Taken
        <3> QED BY <1>1, <1>3, <2>1, <3>1
    <2>2. CASE k = Len(t) + 1
        <3>1. u[k] = user[i + 1] /\ i + 1 \in 1 .. i + 1
            BY <1>1, <1>3, <2>2 DEF e
        <3> QED BY <3>1
    <2> QED BY <1>1, <1>4, <2>1, <2>2
<1> QED BY <1>3, <1>6, <1>7 DEF Taken, Table, u, e

\* The entries that { ...defaultRoutes, ...server_routes } adds have keys of their own.
LEMMA NewEntriesTaken ==
    ASSUME NEW base, NEW user, Table(user)
    PROVE  Taken(base, user, NewEntries(base, user), Len(user))
<1>1. Len(user) \in Nat
    BY LenProperties DEF Table
<1>2. PICK g : IsNew(base, user, g, Len(user)) /\ NewEntries(base, user) = g[Len(user)]
    BY <1>1, NewEntriesIs
<1>3. \A i \in 0 .. Len(user) :
        g[i] = IF i = 0 THEN <<>>
               ELSE IF Has(base, user[i].pattern) THEN g[i - 1]
               ELSE Append(g[i - 1], user[i])
    BY <1>1, <1>2 DEF IsNew
<1> DEFINE S == {i \in Nat : i <= Len(user) => Taken(base, user, g[i], i)}
<1>4. 0 \in S
    <2>1. g[0] = <<>>
        BY <1>1, <1>3
    <2>2. Taken(base, user, <<>>, 0)
        BY DEF Taken, Table, Keyed
    <2> QED BY <2>1, <2>2
<1>5. ASSUME NEW i \in S PROVE i + 1 \in S
    <2> SUFFICES ASSUME i + 1 <= Len(user) PROVE Taken(base, user, g[i + 1], i + 1)
        OBVIOUS
    <2>0. i \in 0 .. Len(user) - 1 /\ i + 1 \in 0 .. Len(user) /\ i + 1 # 0 /\ (i + 1) - 1 = i
        BY <1>1
    <2>1. Taken(base, user, g[i], i)
        BY <1>1, <2>0
    <2>2. CASE Has(base, user[i + 1].pattern)
        <3>1. g[i + 1] = g[i]
            BY <1>3, <2>0, <2>2
        <3> QED BY <2>0, <2>1, <3>1 DEF Taken
    <2>3. CASE ~Has(base, user[i + 1].pattern)
        <3>1. g[i + 1] = Append(g[i], user[i + 1])
            BY <1>3, <2>0, <2>3
        <3> QED BY <2>0, <2>1, <2>3, <3>1, AppendTaken
    <2> QED BY <2>2, <2>3
<1> HIDE DEF S
<1>6. Nat \subseteq S
    BY <1>4, <1>5, SetInduction
<1>7. Taken(base, user, g[Len(user)], Len(user))
    BY <1>1, <1>6 DEF S
<1> QED BY <1>2, <1>7

\* Merging two tables gives a table: no key comes twice.
LEMMA MergedTable ==
    ASSUME NEW base, NEW user, Table(base), Table(user)
    PROVE  Table(Merged(base, user))
<1> DEFINE kept == [i \in DOMAIN base |-> IF Has(user, base[i].pattern)
                     THEN Entry(base[i].pattern, RouteIn(user, base[i].pattern)) ELSE base[i]]
           new == NewEntries(base, user)
<1>1. Taken(base, user, new, Len(user)) /\ new \in Seq(Entries) /\ Keyed(new)
    BY NewEntriesTaken DEF Taken, Table
<1>2. Len(base) \in Nat /\ DOMAIN base = 1 .. Len(base) /\ base \in Seq(Entries)
    BY LenProperties DEF Table
<1>3. ASSUME NEW i \in DOMAIN base
      PROVE  kept[i] \in Entries /\ kept[i].pattern = base[i].pattern
    <2>1. base[i] \in Entries
        BY <1>2, ElementOfSeq
    <2>2. CASE ~Has(user, base[i].pattern)
        BY <2>1, <2>2
    <2>3. CASE Has(user, base[i].pattern)
        <3>1. PICK j \in DOMAIN user : user[j].pattern = base[i].pattern
            BY <2>3 DEF Has
        <3>2. RouteIn(user, base[i].pattern) \in Routes
            <4> DEFINE all == {user[k] : k \in DOMAIN user}
                       r == CHOOSE e \in all : e.pattern = base[i].pattern
            <4>1. r \in all
                BY <3>1
            <4>2. all \subseteq Entries
                BY LenProperties, ElementOfSeq DEF Table
            <4> HIDE DEF r
            <4>3. r.route \in Routes
                BY <4>1, <4>2 DEF Entries
            <4> QED BY <4>3 DEF RouteIn, r
        <3>3. kept[i] = Entry(base[i].pattern, RouteIn(user, base[i].pattern))
            BY <2>3
        <3> QED BY <2>1, <3>2, <3>3 DEF Entry, Entries
    <2> QED BY <2>2, <2>3
<1>4. kept \in Seq(Entries) /\ Len(kept) = Len(base)
    <2>1. kept \in [1 .. Len(base) -> Entries]
        BY <1>2, <1>3
    <2> HIDE DEF kept
    <2> QED BY <1>2, <2>1
<1>5. \A i \in DOMAIN base : kept[i].pattern = base[i].pattern
    BY <1>3
<1> HIDE DEF kept, new
<1>6. Merged(base, user) = kept \o new
    BY DEF Merged, kept, new
<1>7. Len(new) \in Nat /\ DOMAIN new = 1 .. Len(new)
    BY <1>1, LenProperties
<1> DEFINE t == kept \o new
<1>8. /\ t \in Seq(Entries) /\ DOMAIN t = 1 .. Len(base) + Len(new)
      /\ \A i \in 1 .. Len(base) : t[i] = kept[i]
      /\ \A i \in 1 .. Len(new) : t[Len(base) + i] = new[i]
    <2>1. /\ t \in Seq(Entries) /\ Len(t) = Len(kept) + Len(new)
          /\ \A i \in 1 .. Len(kept) + Len(new) :
                t[i] = IF i <= Len(kept) THEN kept[i] ELSE new[i - Len(kept)]
        BY <1>1, <1>4, ConcatProperties
    <2> HIDE DEF t
    <2>2. DOMAIN t = 1 .. Len(base) + Len(new)
        BY <1>4, <2>1, LenProperties
    <2>3. \A i \in 1 .. Len(base) : t[i] = kept[i]
        BY <1>2, <1>4, <1>7, <2>1
    <2>4. \A i \in 1 .. Len(new) : t[Len(base) + i] = new[i]
        <3> TAKE i \in 1 .. Len(new)
        <3>1. Len(base) + i \in 1 .. Len(base) + Len(new) /\ ~(Len(base) + i <= Len(base))
              /\ (Len(base) + i) - Len(base) = i
            BY <1>2, <1>7
        <3> QED BY <1>4, <2>1, <3>1
    <2> QED BY <2>1, <2>2, <2>3, <2>4
<1> HIDE DEF t
<1>9. \A i \in 1 .. Len(base), j \in 1 .. Len(new) : kept[i].pattern # new[j].pattern
    <2> TAKE i \in 1 .. Len(base), j \in 1 .. Len(new)
    <2>1. ~Has(base, new[j].pattern)
        BY <1>1, <1>7 DEF Taken
    <2> QED BY <1>2, <1>5, <2>1 DEF Has
<1>10. Keyed(t)
    <2> SUFFICES ASSUME NEW i \in DOMAIN t, NEW j \in DOMAIN t, t[i].pattern = t[j].pattern
                 PROVE  i = j
        BY DEF Keyed
    <2>1. \A k \in DOMAIN t : \/ k \in 1 .. Len(base)
                            \/ \E l \in 1 .. Len(new) : k = Len(base) + l
        <3> TAKE k \in DOMAIN t
        <3>1. CASE k > Len(base)
            <4>1. k - Len(base) \in 1 .. Len(new) /\ k = Len(base) + (k - Len(base))
                BY <1>2, <1>7, <1>8, <3>1
            <4> QED BY <4>1
        <3> QED BY <1>2, <1>7, <1>8, <3>1
    <2>2. CASE i \in 1 .. Len(base) /\ j \in 1 .. Len(base)
        BY <1>2, <1>5, <1>8, <2>2 DEF Table, Keyed
    <2>3. ASSUME NEW k \in 1 .. Len(base), NEW l \in 1 .. Len(new)
          PROVE  t[k].pattern # t[Len(base) + l].pattern
        <3>1. t[k] = kept[k] /\ t[Len(base) + l] = new[l]
            BY <1>8
        <3> QED BY <1>9, <3>1
    <2>4. CASE \/ i \in 1 .. Len(base) /\ \E l \in 1 .. Len(new) : j = Len(base) + l
               \/ j \in 1 .. Len(base) /\ \E l \in 1 .. Len(new) : i = Len(base) + l
        BY <2>3, <2>4
    <2>5. ASSUME NEW k \in 1 .. Len(new), NEW l \in 1 .. Len(new), i = Len(base) + k,
                 j = Len(base) + l
          PROVE  i = j
        <3>1. new[k].pattern = new[l].pattern
            BY <1>8, <2>5
        <3>2. k = l
            BY <1>1, <1>7, <3>1 DEF Keyed
        <3> QED BY <2>5, <3>2
    <2> QED BY <2>1, <2>2, <2>4, <2>5
<1> QED BY <1>6, <1>8, <1>10 DEF Table, t

\* The routes that the worker starts with.
LEMMA DefaultTable ==
    ASSUME NEW o \in Orders
    PROVE  Table(DefaultRoutes(o))
<1> DEFINE n == Cardinality(ModDomains)
           mods == [i \in DOMAIN o |-> Entry(o[i], "service_worker")]
           last == Entry(Every, "auto")
<1>1. n \in Nat
    BY FS_CardinalityType, CommandsAssumption
<1>2. DOMAIN o = 1 .. n /\ \A i \in 1 .. n : o[i] \in ModDomains
    BY DEF Orders
<1>0. "auto" \in Routes /\ "service_worker" \in Routes
    BY DEF Routes
<1>3. last \in Entries /\ last.pattern = Every
    BY <1>0 DEF Entry, Entries
<1>4. \A i \in 1 .. n : mods[i] \in Entries /\ mods[i].pattern = o[i]
    BY <1>0, <1>2, CommandsAssumption DEF Entry, Entries
<1>5. mods \in Seq(Entries) /\ Len(mods) = n
    <2>1. mods \in [1 .. n -> Entries]
        BY <1>2, <1>4
    <2> HIDE DEF mods, n
    <2> QED BY <1>1, <2>1
<1> DEFINE t == mods \o <<last>>
<1> HIDE DEF mods, last, n
<1>6. /\ <<last>> \in Seq(Entries) /\ Len(<<last>>) = 1 /\ <<last>>[1] = last
    BY <1>3
<1>7. /\ t \in Seq(Entries) /\ Len(t) = n + 1
      /\ \A i \in 1 .. n + 1 : t[i] = IF i <= n THEN mods[i] ELSE <<last>>[i - n]
    BY <1>5, <1>6, ConcatProperties
<1> HIDE DEF t
<1>8. DOMAIN t = 1 .. n + 1 /\ (\A i \in 1 .. n : t[i] = mods[i]) /\ t[n + 1] = last
    <2>1. DOMAIN t = 1 .. n + 1
        BY <1>7, LenProperties
    <2>2. \A i \in 1 .. n : t[i] = mods[i]
        BY <1>1, <1>7
    <2>3. t[n + 1] = <<last>>[1]
        BY <1>1, <1>7
    <2> QED BY <1>6, <2>1, <2>2, <2>3
<1>9. Keyed(t)
    <2> SUFFICES ASSUME NEW i \in DOMAIN t, NEW j \in DOMAIN t, t[i].pattern = t[j].pattern
                 PROVE  i = j
        BY DEF Keyed
    <2>1. \A k \in DOMAIN t : k \in 1 .. n \/ k = n + 1
        BY <1>1, <1>8
    <2>2. \A k \in 1 .. n : o[k] # Every
        BY <1>2, CommandsAssumption
    <2>3. \A k \in 1 .. n : t[k].pattern = o[k]
        BY <1>4, <1>8
    <2>4. t[n + 1].pattern = Every
        BY <1>3, <1>8
    <2>5. CASE i \in 1 .. n /\ j \in 1 .. n
        BY <1>2, <2>3, <2>5 DEF Orders
    <2> QED BY <2>1, <2>2, <2>3, <2>4, <2>5
<1>10. DefaultRoutes(o) = t
    BY DEF DefaultRoutes, t, mods, last
<1> QED BY <1>7, <1>9, <1>10 DEF Table

-----------------------------------------------------------------------------
\* An entry is found by its key.
LEMMA RouteInIs ==
    ASSUME NEW t, Table(t), NEW i \in DOMAIN t
    PROVE  RouteIn(t, t[i].pattern) = t[i].route
<1> DEFINE all == {t[k] : k \in DOMAIN t}
           r == CHOOSE e \in all : e.pattern = t[i].pattern
<1>1. r \in all /\ r.pattern = t[i].pattern
    OBVIOUS
<1>2. PICK k \in DOMAIN t : r = t[k]
    BY <1>1
<1>3. k = i
    BY <1>1, <1>2 DEF Table, Keyed
<1> HIDE DEF r
<1>4. r = t[i]
    BY <1>2, <1>3
<1> QED BY <1>4 DEF RouteIn, r

\* The loop stops at the first entry whose pattern covers the method.
LEMMA FirstHit ==
    ASSUME NEW t, NEW m, Table(t), NEW i \in DOMAIN t, Covers(t[i].pattern, m),
           \A j \in DOMAIN t : Covers(t[j].pattern, m) => i <= j
    PROVE  RouteOf(m, t) = RouteIn(t, t[i].pattern)
<1> DEFINE hits == {j \in DOMAIN t : Covers(t[j].pattern, m)}
           first == CHOOSE k \in hits : \A j \in hits : k <= j
<1>1. i \in hits /\ \A j \in hits : i <= j
    OBVIOUS
<1>2. first \in hits /\ \A j \in hits : first <= j
    BY <1>1
<1>3. DOMAIN t \subseteq Nat
    BY LenProperties DEF Table
<1>4. first = i
    <2>1. first \in Nat /\ i \in Nat
        BY <1>2, <1>3
    <2>2. first <= i /\ i <= first
        BY <1>1, <1>2
    <2> HIDE DEF first, hits
    <2> QED BY <2>1, <2>2
<1>5. RouteOf(m, t) = t[first].route
    BY <1>1 DEF RouteOf
<1> QED BY <1>4, <1>5, RouteInIs

\* At most two entries cover a method, its own and its domain's: the first hit is the
\* longest match unless the domain's stands first.
LEMMA TableAgrees ==
    ASSUME Table(routes), Has(routes, Every)
    PROVE  RoutesAgree
<1> SUFFICES ASSUME NEW m \in Methods
             PROVE  RouteOf(m, routes) = IF Shadowed(m, routes) THEN RouteIn(routes, DomainOf[m])
                                         ELSE RouteFor(m, routes)
    BY DEF RoutesAgree
<1>0. DomainOf[m] \in Domains /\ m \notin Domains /\ m # DomainOf[m]
    BY CommandsAssumption
<1>1. DOMAIN routes \subseteq Nat
    BY LenProperties DEF Table
<1>2. \A i, j \in DOMAIN routes : routes[i].pattern = routes[j].pattern => i = j
    BY DEF Table, Keyed
<1>3. ASSUME ~Shadowed(m, routes), NEW i \in DOMAIN routes, routes[i].pattern = m
      PROVE  RouteOf(m, routes) = RouteFor(m, routes)
    <2>1. \A j \in DOMAIN routes : Covers(routes[j].pattern, m) => i <= j
        BY <1>0, <1>1, <1>2, <1>3 DEF Covers, Shadowed
    <2>2. RouteOf(m, routes) = RouteIn(routes, m)
        BY <1>3, <2>1, FirstHit DEF Covers
    <2>3. Has(routes, m)
        BY <1>3 DEF Has
    <2> QED BY <2>2, <2>3 DEF RouteFor
<1>4. ASSUME ~Has(routes, m), NEW i \in DOMAIN routes, routes[i].pattern = DomainOf[m]
      PROVE  RouteOf(m, routes) = RouteFor(m, routes)
    <2>1. \A j \in DOMAIN routes : Covers(routes[j].pattern, m) => i <= j
        BY <1>1, <1>2, <1>4 DEF Covers, Has
    <2>2. RouteOf(m, routes) = RouteIn(routes, DomainOf[m])
        BY <1>4, <2>1, FirstHit DEF Covers
    <2>3. Has(routes, DomainOf[m])
        BY <1>4 DEF Has
    <2> QED BY <1>4, <2>2, <2>3 DEF RouteFor
<1>5. ASSUME ~Has(routes, m), ~Has(routes, DomainOf[m])
      PROVE  RouteOf(m, routes) = RouteFor(m, routes)
    <2>1. {i \in DOMAIN routes : Covers(routes[i].pattern, m)} = {}
        BY <1>5 DEF Covers, Has
    <2> QED BY <1>5, <2>1 DEF RouteOf, RouteFor, Otherwise
<1>6. CASE ~Shadowed(m, routes)
    BY <1>3, <1>4, <1>5, <1>6 DEF Has
<1>7. CASE Shadowed(m, routes)
    <2>1. PICK i, j \in DOMAIN routes :
            i < j /\ routes[i].pattern = DomainOf[m] /\ routes[j].pattern = m
        BY <1>7 DEF Shadowed
    <2>2. \A k \in DOMAIN routes : Covers(routes[k].pattern, m) => i <= k
        BY <1>1, <1>2, <2>1 DEF Covers
    <2>3. RouteOf(m, routes) = RouteIn(routes, DomainOf[m])
        BY <2>1, <2>2, FirstHit DEF Covers
    <2> QED BY <1>7, <2>3
<1> QED BY <1>6, <1>7

\* The defaults end in "*.*", and merging routes with them loses no key.
LEMMA DefaultsEnd ==
    ASSUME NEW o \in Orders
    PROVE  Has(DefaultRoutes(o), Every)
<1> DEFINE n == Cardinality(ModDomains)
           mods == [i \in 1 .. n |-> Entry(o[i], "service_worker")]
           last == Entry(Every, "auto")
<1>1. n \in Nat /\ DOMAIN o = 1 .. n
    BY FS_CardinalityType, CommandsAssumption DEF Orders
<1>2. last.pattern = Every
    BY DEF Entry
<1>3. DefaultRoutes(o) = mods \o <<last>>
    BY <1>1 DEF DefaultRoutes
<1>4. mods \in Seq({mods[i] : i \in 1 .. n}) /\ Len(mods) = n
    BY <1>1
<1> HIDE DEF mods, last, n
<1>5. n + 1 \in DOMAIN (mods \o <<last>>) /\ (mods \o <<last>>)[n + 1] = last
    BY <1>1, <1>4
<1> QED BY <1>2, <1>3, <1>5 DEF Has

LEMMA MergeKeeps ==
    ASSUME NEW base, NEW user, Table(base), Table(user), Has(base, Every)
    PROVE  Has(Merged(base, user), Every)
<1> DEFINE kept == [i \in DOMAIN base |-> IF Has(user, base[i].pattern)
                     THEN Entry(base[i].pattern, RouteIn(user, base[i].pattern)) ELSE base[i]]
           new == NewEntries(base, user)
<1>1. /\ new \in Seq(Entries) /\ Len(new) \in Nat
      /\ Len(base) \in Nat /\ DOMAIN base = 1 .. Len(base)
    BY NewEntriesTaken, LenProperties DEF Taken, Table
<1>2. PICK i \in DOMAIN base : base[i].pattern = Every
    BY DEF Has
<1>3. kept[i].pattern = Every
    BY <1>2 DEF Entry
<1>4. kept \in Seq({kept[j] : j \in DOMAIN base}) /\ Len(kept) = Len(base)
    BY <1>1
<1>5. Merged(base, user) = kept \o new
    BY DEF Merged
<1> HIDE DEF kept, new
<1>6. i \in DOMAIN (kept \o new) /\ (kept \o new)[i] = kept[i]
    BY <1>1, <1>2, <1>4
<1> QED BY <1>3, <1>5, <1>6 DEF Has

\* Only configure() writes the routes.
LEMMA RoutesStay == Spec => [](Table(routes) /\ Has(routes, Every))
<1>1. Init => Table(routes) /\ Has(routes, Every)
    BY DefaultTable, DefaultsEnd DEF Init
<1>2. Table(routes) /\ Has(routes, Every) /\ [Next]_vars => (Table(routes) /\ Has(routes, Every))'
    <2> SUFFICES ASSUME Table(routes), Has(routes, Every), [Next]_vars
                 PROVE  Table(routes') /\ Has(routes', Every)
        BY DEF Table, Keyed, Has
    <2>1. CASE UNCHANGED routes
        BY <2>1
    <2>2. CASE Configure
        <3>1. PICK user \in UserRoutes, o \in Orders : routes' = Merged(DefaultRoutes(o), user)
            BY <2>2 DEF Configure
        <3>2. Table(user)
            BY CommandsAssumption DEF Table
        <3> QED BY <3>1, <3>2, DefaultTable, DefaultsEnd, MergedTable, MergeKeeps
    <2>3. Next => Configure \/ UNCHANGED routes
        BY DEF Next, Registration, Command, AddCustomCommand, AddMiddleware, HandleCommand,
               NextMiddleware, Dispatch, HandlerEnds, LoopbackEnds, Respond, ResolveDebuggee,
               Attach, Enable, Send, BrowserDetaches, OtherDebugger, EventArrives,
               EventCommandEnds, EventChainEnds, Elsewhere, DebuggerOnly, EventOnly, registries
    <2> QED BY <2>1, <2>2, <2>3 DEF vars, registries
<1> QED BY <1>1, <1>2, PTL DEF Spec

\* The server's loop over the routes chooses for every method what the longest match of
\* the clients would, or the domain's route exactly where that comes first, whatever order
\* the keys of the defaults and of the configured routes come in.
THEOREM SameRoute == Spec => []RoutesAgree
    BY TableAgrees, RoutesStay, PTL

-----------------------------------------------------------------------------
Events == Attaches \cup Plain
EventPlaces == {"none", "Page.enable", "Page.setLifecycleEventsEnabled", "chain", "published",
                "dropped"}

\* An event waits at every place but the first and the last ones; the lists agree with it.
EventOK(e) ==
    /\ event[e].at \in EventPlaces /\ DOMAIN event[e] = {"at", "waited"}
    /\ event[e].at \in EventPlaces \ {"none", "published", "dropped"} => event[e].waited
    /\ (\E i \in DOMAIN arrived : arrived[i] = e) => event[e].at # "none"
    /\ (\E i \in DOMAIN published : published[i] = e) => event[e].at = "published"

EventsInv ==
    /\ arrived \in Seq(Events) /\ published \in Seq(Events) /\ DOMAIN event = Events
    /\ \A e \in Events : EventOK(e)
    /\ OvertakesOnlyWaiting

\* What comes before what, once x has been appended.
LEMMA BeforeAppend ==
    ASSUME NEW S, NEW s \in Seq(S), NEW x \in S, NEW e, NEW f, Before(Append(s, x), e, f)
    PROVE  Before(s, e, f) \/ (f = x /\ \E i \in DOMAIN s : s[i] = e)
<1> DEFINE t == Append(s, x)
<1>1. /\ t \in Seq(S) /\ Len(t) = Len(s) + 1 /\ t[Len(s) + 1] = x
      /\ \A i \in 1 .. Len(s) : t[i] = s[i]
    BY AppendProperties
<1> HIDE DEF t
<1>2. Len(s) \in Nat /\ DOMAIN s = 1 .. Len(s) /\ DOMAIN t = 1 .. Len(s) + 1
    BY <1>1, LenProperties
<1>3. PICK i \in DOMAIN t, j \in DOMAIN t : i < j /\ t[i] = e /\ t[j] = f
    BY DEF Before, t
<1>4. i \in 1 .. Len(s) /\ s[i] = e
    BY <1>1, <1>2, <1>3
<1>5. CASE j = Len(s) + 1
    BY <1>1, <1>2, <1>3, <1>4, <1>5
<1>6. CASE j \in 1 .. Len(s)
    BY <1>1, <1>2, <1>3, <1>4, <1>6 DEF Before
<1> QED BY <1>2, <1>3, <1>5, <1>6

LEMMA RangeAppend ==
    ASSUME NEW S, NEW s \in Seq(S), NEW x \in S, NEW i \in DOMAIN Append(s, x)
    PROVE  Append(s, x)[i] = x \/ \E j \in DOMAIN s : s[j] = Append(s, x)[i]
<1> DEFINE t == Append(s, x)
<1>1. /\ t \in Seq(S) /\ Len(t) = Len(s) + 1 /\ t[Len(s) + 1] = x
      /\ \A k \in 1 .. Len(s) : t[k] = s[k]
    BY AppendProperties
<1> HIDE DEF t
<1>2. Len(s) \in Nat /\ DOMAIN s = 1 .. Len(s) /\ DOMAIN t = 1 .. Len(s) + 1
    BY <1>1, LenProperties
<1>3. i \in DOMAIN t
    BY DEF t
<1>4. i = Len(s) + 1 \/ i \in 1 .. Len(s)
    BY <1>2, <1>3
<1>5. t[i] = x \/ \E j \in DOMAIN s : s[j] = t[i]
    BY <1>1, <1>2, <1>4
<1> QED BY <1>5 DEF t

\* What a step of one event x may do: it moves on, having waited if it had, and is
\* appended to the lists as it arrives and as it is published.
Moves(x, k) ==
    /\ event' = [event EXCEPT ![x] = k] /\ DOMAIN k = {"at", "waited"}
    /\ k.at \in EventPlaces \ {"none"} /\ event[x].at # "published"
    /\ event[x].waited => k.waited
    /\ k.at \in EventPlaces \ {"none", "published", "dropped"} => k.waited
    /\ arrived' = IF event[x].at = "none" THEN Append(arrived, x) ELSE arrived
    /\ published' = IF k.at = "published" THEN Append(published, x) ELSE published
    /\ event[x].at \in {"none", "Page.enable", "Page.setLifecycleEventsEnabled", "chain"}

\* An event that is published now stands behind all others: it overtakes nothing, and only
\* what has waited is overtaken.
LEMMA MovesInv ==
    ASSUME EventsInv, NEW x \in Events, NEW k, Moves(x, k)
    PROVE  EventsInv'
<1>0. /\ arrived \in Seq(Events) /\ published \in Seq(Events) /\ DOMAIN event = Events
      /\ \A e \in Events : EventOK(e)
    BY DEF EventsInv
<1>1. arrived' \in Seq(Events) /\ published' \in Seq(Events) /\ DOMAIN event' = Events
    BY <1>0, AppendProperties DEF Moves
<1>2. event'[x] = k /\ \A e \in Events : e # x => event'[e] = event[e]
    BY <1>0 DEF Moves
<1>3. \A i \in DOMAIN arrived' : arrived'[i] = x \/ \E j \in DOMAIN arrived : arrived[j] = arrived'[i]
    BY <1>0, RangeAppend DEF Moves
<1>4. \A i \in DOMAIN published' : \/ published'[i] = x /\ k.at = "published"
                                 \/ \E j \in DOMAIN published : published[j] = published'[i]
    BY <1>0, RangeAppend DEF Moves
<1>5. ASSUME NEW e \in Events PROVE EventOK(e)'
    <2>1. CASE e = x
        <3>1. ~\E i \in DOMAIN published : published[i] = x
            BY <1>0 DEF EventOK, Moves
        <3>2. (\E i \in DOMAIN published' : published'[i] = x) => k.at = "published"
            BY <1>4, <3>1
        <3> QED BY <1>2, <2>1, <3>2 DEF Moves, EventOK
    <2>2. CASE e # x
        <3>1. event'[e] = event[e] /\ EventOK(e)
            BY <1>0, <1>2, <2>2
        <3>2. (\E i \in DOMAIN arrived' : arrived'[i] = e) => \E i \in DOMAIN arrived : arrived[i] = e
            BY <1>3, <2>2
        <3>3. (\E i \in DOMAIN published' : published'[i] = e)
                => \E i \in DOMAIN published : published[i] = e
            BY <1>4, <2>2
        <3> QED BY <3>1, <3>2, <3>3 DEF EventOK
    <2> QED BY <2>1, <2>2
<1>6. ASSUME NEW e \in Events, NEW f \in Events,
             Before(arrived', e, f), Before(published', f, e)
      PROVE  event'[e].waited
    <2>1. \/ Before(arrived, e, f)
          \/ f = x /\ event[x].at = "none"
        BY <1>0, <1>6, BeforeAppend DEF Moves
    <2>2. \/ Before(published, f, e)
          \/ e = x /\ \E i \in DOMAIN published : published[i] = f
        BY <1>0, <1>6, BeforeAppend DEF Moves
    <2>3. \E i \in DOMAIN published : published[i] = f
        BY <2>2 DEF Before
    <2>4. EventOK(f) /\ event[f].at = "published"
        BY <1>0, <2>3 DEF EventOK
    <2>5. Before(arrived, e, f)
        BY <2>1, <2>4
    <2>6. CASE Before(published, f, e)
        <3>1. event[e].waited
            BY <2>5, <2>6 DEF EventsInv, OvertakesOnlyWaiting, Events
        <3> QED BY <1>2, <3>1 DEF Moves
    <2>7. CASE e = x
        <3>1. \E i \in DOMAIN arrived : arrived[i] = e
            BY <2>5 DEF Before
        <3>2. EventOK(e) /\ event[e].at # "none"
            BY <1>0, <3>1 DEF EventOK
        <3>3. event[e].waited
            BY <2>7, <3>2 DEF EventOK, Moves, EventPlaces
        <3> QED BY <1>2, <2>7, <3>3 DEF Moves
    <2> QED BY <2>2, <2>6, <2>7
<1>7. OvertakesOnlyWaiting'
    BY <1>6 DEF OvertakesOnlyWaiting, Events, Before
<1> QED BY <1>1, <1>5, <1>7 DEF EventsInv

\* Each handler of an event moves it as Moves says.
LEMMA PublishMoves ==
    ASSUME EventsInv, NEW x \in Events, Publish(x),
           event[x].at \in {"none", "Page.setLifecycleEventsEnabled"},
           arrived' = IF event[x].at = "none" THEN Append(arrived, x) ELSE arrived
    PROVE  \E k : Moves(x, k)
<1>0. DOMAIN event = Events /\ EventOK(x)
    BY DEF EventsInv
<1>1. CASE middlewares["event"] = <<>>
    <2>1. PICK k : k = [event[x] EXCEPT !.at = "published"]
        OBVIOUS
    <2>2. event' = [event EXCEPT ![x] = k] /\ published' = Append(published, x)
        BY <1>1, <2>1 DEF Publish, Publishes
    <2>3. k.at = "published" /\ k.waited = event[x].waited /\ DOMAIN k = {"at", "waited"}
        BY <1>0, <2>1 DEF EventOK
    <2> QED BY <2>2, <2>3 DEF Moves, EventPlaces
<1>2. CASE middlewares["event"] # <<>>
    <2>1. PICK k : k = [at |-> "chain", waited |-> TRUE]
        OBVIOUS
    <2>2. event' = [event EXCEPT ![x] = k] /\ published' = published
        BY <1>2, <2>1 DEF Publish
    <2>3. k.at = "chain" /\ k.waited /\ DOMAIN k = {"at", "waited"}
        BY <2>1
    <2> QED BY <2>2, <2>3 DEF Moves, EventPlaces
<1> QED BY <1>1, <1>2

LEMMA EventSteps ==
    ASSUME EventsInv, NEW x \in Events,
           EventArrives(x) \/ EventCommandEnds(x) \/ EventChainEnds(x)
    PROVE  \E k : Moves(x, k)
<1>0. DOMAIN event = Events /\ EventOK(x)
    BY DEF EventsInv
<1>1. CASE EventArrives(x) /\ NeedsCommands(x)
    <2>1. PICK k : k = [at |-> "Page.enable", waited |-> x \in Attaches]
        OBVIOUS
    <2>2. event' = [event EXCEPT ![x] = k] /\ published' = published
        BY <1>1, <2>1 DEF EventArrives
    <2>3. k.at = "Page.enable" /\ k.waited /\ DOMAIN k = {"at", "waited"}
        BY <1>1, <2>1 DEF NeedsCommands
    <2>4. event[x].at = "none" /\ arrived' = Append(arrived, x)
        BY <1>1 DEF EventArrives
    <2> QED BY <2>2, <2>3, <2>4 DEF Moves, EventPlaces
<1>2. CASE EventArrives(x) /\ ~NeedsCommands(x)
    BY <1>2, PublishMoves DEF EventArrives
<1>3. CASE EventCommandEnds(x) /\ event[x].at = "Page.enable"
    <2>1. PICK k : k = [event[x] EXCEPT !.at = "Page.setLifecycleEventsEnabled"]
        OBVIOUS
    <2>2. event' = [event EXCEPT ![x] = k] /\ published' = published /\ arrived' = arrived
        BY <1>3, <2>1 DEF EventCommandEnds
    <2>3. /\ k.at = "Page.setLifecycleEventsEnabled" /\ k.waited = event[x].waited
          /\ DOMAIN k = {"at", "waited"} /\ event[x].waited
        BY <1>0, <1>3, <2>1 DEF EventOK, EventPlaces
    <2> QED BY <1>3, <2>2, <2>3 DEF Moves, EventPlaces
<1>4. CASE EventCommandEnds(x) /\ event[x].at # "Page.enable"
    BY <1>4, PublishMoves DEF EventCommandEnds
<1>5. CASE EventChainEnds(x)
    <2>1. PICK place \in {"published", "dropped"} :
            /\ event' = [event EXCEPT ![x].at = place]
            /\ published' = IF place = "published" THEN Append(published, x) ELSE published
        BY <1>5 DEF EventChainEnds, Publishes
    <2>2. PICK k : k = [event[x] EXCEPT !.at = place]
        OBVIOUS
    <2>3. k.at = place /\ k.waited = event[x].waited /\ DOMAIN k = {"at", "waited"}
        BY <1>0, <2>2 DEF EventOK
    <2>4. event[x].at = "chain" /\ arrived' = arrived
        BY <1>5 DEF EventChainEnds
    <2> QED BY <2>1, <2>2, <2>3, <2>4 DEF Moves, EventPlaces
<1> QED BY <1>1, <1>2, <1>3, <1>4, <1>5

LEMMA EventsStay == Spec => []EventsInv
<1>1. Init => EventsInv
    <2> SUFFICES ASSUME Init PROVE EventsInv
        OBVIOUS
    <2>1. arrived \in Seq(Events) /\ published \in Seq(Events)
        BY DEF Init
    <2>2. DOMAIN event = Events /\ \A e \in Events : EventOK(e)
        BY DEF Init, Events, EventOK, EventPlaces
    <2>3. OvertakesOnlyWaiting
        BY DEF Init, OvertakesOnlyWaiting, Before
    <2> QED BY <2>1, <2>2, <2>3 DEF EventsInv
<1>2. EventsInv /\ [Next]_vars => EventsInv'
    <2> SUFFICES ASSUME EventsInv, [Next]_vars PROVE EventsInv'
        OBVIOUS
    <2>1. CASE UNCHANGED events
        BY <2>1 DEF events, EventsInv, EventOK, OvertakesOnlyWaiting, Before
    <2>2. ASSUME NEW x \in Events, EventArrives(x) \/ EventCommandEnds(x) \/ EventChainEnds(x)
          PROVE  EventsInv'
        BY <2>2, EventSteps, MovesInv
    <2>3. Next => \/ UNCHANGED events
                  \/ \E x \in Events : EventArrives(x) \/ EventCommandEnds(x) \/ EventChainEnds(x)
        BY DEF Next, Registration, Configure, Command, AddCustomCommand, AddMiddleware,
               HandleCommand, NextMiddleware, Dispatch, HandlerEnds, LoopbackEnds, Respond,
               ResolveDebuggee, Attach, Enable, Send, BrowserDetaches, OtherDebugger,
               Elsewhere, DebuggerOnly, Events
    <2> QED BY <2>1, <2>2, <2>3 DEF vars
<1> QED BY <1>1, <1>2, PTL DEF Spec

\* An event overtakes another only if that one had to wait, for the commands of an
\* attached page or for event middlewares: whatever the order in which those end, and
\* whatever is registered meanwhile, events that need neither keep their order.
THEOREM OnlyWaitingOvertaken == Spec => []OvertakesOnlyWaiting
<1>1. EventsInv => OvertakesOnlyWaiting
    BY DEF EventsInv
<1> QED BY <1>1, EventsStay, PTL
=============================================================================
