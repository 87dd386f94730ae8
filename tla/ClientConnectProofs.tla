------------------------- MODULE ClientConnectProofs -------------------------
(***************************************************************************)
(* Proofs about ClientConnect, for every set of configurations, workers    *)
(* and calls of connect(): the types, that no command stays on a websocket *)
(* that is gone, what tidy use leaves, and that a loss on the way to the   *)
(* return of connect() makes it fail.                                      *)
(***************************************************************************)
EXTENDS ClientConnect, SequenceTheorems, TLAPS

Names == {"discover", "local", "load", "borrow"}

Building == {"prepare", "listen", "launch", "dial"}

Places == Building \cup {"idle", "peer", "initialize", "inject", "enable", "context", "bind",
                         "configure", "return"}

Searches == [left : Seq(Names),
             stage : {"none", "prepare", "load", "targets", "session", "attach", "probe", "pause"},
             seen : SUBSET Targets, probing : Targets \cup {NoTarget}, found : SUBSET Targets,
             late : BOOLEAN]

Maybe == Attempts \cup {0}

\* Where connect() and close() are.
TypeCall ==
    /\ config \in Configs /\ attempt \in Nat /\ attempt <= MaxAttempts
    /\ at \in Places /\ step \in Maybe
    /\ spare \in BOOLEAN /\ search \in Searches /\ ext \in Targets \cup {NoTarget}
    /\ closing \in [stage : {"no", "browser", "transport", "injectors"}, of : Maybe]
    /\ lost \in {"no", "on the way", "since"} /\ tidy \in BOOLEAN

\* What they made.
TypeMade ==
    /\ transport \in Maybe /\ launched \in Maybe /\ injectors \in Maybe
    /\ sock \in [Attempts -> {"none", "open", "closing", "closed"}]
    /\ listeners \in [Attempts -> Nat]
    /\ browser \in [Attempts -> {"none", "running", "gone", "orphaned"}]
    /\ copies \in [Attempts -> SUBSET Names]

\* Pings, workers and their sessions.
TypeWorld ==
    /\ ping \in [Attempts -> {"none", "asked", "pong", "done"}]
    /\ pingOver \in [Attempts -> Maybe] /\ waits \in SUBSET Attempts
    /\ target \in [Targets -> {"absent", "live", "gone"}] /\ ready \in SUBSET Targets
    /\ attached \in [Attempts -> SUBSET Targets] /\ known \in [Targets -> Maybe]
    /\ configured \in SUBSET (Attempts \X Targets)

TypeOK == TypeCall /\ TypeMade /\ TypeWorld

\* A call builds up an attempt of its own; a search goes on at one place only, and
\* only for workers that are ready.
PlaceInv ==
    /\ at # "idle" => attempt > 0
    /\ search.stage # "none" => at = "inject"
    /\ search.stage \in {"session", "attach", "probe"} => search.probing \in Targets
    /\ at = "inject" => search.left # <<>>
    /\ at \in {"listen", "peer"} => ~Raw
    /\ at \in {"enable", "context", "bind"} \/ (Raw /\ at \in {"configure", "return"}) => ext \in ready
    /\ search.found \subseteq ready

\* What is sent goes over a transport that is listened to, and with a websocket or a
\* pipe over the current one while that is open.
WireInv ==
    /\ transport # 0 => listeners[transport] > 0
    /\ step # 0 => listeners[step] > 0
    /\ \A a \in Attempts : pingOver[a] # 0 => listeners[pingOver[a]] > 0
    /\ at \in Building => listeners[attempt] = 0
    /\ \A a \in Attempts : a > attempt => listeners[a] = 0
    /\ Raw => closing.stage # "transport"
    /\ Raw /\ step # 0 /\ sock[step] = "open" => step = transport
    /\ config.kind = "ws" /\ step # 0 => sock[step] \in {"open", "closing"}
    /\ config.kind = "ws" => \A a \in Attempts :
         ping[a] = "asked" /\ pingOver[a] # 0 => sock[pingOver[a]] \in {"open", "closing"}

\* In tidy use, what runs or is unpacked is what the fields hold.
TidyInv ==
    tidy =>
      /\ at # "idle" => closing.stage = "no"
      /\ \A a \in Attempts : /\ browser[a] = "running" => launched = a
                             /\ copies[a] # {} => injectors = a
                             /\ Raw /\ sock[a] = "open" => transport = a
      /\ at \in Building => transport = 0 /\ injectors = attempt
      /\ at \in Building \ {"dial"} => launched = 0
      /\ closing.stage = "browser" => closing.of = launched
      /\ closing.stage = "injectors" => closing.of = injectors

IInv == TypeOK /\ PlaceInv /\ WireInv /\ TidyInv

OnSession == {"enable", "context", "bind", "configure"}

\* What connect() may rely on once it goes on with a worker's session: where nothing
\* was lost, the session is there, and a loss on the way cannot be made good.
ServeInv ==
    /\ \A a \in Attempts : \A t \in attached[a] : target[t] = "live"
    /\ ~config.server => configured = {}
    /\ at = "configure" => config.server
    /\ Raw =>
         /\ at = "return" /\ config.server => <<attempt, ext>> \in configured
         /\ lost # "no" => at \in OnSession \cup {"idle", "return"}
         /\ lost = "on the way" => at # "return"
         /\ lost = "on the way" /\ at \in OnSession => ~IsOpen(transport) \/ target[ext] = "gone"
         /\ lost = "since" => at \notin OnSession
         /\ lost = "no" /\ at \in {"context", "bind", "configure", "return"} => Serves

-----------------------------------------------------------------------------
(* A search and the steps around it.                                        *)

\* A step of connect() that builds nothing: the search, and what surrounds it.
Goes ==
    /\ UNCHANGED <<config, attempt, fields, objects, closing, lost, tidy, pings, target, configured>>
    /\ at # "idle" /\ at' \in Places \ Building
    /\ step' \in {0, step, Over}
    /\ spare' \in BOOLEAN /\ search' \in Searches /\ ext' \in Targets \cup {NoTarget}
    /\ ready' \in SUBSET Targets /\ attached' \in [Attempts -> SUBSET Targets]
    /\ known' \in [Targets -> Maybe]
    /\ PlaceInv'

\* The part of Goes that the pieces of a search establish; it finds ready workers only.
Searched(A) ==
    /\ at' \in {"idle", "inject", "enable"}
    /\ step' \in {0, step, Over}
    /\ search' \in Searches /\ ext' \in Targets \cup {NoTarget}
    /\ search'.stage # "none" => at' = "inject"
    /\ search'.stage \in {"session", "attach", "probe"} => search'.probing \in Targets
    /\ at' = "inject" => search'.left # <<>>
    /\ at' = "enable" => ext' \in A
    /\ search'.found \subseteq A

\* Attempts are numbered from 1, so that 0 stands for none.
LEMMA AttemptsAreNats ==
    /\ Attempts \subseteq Nat \ {0} /\ MaxAttempts \in Nat /\ 0 \in Maybe
    /\ \A a \in Attempts : a \in Maybe
BY ConnectAssumption DEF Attempts, Maybe

\* A call that runs has a number.
LEMMA RunningNumbered ==
    ASSUME TypeCall, PlaceInv, at # "idle"
    PROVE  attempt \in Attempts /\ attempt \in Nat /\ attempt > 0
<1>1. attempt > 0
    BY DEF PlaceInv
<1>2. attempt \in Nat /\ attempt <= MaxAttempts /\ MaxAttempts \in Nat
    BY ConnectAssumption DEF TypeCall
<1> QED BY <1>1, <1>2 DEF Attempts

\* Where no search goes on, there is none.
LEMMA NotSearching == ASSUME TypeCall, PlaceInv, at # "inject" PROVE search.stage = "none"
<1>1. search.stage # "none" => at = "inject"
    BY DEF PlaceInv
<1> QED BY <1>1

\* No search is a search that does nothing.
LEMMA NoSearchTyped ==
    /\ NoSearch \in Searches /\ NoSearch.stage = "none" /\ NoSearch.found = {}
<1>1. <<>> \in Seq(Names)
    OBVIOUS
<1> QED BY <1>1 DEF NoSearch, Searches

\* What a command goes over is an attempt, or nothing.
LEMMA OverTyped == ASSUME TypeOK PROVE Over \in Maybe
BY DEF TypeOK, TypeMade, Over, Maybe

\* The injectors of a configuration are some of the four.
LEMMA InjectorsNamed == InjectorsForConfig \in Seq(Names)
<1> DEFINE wants(mode) == config.mode \in {"auto", mode}
           discover == IF wants("discover") THEN <<"discover">> ELSE <<>>
           inject == IF ~wants("inject") THEN <<>>
                     ELSE (IF config.launcher = "local" THEN <<"local">> ELSE <<>>) \o <<"load">>
           borrow == IF wants("borrow") THEN <<"borrow">> ELSE <<>>
<1>1. /\ <<>> \in Seq(Names) /\ <<"discover">> \in Seq(Names) /\ <<"local">> \in Seq(Names)
      /\ <<"load">> \in Seq(Names) /\ <<"borrow">> \in Seq(Names)
    BY DEF Names
<1>2. \A s, t \in Seq(Names) : s \o t \in Seq(Names)
    OBVIOUS
<1>3. discover \in Seq(Names) /\ inject \in Seq(Names) /\ borrow \in Seq(Names)
    BY <1>1, <1>2
<1>4. InjectorsForConfig = IF config.mode = "auto" /\ config.launcher = "local"
                           THEN inject \o discover \o borrow
                           ELSE discover \o inject \o borrow
    BY DEF InjectorsForConfig
<1> HIDE DEF discover, inject, borrow
<1> QED BY <1>2, <1>3, <1>4

\* ... and so are those that unpack the extension.
LEMMA UnpackingNamed == Unpacking \subseteq Names
BY DEF Unpacking, Names

\* The pieces of a search: a step of connect() throws,
LEMMA ThrowSearched == ASSUME TypeOK, Throw, UNCHANGED ext, NEW A PROVE Searched(A)
BY NoSearchTyped DEF Throw, Searched, TypeOK, TypeCall

\* the next injector begins, or there is none,
LEMMA NextInjectorSearched ==
    ASSUME TypeOK, NEW left \in Seq(Names), NextInjector(left), UNCHANGED ext, NEW A
    PROVE  Searched(A)
<1>1. CASE left = <<>>
    BY <1>1, ThrowSearched DEF NextInjector
<1>2. CASE left # <<>>
    <2>1. PICK stage \in {"prepare", "targets"} :
             /\ at' = "inject" /\ step' \in {0, Over}
             /\ search' = [NoSearch EXCEPT !.left = left, !.stage = stage]
        BY <1>2 DEF NextInjector
    <2>2. search' = [left |-> left, stage |-> stage, seen |-> {}, probing |-> NoTarget,
                     found |-> {}, late |-> FALSE]
        BY <2>1 DEF NoSearch
    <2>3. search' \in Searches
        BY <2>2 DEF Searches
    <2>4. /\ search'.stage \in {"prepare", "targets"} /\ search'.left = left
          /\ search'.found = {}
        BY <2>2
    <2>5. ext' \in Targets \cup {NoTarget}
        BY DEF TypeOK, TypeCall
    <2> QED BY <1>2, <2>1, <2>3, <2>4, <2>5 DEF Searched
<1> QED BY <1>1, <1>2

\* an injector gives up,
LEMMA InjectorFailsSearched ==
    ASSUME TypeOK, PlaceInv, at = "inject", InjectorFails, NEW A
    PROVE  Searched(A)
<1>1. search.left \in Seq(Names) /\ search.left # <<>>
    BY DEF TypeOK, TypeCall, Searches, PlaceInv
<1>2. Tail(search.left) \in Seq(Names)
    BY <1>1
<1> QED BY <1>2, NextInjectorSearched DEF InjectorFails

\* the extension is found,
LEMMA FoundSearched == ASSUME TypeOK, NEW A, NEW t \in A, t \in Targets, Found(t) PROVE Searched(A)
BY NoSearchTyped DEF Found, Searched

\* another candidate is looked at, or what follows the last one,
LEMMA NextCandidateSearched ==
    ASSUME TypeOK, PlaceInv, at = "inject", NEW A,
           NEW seen \in SUBSET Targets, NEW found \in SUBSET Targets, found \subseteq A,
           search.found \subseteq A,
           NextCandidate(seen, found)
    PROVE  Searched(A)
<1>0. search \in Searches /\ search.left # <<>> /\ ext \in Targets \cup {NoTarget}
    BY DEF TypeOK, TypeCall, PlaceInv
<1>1. CASE \E t \in seen :
             /\ search' = [search EXCEPT !.probing = t, !.seen = seen \ {t}, !.found = found,
                                         !.stage = "session"]
             /\ step' = 0 /\ UNCHANGED <<at, ext>>
    <2>1. PICK t \in seen :
             /\ search' = [search EXCEPT !.probing = t, !.seen = seen \ {t}, !.found = found,
                                         !.stage = "session"]
             /\ step' = 0 /\ UNCHANGED <<at, ext>>
        BY <1>1
    <2>2. search' \in Searches
        BY <1>0, <2>1 DEF Searches
    <2>3. /\ search'.stage = "session" /\ search'.probing = t /\ search'.found = found
          /\ search'.left = search.left
        BY <1>0, <2>1 DEF Searches
    <2> QED BY <1>0, <2>1, <2>2, <2>3 DEF Searched
<1>2. CASE seen = {} /\ \E t \in found : Found(t)
    BY <1>2, FoundSearched
<1>3. CASE /\ search' = [search EXCEPT !.stage = "pause", !.probing = NoTarget]
           /\ step' = 0 /\ UNCHANGED <<at, ext>>
    BY <1>0, <1>3 DEF Searched, Searches
<1>4. CASE InjectorFails
    BY <1>4, InjectorFailsSearched
<1> QED BY <1>1, <1>2, <1>3, <1>4 DEF NextCandidate

\* and a command is rejected.
LEMMA StepFailsSearched ==
    ASSUME TypeOK, PlaceInv, StepFails PROVE Searched(ready)
<1>0. /\ search.seen \in SUBSET Targets /\ search.found \in SUBSET Targets
      /\ search.found \subseteq ready
    BY DEF TypeOK, TypeCall, Searches, PlaceInv
<1> QED BY <1>0, NextCandidateSearched, InjectorFailsSearched, ThrowSearched DEF StepFails

\* Such a step keeps the places.
LEMMA SearchedGoes ==
    ASSUME TypeOK, PlaceInv, at # "idle", Searched(ready'),
           UNCHANGED <<config, attempt, fields, objects, closing, lost, tidy, pings, target,
                       configured>>,
           spare' \in BOOLEAN,
           ready' \in SUBSET Targets, attached' \in [Attempts -> SUBSET Targets],
           known' \in [Targets -> Maybe]
    PROVE  Goes
<1>1. PlaceInv'
    BY DEF Searched, PlaceInv, Raw
<1> QED BY <1>1 DEF Searched, Goes, Places, Building

\* ... and whoever goes on keeps the invariant.
LEMMA GoesKeeps == ASSUME IInv, Goes PROVE IInv'
<1>0. TypeOK /\ PlaceInv /\ WireInv /\ TidyInv
    BY DEF IInv
<1>1. TypeOK'
    <2>1. Over \in Maybe
        BY <1>0, OverTyped
    <2>2. TypeCall'
        BY <1>0, <2>1, AttemptsAreNats DEF TypeOK, TypeCall, Goes, Places
    <2>3. TypeMade'
        BY <1>0 DEF TypeOK, TypeMade, Goes, fields, objects
    <2>4. TypeWorld'
        BY <1>0 DEF TypeOK, TypeWorld, Goes, pings
    <2> QED BY <2>2, <2>3, <2>4 DEF TypeOK
<1>2. WireInv'
    BY <1>0 DEF WireInv, Goes, fields, objects, pings, Over, IsOpen, Raw
<1>3. TidyInv'
    BY <1>0 DEF TidyInv, Goes, fields, objects, Raw
<1> QED BY <1>1, <1>2, <1>3 DEF Goes, IInv

\* Every step of the search is made of these pieces.
LEMMA SearchSteps ==
    ASSUME TypeOK, PlaceInv,
           Initialized \/ StepRejected \/ ContextFails \/ PreparesAgain \/ Loaded \/ TargetsAnswered
             \/ Session \/ ProbeTimeout \/ AttachAnswered \/ ProbeAnswered
             \/ DeadlinePasses \/ PauseEnds
    PROVE  Goes
<1>0. /\ search \in Searches /\ ext \in Targets \cup {NoTarget} /\ spare \in BOOLEAN
      /\ search.seen \in SUBSET Targets /\ search.found \in SUBSET Targets
      /\ search.found \subseteq ready
    BY DEF TypeOK, TypeCall, Searches, PlaceInv
<1>1. /\ ready \in SUBSET Targets /\ attached \in [Attempts -> SUBSET Targets]
      /\ known \in [Targets -> Maybe]
    BY DEF TypeOK, TypeWorld
<1>2. CASE Initialized
    BY <1>0, <1>1, <1>2, InjectorsNamed, NextInjectorSearched, SearchedGoes
       DEF Initialized, rest, world
<1>3. CASE StepRejected
    <2>1. at # "idle"
        BY <1>3 DEF StepRejected, Asking, PlaceInv
    <2> QED BY <1>0, <1>1, <1>3, <2>1, StepFailsSearched, SearchedGoes DEF StepRejected, rest, world
<1>4. CASE ContextFails
    BY <1>0, <1>1, <1>4, ThrowSearched, SearchedGoes DEF ContextFails, rest, world
<1>5. CASE PreparesAgain
    <2>0. at = "inject" /\ search.left # <<>>
        BY <1>5 DEF PreparesAgain, PlaceInv
    <2>1. CASE InjectorFails /\ UNCHANGED spare
        BY <1>0, <1>1, <1>5, <2>0, <2>1, InjectorFailsSearched, SearchedGoes
           DEF PreparesAgain, rest, world
    <2>2. CASE ~(InjectorFails /\ UNCHANGED spare)
        <3>1. PICK stage \in {"load", "targets"} : search' = [search EXCEPT !.stage = stage]
            BY <1>5, <2>2 DEF PreparesAgain
        <3>2. /\ search' \in Searches /\ search'.stage = stage /\ search'.left = search.left
              /\ search'.found = search.found
            BY <1>0, <3>1 DEF Searches
        <3>3. Searched(ready)
            BY <1>0, <1>5, <2>0, <2>2, <3>2 DEF PreparesAgain, Searched
        <3> QED BY <1>0, <1>1, <1>5, <2>0, <2>2, <3>3, SearchedGoes DEF PreparesAgain, rest, world
    <2> QED BY <2>1, <2>2
<1>6. CASE Loaded
    <2>0. at = "inject" /\ search.left # <<>>
        BY <1>6 DEF Loaded, PlaceInv
    <2>1. /\ search' \in Searches /\ search'.stage = "targets" /\ search'.left = search.left
          /\ search'.found = search.found
        BY <1>0, <1>6 DEF Loaded, Searches
    <2>2. Searched(ready)
        BY <1>0, <1>6, <2>0, <2>1 DEF Loaded, Searched
    <2> QED BY <1>0, <1>1, <1>6, <2>0, <2>2, SearchedGoes DEF Loaded, searching, rest
<1>7. CASE TargetsAnswered
    <2>0. at = "inject" /\ search.left # <<>>
        BY <1>7 DEF TargetsAnswered, PlaceInv
    <2>1. PICK seen \in SUBSET Targets : NextCandidate(seen, {})
        BY <1>7 DEF TargetsAnswered
    <2>2. Searched(ready)
        BY <1>0, <2>0, <2>1, NextCandidateSearched
    <2> QED BY <1>0, <1>1, <1>7, <2>0, <2>2, SearchedGoes DEF TargetsAnswered, searching, rest
<1>8. CASE Session
    <2>0. at = "inject" /\ search.left # <<>> /\ search.probing \in Targets
        BY <1>8 DEF Session, PlaceInv
    <2>1. PICK stage \in {"probe", "attach"} : search' = [search EXCEPT !.stage = stage]
        BY <1>8 DEF Session
    <2>2. /\ search' \in Searches /\ search'.stage = stage /\ search'.left = search.left
          /\ search'.found = search.found /\ search'.probing = search.probing
        BY <1>0, <2>1 DEF Searches
    <2>3. Searched(ready)
        BY <1>0, <1>8, <2>0, <2>2 DEF Session, Searched
    <2> QED BY <1>0, <1>1, <1>8, <2>0, <2>3, SearchedGoes DEF Session, searching, rest
<1>9. CASE ProbeTimeout
    <2>0. at = "inject"
        BY <1>9 DEF ProbeTimeout, PlaceInv
    <2>1. Searched(ready)
        BY <1>0, <1>9, <2>0, NextCandidateSearched DEF ProbeTimeout
    <2> QED BY <1>0, <1>1, <1>9, <2>0, <2>1, SearchedGoes DEF ProbeTimeout, searching, rest
<1>10. CASE AttachAnswered
    <2>0. at = "inject" /\ search.left # <<>> /\ search.probing \in Targets
        BY <1>10 DEF AttachAnswered, PlaceInv
    <2>1. /\ search' \in Searches /\ search'.stage = "probe" /\ search'.left = search.left
          /\ search'.found = search.found /\ search'.probing = search.probing
        BY <1>0, <1>10 DEF AttachAnswered, Searches
    <2>2. Searched(ready)
        BY <1>0, <1>10, <2>0, <2>1 DEF AttachAnswered, Searched
    <2>3. attached' \in [Attempts -> SUBSET Targets]
        BY <1>1, <1>10, <2>0 DEF AttachAnswered
    <2>4. known' \in [Targets -> Maybe]
        BY <1>1, <1>10, <2>0 DEF AttachAnswered, TypeOK, TypeCall
    <2> QED BY <1>0, <1>1, <1>10, <2>0, <2>2, <2>3, <2>4, SearchedGoes
            DEF AttachAnswered, searching, rest
<1>11. CASE ProbeAnswered
    <2>0. at = "inject" /\ search.left # <<>> /\ search.probing \in Targets
        BY <1>11 DEF ProbeAnswered, PlaceInv
    <2>1. ready \subseteq ready' /\ ready' \in SUBSET Targets
        BY <1>1, <1>11, <2>0 DEF ProbeAnswered
    <2>5. Searched(ready')
        <3>1. CASE /\ Injector = "borrow" /\ search.probing \in ready'
                   /\ NextCandidate(search.seen, search.found \cup {search.probing})
            <4>1. /\ search.found \cup {search.probing} \in SUBSET Targets
                  /\ search.found \cup {search.probing} \subseteq ready'
                  /\ search.found \subseteq ready'
                BY <1>0, <2>0, <2>1, <3>1
            <4> QED BY <1>0, <2>0, <3>1, <4>1, NextCandidateSearched
        <3>2. CASE NextCandidate(search.seen, search.found)
            <4>1. search.found \subseteq ready'
                BY <1>0, <2>1
            <4> QED BY <1>0, <2>0, <3>2, <4>1, NextCandidateSearched
        <3>3. CASE search.probing \in ready' /\ Found(search.probing)
            BY <2>0, <3>3, FoundSearched
        <3> QED BY <1>11, <3>1, <3>2, <3>3, <2>1 DEF ProbeAnswered, IsReady
    <2> QED BY <1>0, <1>1, <1>11, <2>0, <2>1, <2>5, SearchedGoes DEF ProbeAnswered, searching, rest
<1>12. CASE DeadlinePasses
    <2>1. /\ search' \in Searches /\ search'.stage = search.stage /\ search'.left = search.left
          /\ search'.found = search.found /\ search'.probing = search.probing
        BY <1>0, <1>12 DEF DeadlinePasses, Searches
    <2>2. Searched(ready)
        BY <1>0, <1>12, <2>1 DEF DeadlinePasses, Searched, PlaceInv
    <2> QED BY <1>0, <1>1, <1>12, <2>2, SearchedGoes DEF DeadlinePasses, searching, rest
<1>13. CASE PauseEnds
    <2>0. at = "inject" /\ search.left # <<>>
        BY <1>13 DEF PauseEnds, PlaceInv
    <2>1. CASE InjectorFails
        BY <1>0, <1>1, <1>13, <2>0, <2>1, InjectorFailsSearched, SearchedGoes
           DEF PauseEnds, searching, rest
    <2>2. CASE ~InjectorFails
        <3>1. /\ search' \in Searches /\ search'.stage = "targets" /\ search'.left = search.left
              /\ search'.found = search.found
            BY <1>0, <1>13, <2>2 DEF PauseEnds, Searches
        <3>2. Searched(ready)
            BY <1>0, <1>13, <2>0, <2>2, <3>1 DEF PauseEnds, Searched
        <3> QED BY <1>0, <1>1, <1>13, <2>0, <3>2, SearchedGoes DEF PauseEnds, searching, rest
    <2> QED BY <2>1, <2>2
<1> QED BY <1>2, <1>3, <1>4, <1>5, <1>6, <1>7, <1>8, <1>9, <1>10, <1>11, <1>12, <1>13

\* Waiting for a peer, for the worker's context and for the binding.
LEMMA WaitSteps == ASSUME TypeOK, PlaceInv, PeerWaitEnds \/ Continue PROVE Goes
<1>0. /\ search \in Searches /\ ext \in Targets \cup {NoTarget} /\ spare \in BOOLEAN
      /\ ready \in SUBSET Targets /\ attached \in [Attempts -> SUBSET Targets]
      /\ known \in [Targets -> Maybe]
    BY DEF TypeOK, TypeCall, TypeWorld
<1>1. CASE PeerWaitEnds
    <2>1. CASE Throw
        BY <1>0, <1>1, <2>1, ThrowSearched, SearchedGoes DEF PeerWaitEnds, rest, world
    <2>2. CASE ~Throw
        BY <1>0, <1>1, <2>2 DEF PeerWaitEnds, Configures, rest, world, Goes, Places, Building, PlaceInv, Raw
    <2> QED BY <2>1, <2>2
<1>2. CASE Continue
    BY <1>0, <1>2 DEF Continue, ContextAsked, Configures, rest, world, Goes, Places, Building, PlaceInv, Raw
<1> QED BY <1>1, <1>2

-----------------------------------------------------------------------------
(* What connect() builds.                                                   *)

\* The first state.
LEMMA InitIInv == Init => IInv
<1> SUFFICES ASSUME Init PROVE IInv
    OBVIOUS
<1>1. TypeCall
    <2>1. MaxAttempts >= 0 /\ 0 \in Maybe
        BY ConnectAssumption DEF Maybe
    <2> QED BY <2>1, NoSearchTyped DEF Init, TypeCall, Places
<1>2. TypeMade
    BY DEF Init, TypeMade, Maybe
<1>3. TypeWorld
    BY ConnectAssumption DEF Init, TypeWorld, Maybe
<1>4. PlaceInv
    BY NoSearchTyped DEF Init, PlaceInv
<1>5. WireInv
    BY AttemptsAreNats DEF Init, WireInv, Building
<1>6. TidyInv
    BY DEF Init, TidyInv, Building
<1> QED BY <1>1, <1>2, <1>3, <1>4, <1>5, <1>6 DEF IInv, TypeOK

\* A transport is established, an old one again or a new one.
LEMMA EstablishedKeeps ==
    ASSUME TypeOK, PlaceInv, WireInv, NEW a \in Attempts, a <= attempt',
           NEW socks \in [Attempts -> {"none", "open", "closing", "closed"}],
           Established(a, socks), search.stage = "none",
           UNCHANGED <<config, search, ext, pings, ready, closing>>,
           attempt' \in Nat, attempt' > 0, attempt' >= attempt,
           \A b \in Attempts \ {a} : socks[b] = sock[b],
           socks[a] = sock[a] \/ (socks[a] = "open" /\ listeners[a] = 0)
    PROVE  /\ PlaceInv' /\ WireInv' /\ at' \in Places \ Building /\ step' \in Maybe
           /\ transport' = a /\ sock' = socks /\ listeners' \in [Attempts -> Nat]
<1>1. /\ sock \in [Attempts -> {"none", "open", "closing", "closed"}]
      /\ listeners \in [Attempts -> Nat] /\ sock' = socks /\ transport' = a
      /\ attempt \in Nat /\ a # 0 /\ a \in Nat
    BY AttemptsAreNats DEF TypeOK, TypeMade, TypeCall, Established
<1>2. listeners' = [listeners EXCEPT ![a] = @ + 1]
    BY DEF Established
<1>3. /\ listeners' \in [Attempts -> Nat] /\ listeners'[a] > 0
      /\ \A b \in Attempts \ {a} : listeners'[b] = listeners[b]
    BY <1>1, <1>2
<1>4. /\ at' \in {"initialize", "peer"} /\ step' \in {0, a} /\ (Raw => at' # "peer")
      /\ step' # 0 => Raw /\ socks[a] = "open"
    BY DEF Established
<1>5. PlaceInv'
    BY <1>4 DEF PlaceInv, Raw
<1>6. \A b \in Attempts : b > attempt' => listeners'[b] = 0
    BY <1>1, <1>3, AttemptsAreNats DEF WireInv
<1>7. \A b \in Attempts : pingOver[b] \in Attempts \/ pingOver[b] = 0
    BY DEF TypeOK, TypeWorld, Maybe
<1>8. config.kind = "ws" => \A b \in Attempts :
         ping[b] = "asked" /\ pingOver[b] # 0 => socks[pingOver[b]] \in {"open", "closing"}
    BY <1>1, <1>7 DEF WireInv
<1>9. \A b \in Attempts : pingOver[b] # 0 => listeners'[pingOver[b]] > 0
    BY <1>1, <1>3, <1>7 DEF WireInv
<1>10. WireInv'
    BY <1>1, <1>3, <1>4, <1>6, <1>8, <1>9 DEF WireInv, Raw, Building, pings
<1> QED BY <1>1, <1>3, <1>4, <1>5, <1>10 DEF Places, Building, Maybe

\* connect() begins, with the transport there is or without one.
LEMMA ConnectKeeps == IInv /\ Connect => IInv'
<1> SUFFICES ASSUME IInv, Connect PROVE IInv'
    OBVIOUS
<1>0. TypeOK /\ PlaceInv /\ WireInv /\ TidyInv
    BY DEF IInv
<1>1. /\ attempt' = attempt + 1 /\ attempt \in Nat /\ attempt' \in Attempts /\ at = "idle"
      /\ attempt' \in Nat /\ attempt' > 0 /\ attempt' > attempt /\ attempt' <= MaxAttempts
      /\ search.stage = "none"
      /\ tidy' = (tidy /\ closing.stage = "no" /\ fields = <<0, 0, 0>>)
    <2>1. search.stage = "none"
        BY <1>0, NotSearching DEF Connect, TypeOK
    <2>2. attempt \in Nat /\ attempt < MaxAttempts /\ MaxAttempts \in Nat
        BY <1>0, ConnectAssumption DEF Connect, TypeOK, TypeCall
    <2> QED BY <2>1, <2>2 DEF Connect, Attempts
<1>2. CASE transport # 0 /\ Established(transport, sock) /\ UNCHANGED injectors
    <2>1. transport \in Attempts /\ transport <= attempt'
        BY <1>0, <1>1, <1>2, AttemptsAreNats DEF TypeOK, TypeMade, Maybe, WireInv
    <2>2. sock \in [Attempts -> {"none", "open", "closing", "closed"}]
        BY <1>0 DEF TypeOK, TypeMade
    <2>3. /\ PlaceInv' /\ WireInv' /\ at' \in Places \ Building /\ step' \in Maybe
          /\ transport' = transport /\ sock' = sock /\ listeners' \in [Attempts -> Nat]
        BY <1>0, <1>1, <1>2, <2>1, <2>2, EstablishedKeeps DEF Connect, world
    <2>4. ~tidy'
        BY <1>1, <1>2 DEF fields
    <2>5. TypeOK'
        <3>1. TypeCall'
            BY <1>0, <1>1, <2>3, <2>4 DEF Connect, TypeOK, TypeCall
        <3>2. TypeMade'
            BY <1>0, <1>2, <2>3 DEF Connect, TypeOK, TypeMade
        <3>3. TypeWorld'
            BY <1>0 DEF Connect, TypeOK, TypeWorld, pings, world
        <3> QED BY <3>1, <3>2, <3>3 DEF TypeOK
    <2> QED BY <2>3, <2>4, <2>5 DEF IInv, TidyInv
<1>3. CASE /\ transport = 0 /\ at' = "prepare" /\ injectors' = attempt + 1
           /\ UNCHANGED <<transport, listeners, sock, step>>
    <2>1. TypeOK'
        <3>1. TypeCall'
            BY <1>0, <1>1, <1>3 DEF Connect, TypeOK, TypeCall, Places, Building
        <3>2. TypeMade'
            BY <1>0, <1>1, <1>3 DEF Connect, TypeOK, TypeMade, Maybe
        <3>3. TypeWorld'
            BY <1>0 DEF Connect, TypeOK, TypeWorld, pings, world
        <3> QED BY <3>1, <3>2, <3>3 DEF TypeOK
    <2>2. PlaceInv'
        BY <1>0, <1>1, <1>3 DEF Connect, PlaceInv, world
    <2>3. WireInv'
        BY <1>0, <1>1, <1>3, AttemptsAreNats DEF Connect, WireInv, pings, Raw
    <2>4. TidyInv'
        BY <1>0, <1>1, <1>3, AttemptsAreNats DEF Connect, TidyInv, fields, Building, Raw
    <2> QED BY <2>1, <2>2, <2>3, <2>4 DEF IInv
<1> QED BY <1>2, <1>3 DEF Connect

\* prepare(), listening, launching and dialling, each well or badly.
LEMMA BuildKeeps ==
    ASSUME IInv, Prepare \/ Listen \/ Launch \/ Dial PROVE IInv'
<1>0. TypeOK /\ PlaceInv /\ WireInv /\ TidyInv
    BY DEF IInv
<1>1. /\ at \in Building /\ attempt \in Attempts /\ attempt \in Nat /\ attempt > 0
      /\ listeners[attempt] = 0 /\ search.stage = "none" /\ search \in Searches
      /\ UNCHANGED <<config, attempt, spare, ext, injectors, closing, pings, world, configured, lost,
                     tidy>>
    <2>1. /\ at \in Building
          /\ UNCHANGED <<config, attempt, spare, ext, injectors, closing, pings, world, configured,
                         lost, tidy>>
        BY DEF Prepare, Listen, Launch, Dial, fields, Building
    <2>2. search.stage = "none" /\ search \in Searches
        BY <1>0, <2>1, NotSearching DEF TypeOK, TypeCall, Building
    <2>3. attempt \in Attempts /\ attempt \in Nat /\ attempt > 0
        BY <1>0, <2>1, RunningNumbered DEF TypeOK, Building
    <2> QED BY <1>0, <2>1, <2>2, <2>3 DEF WireInv
<1>2. /\ sock \in [Attempts -> {"none", "open", "closing", "closed"}]
      /\ listeners \in [Attempts -> Nat]
      /\ browser \in [Attempts -> {"none", "running", "gone", "orphaned"}]
      /\ copies \in [Attempts -> SUBSET Names]
      /\ transport \in Maybe /\ launched \in Maybe /\ injectors \in Maybe
    BY <1>0 DEF TypeOK, TypeMade
<1>3. /\ TypeWorld'
      /\ \A b \in Attempts : pingOver[b] \in Attempts \/ pingOver[b] = 0
      /\ \A b \in Attempts : pingOver[b] # attempt
      /\ step # attempt
    BY <1>0, <1>1 DEF TypeOK, TypeWorld, pings, world, Maybe, WireInv, PlaceInv, Building
<1>4. ASSUME at' \in Places, step' \in Maybe, search' \in Searches
      PROVE  TypeCall'
    BY <1>0, <1>1, <1>4 DEF TypeOK, TypeCall
<1>5. ASSUME Throw PROVE /\ at' = "idle" /\ step' = 0 /\ search' = NoSearch /\ PlaceInv' /\ TypeCall'
    <2>1. at' = "idle" /\ step' = 0 /\ search' = NoSearch
        BY <1>5 DEF Throw
    <2>2. PlaceInv'
        BY <1>0, <2>1, NoSearchTyped DEF PlaceInv
    <2>3. TypeCall'
        BY <1>4, <2>1, NoSearchTyped DEF Places, Maybe
    <2> QED BY <2>1, <2>2, <2>3
\* A transport that has no listener yet changes, and connect() goes on building or fails.
<1>6. ASSUME NEW v \in {"none", "open", "closing", "closed"},
             sock' = [sock EXCEPT ![attempt] = v] \/ UNCHANGED sock,
             sock' # sock /\ Raw => v # "open",
             UNCHANGED <<transport, listeners>>, step' \in {0, step},
             at' \in Building \cup {"idle"}
      PROVE  WireInv'
    <2>1. \A b \in Attempts \ {attempt} : sock'[b] = sock[b]
        BY <1>1, <1>2, <1>6
    <2>2. step \in Attempts \/ step = 0
        BY <1>0 DEF TypeOK, TypeCall, Maybe
    <2>3. /\ config' = config /\ attempt' = attempt /\ closing' = closing
          /\ pingOver' = pingOver /\ ping' = ping /\ transport' = transport /\ listeners' = listeners
        BY <1>1, <1>6 DEF pings
    <2>4. step' # 0 => step' = step /\ step \in Attempts \ {attempt} /\ sock'[step'] = sock[step]
        BY <1>3, <1>6, <2>1, <2>2
    <2>5. /\ transport' # 0 => listeners'[transport'] > 0
          /\ step' # 0 => listeners'[step'] > 0
          /\ \A a \in Attempts : pingOver'[a] # 0 => listeners'[pingOver'[a]] > 0
          /\ at' \in Building => listeners'[attempt'] = 0
          /\ \A a \in Attempts : a > attempt' => listeners'[a] = 0
          /\ Raw' => closing'.stage # "transport"
        BY <1>0, <1>1, <2>3, <2>4 DEF WireInv, Raw
    <2>6. /\ Raw' /\ step' # 0 /\ sock'[step'] = "open" => step' = transport'
          /\ config'.kind = "ws" /\ step' # 0 => sock'[step'] \in {"open", "closing"}
        BY <1>0, <2>3, <2>4 DEF WireInv, Raw
    <2>7. ASSUME config'.kind = "ws", NEW a \in Attempts, ping'[a] = "asked", pingOver'[a] # 0
          PROVE  sock'[pingOver'[a]] \in {"open", "closing"}
        <3>1. pingOver[a] \in Attempts \ {attempt} /\ sock'[pingOver[a]] = sock[pingOver[a]]
            BY <1>3, <2>1, <2>3, <2>7
        <3>2. sock[pingOver[a]] \in {"open", "closing"}
            BY <1>0, <2>3, <2>7 DEF WireInv
        <3> QED BY <2>3, <3>1, <3>2, Zenon
    <2> QED BY <2>5, <2>6, <2>7, Zenon DEF WireInv
\* The transport is established at last.
<1>7. ASSUME NEW socks \in [Attempts -> {"none", "open", "closing", "closed"}],
             Established(attempt, socks), UNCHANGED search,
             socks = sock \/ socks = [sock EXCEPT ![attempt] = "open"]
      PROVE  /\ PlaceInv' /\ WireInv' /\ TypeCall' /\ at' \in Places \ Building
             /\ transport' = attempt /\ sock' = socks /\ listeners' \in [Attempts -> Nat]
    <2>1. /\ \A b \in Attempts \ {attempt} : socks[b] = sock[b]
          /\ socks[attempt] = sock[attempt] \/ (socks[attempt] = "open" /\ listeners[attempt] = 0)
        BY <1>1, <1>2, <1>7
    <2>2. /\ PlaceInv' /\ WireInv' /\ at' \in Places \ Building /\ step' \in Maybe
          /\ transport' = attempt /\ sock' = socks /\ listeners' \in [Attempts -> Nat]
        BY <1>0, <1>1, <1>7, <2>1, EstablishedKeeps DEF world
    <2> QED BY <1>1, <1>4, <1>7, <2>2
<1>8. CASE Prepare
    <2>1. PICK unpacked \in SUBSET Unpacking :
             /\ copies' = [copies EXCEPT ![attempt] = unpacked]
             /\ \/ /\ at' = IF ~Raw THEN "listen"
                            ELSE IF config.launcher = "none" THEN "dial" ELSE "launch"
                   /\ UNCHANGED <<step, search>>
                \/ Throw
        BY <1>8 DEF Prepare
    <2>2. /\ copies' \in [Attempts -> SUBSET Names]
          /\ \A b \in Attempts \ {attempt} : copies'[b] = copies[b]
        BY <1>2, <2>1, UnpackingNamed
    <2>3. UNCHANGED <<fields, sock, listeners, browser>> /\ at = "prepare"
        BY <1>8 DEF Prepare
    <2>4. TypeMade'
        BY <1>2, <2>2, <2>3 DEF TypeMade, fields
    <2>5. /\ TypeCall' /\ PlaceInv' /\ at' \in {"listen", "dial", "launch", "idle"}
          /\ step' \in {0, step}
        <3>1. CASE Throw
            BY <1>5, <3>1
        <3>2. CASE ~Throw
            <4>1. at' \in {"listen", "dial", "launch"} /\ (Raw => at' # "listen")
                  /\ UNCHANGED <<step, search>>
                BY <2>1, <3>2
            <4>2. PlaceInv'
                BY <1>0, <1>1, <4>1 DEF PlaceInv, Raw, world
            <4>3. TypeCall'
                BY <1>0, <1>1, <1>4, <4>1 DEF Places, Building, TypeOK, TypeCall
            <4> QED BY <4>1, <4>2, <4>3
        <3> QED BY <3>1, <3>2
    <2>6. WireInv'
        BY <1>6, <2>3, <2>5 DEF fields, Building
    <2>7. TidyInv'
        BY <1>0, <1>1, <2>2, <2>3, <2>5 DEF TidyInv, fields, Building, Raw
    <2> QED BY <1>3, <2>4, <2>5, <2>6, <2>7 DEF IInv, TypeOK

<1>9. CASE Listen
    <2>0. at = "listen" /\ ~Raw /\ UNCHANGED <<launched, injectors, browser, copies>>
        BY <1>0, <1>9 DEF Listen, PlaceInv
    <2>1. CASE /\ config.launcher = "local" /\ at' = "launch"
               /\ sock' = [sock EXCEPT ![attempt] = "open"]
               /\ UNCHANGED <<step, search, transport, listeners>>
        <3>1. TypeMade'
            BY <1>1, <1>2, <2>0, <2>1 DEF TypeMade
        <3>2. PlaceInv'
            BY <1>0, <1>1, <2>1 DEF PlaceInv, Raw, world
        <3>3. TypeCall'
            BY <1>0, <1>1, <1>4, <2>1 DEF Places, Building, TypeOK, TypeCall
        <3>4. WireInv'
            BY <1>6, <2>0, <2>1 DEF Building
        <3>5. TidyInv'
            BY <1>0, <1>1, <2>0, <2>1 DEF TidyInv, Building, Raw
        <3> QED BY <1>3, <3>1, <3>2, <3>3, <3>4, <3>5 DEF IInv, TypeOK
    <2>2. CASE Established(attempt, [sock EXCEPT ![attempt] = "open"]) /\ UNCHANGED search
        <3>1. PICK socks \in [Attempts -> {"none", "open", "closing", "closed"}] :
                 socks = [sock EXCEPT ![attempt] = "open"]
            BY <1>2
        <3>2. /\ PlaceInv' /\ WireInv' /\ TypeCall' /\ at' \in Places \ Building
              /\ transport' = attempt /\ sock' = socks /\ listeners' \in [Attempts -> Nat]
            BY <1>7, <2>2, <3>1
        <3>3. TypeMade'
            BY <1>1, <1>2, <2>0, <3>2 DEF TypeMade, Maybe
        <3>4. TidyInv'
            BY <1>0, <1>1, <2>0, <3>2 DEF TidyInv, Building, Raw
        <3> QED BY <1>3, <3>2, <3>3, <3>4 DEF IInv, TypeOK
    <2>3. CASE Throw /\ UNCHANGED <<transport, sock, listeners>>
        <3>1. TypeMade'
            BY <1>1, <1>2, <2>0, <2>3 DEF TypeMade
        <3>2. PlaceInv' /\ TypeCall' /\ at' = "idle" /\ step' = 0
            BY <1>5, <2>3
        <3>3. WireInv'
            BY <1>6, <2>3, <3>2
        <3>4. TidyInv'
            BY <1>0, <1>1, <2>0, <2>3, <3>2 DEF TidyInv, Building, Raw
        <3> QED BY <1>3, <3>1, <3>2, <3>3, <3>4 DEF IInv, TypeOK
    <2> QED BY <1>9, <2>1, <2>2, <2>3 DEF Listen
<1>10. CASE Launch
    <2>0. /\ at = "launch" /\ UNCHANGED <<injectors, copies>>
          /\ tidy => launched = 0 /\ \A b \in Attempts : browser[b] # "running"
        BY <1>0, <1>10, AttemptsAreNats DEF Launch, TidyInv, Building
    <2>1. CASE /\ browser' = [browser EXCEPT ![attempt] = "running"]
               /\ launched' = attempt
               /\ IF Raw THEN at' = "dial" /\ UNCHANGED <<step, transport, sock, listeners>>
                  ELSE Established(attempt, sock)
               /\ UNCHANGED search
        <3>1. /\ browser' \in [Attempts -> {"none", "running", "gone", "orphaned"}]
              /\ \A b \in Attempts \ {attempt} : browser'[b] = browser[b]
            BY <1>2, <2>1
        <3>2. CASE Raw
            <4>1. /\ at' = "dial" /\ UNCHANGED <<step, transport, sock, listeners>>
                BY <2>1, <3>2
            <4>2. TypeMade'
                BY <1>1, <1>2, <2>0, <2>1, <3>1, <4>1 DEF TypeMade, Maybe
            <4>3. PlaceInv'
                BY <1>0, <1>1, <2>1, <4>1 DEF PlaceInv, Raw, world
            <4>4. TypeCall'
                BY <1>0, <1>1, <1>4, <2>1, <4>1 DEF Places, Building, TypeOK, TypeCall
            <4>5. WireInv'
                BY <1>6, <4>1 DEF Building
            <4>6. TidyInv'
                BY <1>0, <1>1, <2>0, <2>1, <3>1, <4>1 DEF TidyInv, Building, Raw
            <4> QED BY <1>3, <4>2, <4>3, <4>4, <4>5, <4>6 DEF IInv, TypeOK
        <3>3. CASE ~Raw
            <4>1. /\ PlaceInv' /\ WireInv' /\ TypeCall' /\ at' \in Places \ Building
                  /\ transport' = attempt /\ sock' = sock /\ listeners' \in [Attempts -> Nat]
                BY <1>2, <1>7, <2>1, <3>3
            <4>2. TypeMade'
                BY <1>1, <1>2, <2>0, <2>1, <3>1, <4>1 DEF TypeMade, Maybe
            <4>3. TidyInv'
                BY <1>0, <1>1, <2>0, <2>1, <3>1, <3>3, <4>1 DEF TidyInv, Building, Raw
            <4> QED BY <1>3, <4>1, <4>2, <4>3 DEF IInv, TypeOK
        <3> QED BY <3>2, <3>3
    <2>2. CASE /\ \E left \in {"gone", "orphaned"} : browser' = [browser EXCEPT ![attempt] = left]
               /\ Throw /\ UNCHANGED <<launched, transport, sock, listeners>>
        <3>1. /\ browser' \in [Attempts -> {"none", "running", "gone", "orphaned"}]
              /\ \A b \in Attempts : browser'[b] = "running" => browser[b] = "running"
            BY <1>2, <2>2
        <3>2. TypeMade'
            BY <1>1, <1>2, <2>0, <2>2, <3>1 DEF TypeMade
        <3>3. PlaceInv' /\ TypeCall' /\ at' = "idle" /\ step' = 0
            BY <1>5, <2>2
        <3>4. WireInv'
            BY <1>6, <2>2, <3>3
        <3>5. TidyInv'
            BY <1>0, <1>1, <2>0, <2>2, <3>1, <3>3 DEF TidyInv, Building, Raw
        <3> QED BY <1>3, <3>2, <3>3, <3>4, <3>5 DEF IInv, TypeOK
    <2> QED BY <1>10, <2>1, <2>2 DEF Launch
<1>11. CASE Dial
    <2>0. at = "dial" /\ UNCHANGED <<launched, injectors, browser, copies>>
        BY <1>11 DEF Dial
    <2>1. CASE Established(attempt, [sock EXCEPT ![attempt] = "open"]) /\ UNCHANGED search
        <3>1. PICK socks \in [Attempts -> {"none", "open", "closing", "closed"}] :
                 socks = [sock EXCEPT ![attempt] = "open"]
            BY <1>2
        <3>2. /\ PlaceInv' /\ WireInv' /\ TypeCall' /\ at' \in Places \ Building
              /\ transport' = attempt /\ sock' = socks /\ listeners' \in [Attempts -> Nat]
            BY <1>7, <2>1, <3>1
        <3>3. TypeMade'
            BY <1>1, <1>2, <2>0, <3>2 DEF TypeMade, Maybe
        <3>4. \A b \in Attempts \ {attempt} : sock'[b] = sock[b]
            BY <1>2, <3>1, <3>2
        <3>5. \A b \in Attempts : b # 0
            BY AttemptsAreNats
        <3>6. TidyInv'
            BY <1>0, <1>1, <2>0, <3>2, <3>4, <3>5 DEF TidyInv, Building, Raw
        <3> QED BY <1>3, <3>2, <3>3, <3>6 DEF IInv, TypeOK
    <2>2. CASE /\ sock' = [sock EXCEPT ![attempt] = "closed"]
               /\ Throw /\ UNCHANGED <<transport, listeners>>
        <3>1. /\ sock' \in [Attempts -> {"none", "open", "closing", "closed"}]
              /\ \A b \in Attempts : sock'[b] = "open" => sock[b] = "open"
            BY <1>2, <2>2
        <3>2. TypeMade'
            BY <1>1, <1>2, <2>0, <2>2, <3>1 DEF TypeMade
        <3>3. PlaceInv' /\ TypeCall' /\ at' = "idle" /\ step' = 0
            BY <1>5, <2>2
        <3>4. WireInv'
            BY <1>6, <2>2, <3>3
        <3>5. TidyInv'
            BY <1>0, <1>1, <2>0, <2>2, <3>1, <3>3 DEF TidyInv, Building, Raw
        <3> QED BY <1>3, <3>2, <3>3, <3>4, <3>5 DEF IInv, TypeOK
    <2> QED BY <1>11, <2>1, <2>2 DEF Dial
<1> QED BY <1>8, <1>9, <1>10, <1>11

-----------------------------------------------------------------------------
(* The ping, close(), and the browser.                                      *)

\* Mod.configure is answered.
LEMMA ConfiguredKeeps == IInv /\ Configured => IInv'
<1> SUFFICES ASSUME IInv, Configured PROVE IInv'
    OBVIOUS
<1>0. TypeOK /\ PlaceInv /\ WireInv /\ TidyInv
    BY DEF IInv
<1>1. /\ attempt \in Attempts /\ at = "configure" /\ at' = "return" /\ step' = 0
      /\ search.stage = "none"
      /\ UNCHANGED <<rest, spare, search, ext, pings, world>>
    BY <1>0, RunningNumbered, NotSearching DEF Configured, TypeOK
<1>2. configured' \in SUBSET (Attempts \X Targets)
    BY <1>0, <1>1 DEF Configured, PlaceInv, TypeOK, TypeWorld
<1>3. TypeOK'
    <2>1. TypeCall'
        BY <1>0, <1>1 DEF TypeOK, TypeCall, rest, Maybe, Places
    <2>2. TypeMade'
        BY <1>0, <1>1 DEF TypeOK, TypeMade, rest, fields, objects
    <2>3. TypeWorld'
        BY <1>0, <1>1, <1>2 DEF TypeOK, TypeWorld, world, pings
    <2> QED BY <2>1, <2>2, <2>3 DEF TypeOK
<1>4. PlaceInv'
    BY <1>0, <1>1 DEF PlaceInv, rest, world, Raw
<1>5. WireInv'
    BY <1>0, <1>1 DEF WireInv, rest, fields, objects, pings, Building, Raw
<1>6. TidyInv'
    BY <1>0, <1>1 DEF TidyInv, rest, fields, objects, Building, Raw
<1> QED BY <1>3, <1>4, <1>5, <1>6 DEF IInv

\* connect() returns, and its ping is sent.
LEMMA ReturnKeeps == IInv /\ Return => IInv'
<1> SUFFICES ASSUME IInv, Return PROVE IInv'
    OBVIOUS
<1>0. TypeOK /\ PlaceInv /\ WireInv /\ TidyInv
    BY DEF IInv
<1>1. /\ attempt \in Attempts /\ at = "return" /\ at' = "idle"
      /\ search.stage = "none" /\ Over \in Maybe
      /\ UNCHANGED <<rest, step, spare, search, ext, world, configured>>
    BY <1>0, OverTyped, RunningNumbered, NotSearching DEF Return, TypeOK
<1>2. /\ ping \in [Attempts -> {"none", "asked", "pong", "done"}]
      /\ pingOver \in [Attempts -> Maybe] /\ waits \in SUBSET Attempts
    BY <1>0 DEF TypeOK, TypeWorld
<1>3. /\ ping' = [ping EXCEPT ![attempt] = "asked"]
      /\ pingOver' = [pingOver EXCEPT ![attempt] = Over] /\ waits' = waits \cup {attempt}
    BY DEF Return
<1>5. TypeOK'
    <2>1. TypeCall'
        BY <1>0, <1>1 DEF TypeOK, TypeCall, rest, Maybe, Places
    <2>2. TypeMade'
        BY <1>0, <1>1 DEF TypeOK, TypeMade, rest, fields, objects
    <2>3. TypeWorld'
        BY <1>0, <1>1, <1>2, <1>3 DEF TypeOK, TypeWorld, world
    <2> QED BY <2>1, <2>2, <2>3 DEF TypeOK
<1>6. PlaceInv'
    BY <1>0, <1>1 DEF PlaceInv, rest, world
<1>7. /\ \A b \in Attempts \ {attempt} : ping'[b] = ping[b] /\ pingOver'[b] = pingOver[b]
      /\ pingOver'[attempt] = Over
      /\ Over # 0 => sock[Over] = "open" /\ listeners[Over] > 0
    BY <1>0, <1>1, <1>2, <1>3 DEF Over, IsOpen, WireInv
<1>8. WireInv'
    BY <1>0, <1>1, <1>7 DEF WireInv, rest, fields, objects, Building, Raw
<1>9. TidyInv'
    BY <1>0, <1>1 DEF TidyInv, rest, fields, objects, Building, Raw
<1> QED BY <1>5, <1>6, <1>8, <1>9 DEF IInv

\* What is noted of a loss is one of three words.
LEMMA LosesTyped ==
    ASSUME TypeCall, NEW went \in BOOLEAN, Loses(went) PROVE lost' \in {"no", "on the way", "since"}
BY DEF TypeCall, Loses

\* Pings that fail end, and no other begins.
LEMMA PingsFailingTyped ==
    ASSUME TypeWorld, NEW A \in SUBSET Attempts, PingsFailing(A)
    PROVE  /\ ping' \in [Attempts -> {"none", "asked", "pong", "done"}]
           /\ waits' \in SUBSET Attempts
           /\ \A a \in Attempts : ping'[a] = "asked" => ping[a] = "asked" /\ a \notin A
BY DEF TypeWorld, PingsFailing

\* A wait that settles begins no ping.
LEMMA SettledTyped ==
    ASSUME TypeWorld, NEW A
    PROVE  /\ Settled(A) \in [Attempts -> {"none", "asked", "pong", "done"}]
           /\ \A a \in Attempts : Settled(A)[a] = "asked" <=> ping[a] = "asked"
BY DEF TypeWorld, Settled

\* Nothing but the ping changes.
LEMMA PingKeeps ==
    ASSUME IInv, UNCHANGED <<away, fields, objects, closing, pingOver, world>>,
           ping' \in [Attempts -> {"none", "asked", "pong", "done"}], waits' \in SUBSET Attempts,
           \A a \in Attempts : ping'[a] = "asked" => ping[a] = "asked"
    PROVE  IInv'
<1>1. TypeCall'
    BY DEF IInv, TypeOK, TypeCall, away, awayButLost
<1>2. TypeMade'
    BY DEF IInv, TypeOK, TypeMade, fields, objects
<1>3. TypeWorld'
    BY DEF IInv, TypeOK, TypeWorld, away, awayButLost, world
<1>4. PlaceInv'
    BY DEF IInv, PlaceInv, away, awayButLost, world, Raw
<1>5. WireInv'
    BY DEF IInv, WireInv, away, awayButLost, fields, objects, Raw
<1>6. TidyInv'
    BY DEF IInv, TidyInv, away, awayButLost, fields, objects, Raw
<1> QED BY <1>1, <1>2, <1>3, <1>4, <1>5, <1>6 DEF IInv, TypeOK

\* The steps of the ping are of that kind.
LEMMA PingSteps ==
    ASSUME IInv,
           \/ \E a \in Attempts : PingAnswered(a) \/ PingRejected(a)
           \/ \E A \in SUBSET waits : Pong(A)
    PROVE  IInv'
<1>0. TypeWorld /\ waits \in SUBSET Attempts
    BY DEF IInv, TypeOK, TypeWorld
<1>1. ASSUME NEW a \in Attempts, PingAnswered(a) PROVE IInv'
    <2>1. /\ ping' \in [Attempts -> {"none", "asked", "pong", "done"}]
          /\ \A b \in Attempts : ping'[b] = "asked" => ping[b] = "asked"
        BY <1>0, <1>1 DEF PingAnswered, TypeWorld
    <2> QED BY <1>0, <1>1, <2>1, PingKeeps DEF PingAnswered
<1>2. ASSUME NEW a \in Attempts, PingRejected(a) PROVE IInv'
    BY <1>0, <1>2, PingsFailingTyped, PingKeeps DEF PingRejected
<1>3. ASSUME NEW A \in SUBSET waits, Pong(A) PROVE IInv'
    BY <1>0, <1>3, SettledTyped, PingKeeps DEF Pong
<1> QED BY <1>1, <1>2, <1>3

\* What closing the transport leaves: it is not open any more, and with a websocket or
\* a pipe it is not this.transport either.
LEMMA CloseTransportLeaves ==
    ASSUME TypeMade, CloseTransport
    PROVE  /\ sock' \in [Attempts -> {"none", "open", "closing", "closed"}]
           /\ \A a \in Attempts : /\ sock'[a] = "open" => sock[a] = "open" /\ a # transport
                                  /\ config.kind = "ws" /\ sock[a] \in {"open", "closing"}
                                       => sock'[a] \in {"open", "closing"}
           /\ transport' \in {0, transport}
           /\ closing' \in [stage : {"injectors", "transport"}, of : Maybe]
           /\ Raw => /\ transport' = 0 /\ closing'.stage = "injectors"
           /\ closing'.stage = "injectors" => closing'.of = injectors
BY DEF TypeMade, CloseTransport, Raw

\* close() and what follows its awaits, but for the last.
LEMMA CloseKeeps ==
    ASSUME IInv, Close \/ BrowserClosed \/ TransportClosed PROVE IInv'
<1>0. TypeCall /\ TypeMade /\ TypeWorld /\ PlaceInv /\ WireInv /\ TidyInv
    BY DEF IInv, TypeOK
<1>1. /\ UNCHANGED <<config, attempt, at, step, spare, search, ext, injectors, listeners, copies,
                     pingOver, world, configured>>
      /\ tidy' \in BOOLEAN /\ (tidy' => tidy /\ at = "idle")
      /\ lost' \in {"no", "on the way", "since"}
    <2>1. CASE Close
        <3>1. CASE CloseTransport
            <4>1. lost' \in {"no", "on the way", "since"}
                BY <1>0, <3>1, LosesTyped DEF CloseTransport, IsOpen
            <4> QED BY <1>0, <2>1, <4>1 DEF Close, TypeCall
        <3>2. CASE UNCHANGED lost
            BY <1>0, <2>1, <3>2 DEF Close, TypeCall
        <3> QED BY <2>1, <3>1, <3>2 DEF Close
    <2>2. CASE BrowserClosed
        <3>1. lost' \in {"no", "on the way", "since"}
            BY <1>0, <2>2, LosesTyped DEF BrowserClosed, CloseTransport, IsOpen
        <3> QED BY <1>0, <2>2, <3>1 DEF BrowserClosed, awayButLost, TypeCall, pings, TidyInv
    <2>3. CASE TransportClosed
        BY <1>0, <2>3 DEF TransportClosed, away, awayButLost, TypeCall, pings, TidyInv
    <2> QED BY <2>1, <2>2, <2>3
<1>2. /\ ping' \in [Attempts -> {"none", "asked", "pong", "done"}] /\ waits' \in SUBSET Attempts
      /\ \A a \in Attempts : ping'[a] = "asked" => ping[a] = "asked"
    BY <1>0, SettledTyped DEF Close, BrowserClosed, TransportClosed, TypeWorld, pings
<1>3. PlaceInv'
    BY <1>0, <1>1 DEF PlaceInv, Raw, world
<1>4. TypeWorld'
    BY <1>0, <1>1, <1>2 DEF TypeWorld, world
\* Whatever the step closes, the invariant stands if the following holds.
<1>5. ASSUME sock' \in [Attempts -> {"none", "open", "closing", "closed"}],
             transport' \in {0, transport},
             closing' \in [stage : {"no", "browser", "transport", "injectors"}, of : Maybe],
             \A a \in Attempts :
               /\ Raw /\ sock'[a] = "open" => sock[a] = "open" /\ (a = transport => transport' = a)
               /\ config.kind = "ws" /\ sock[a] \in {"open", "closing"}
                    => sock'[a] \in {"open", "closing"},
             Raw => closing'.stage # "transport",
             closing'.stage = "browser" => closing'.of = launched',
             closing'.stage = "injectors" => closing'.of = injectors,
             launched' \in Maybe, browser' \in [Attempts -> {"none", "running", "gone", "orphaned"}],
             tidy' => \A a \in Attempts : browser'[a] = "running" => launched' = a
      PROVE  IInv'
    <2>1. TypeCall' /\ TypeMade'
        BY <1>0, <1>1, <1>5 DEF TypeCall, TypeMade, Maybe
    <2>2. step \in Attempts \/ step = 0
        BY <1>0 DEF TypeCall, Maybe
    <2>3. \A a \in Attempts : pingOver[a] \in Attempts \/ pingOver[a] = 0
        BY <1>0 DEF TypeWorld, Maybe
    <2>4. WireInv'
        BY <1>0, <1>1, <1>2, <1>5, <2>2, <2>3 DEF WireInv, Raw, Building
    <2>5. TidyInv'
        BY <1>0, <1>1, <1>5 DEF TidyInv, Raw, Building
    <2> QED BY <1>3, <1>4, <2>1, <2>4, <2>5 DEF IInv, TypeOK
<1>6. CASE Close
    <2>1. CASE /\ launched # 0 /\ closing' = [stage |-> "browser", of |-> launched]
               /\ UNCHANGED <<sock, transport>>
        BY <1>0, <1>1, <1>5, <1>6, <2>1 DEF Close, TypeMade, TidyInv
    <2>2. CASE launched = 0 /\ CloseTransport
        BY <1>0, <1>1, <1>5, <1>6, <2>2, CloseTransportLeaves DEF Close, TypeMade, TidyInv
    <2> QED BY <1>6, <2>1, <2>2 DEF Close
<1>7. CASE BrowserClosed
    <2>1. /\ browser' \in [Attempts -> {"none", "running", "gone", "orphaned"}]
          /\ \A a \in Attempts : browser'[a] = "running" => browser[a] = "running" /\ a # closing.of
        BY <1>0, <1>7 DEF BrowserClosed, Gone, TypeMade
    <2>2. tidy' => \A a \in Attempts : browser'[a] # "running"
        BY <1>0, <1>1, <1>7, <2>1 DEF TidyInv, BrowserClosed
    <2> QED BY <1>0, <1>1, <1>5, <1>7, <2>1, <2>2, CloseTransportLeaves DEF BrowserClosed, Maybe
<1>8. CASE TransportClosed
    <2>1. ~Raw
        BY <1>0, <1>8 DEF TransportClosed, WireInv
    <2>2. sock' \in [Attempts -> {"none", "open", "closing", "closed"}]
        BY <1>0, <1>8 DEF TransportClosed, TypeMade
    <2> QED BY <1>0, <1>1, <1>5, <1>8, <2>1, <2>2 DEF TransportClosed, TypeMade, TidyInv, Raw
<1> QED BY <1>6, <1>7, <1>8

\* close() removes what the injectors unpacked.
LEMMA InjectorsClosedKeeps == IInv /\ InjectorsClosed => IInv'
<1> SUFFICES ASSUME IInv, InjectorsClosed PROVE IInv'
    OBVIOUS
<1>0. TypeCall /\ TypeMade /\ TypeWorld /\ PlaceInv /\ WireInv /\ TidyInv
    BY DEF IInv, TypeOK
<1>1. /\ copies' \in [Attempts -> SUBSET Names]
      /\ \A a \in Attempts : copies'[a] # {} => copies[a] # {} /\ a # closing.of
    BY <1>0 DEF InjectorsClosed, TypeMade
<1>2. TypeCall'
    BY <1>0 DEF InjectorsClosed, TypeCall, away, awayButLost, Maybe
<1>3. TypeMade'
    BY <1>0, <1>1 DEF InjectorsClosed, TypeMade, Maybe
<1>4. TypeWorld'
    BY <1>0 DEF InjectorsClosed, TypeWorld, away, awayButLost, pings, world
<1>5. PlaceInv'
    BY <1>0 DEF InjectorsClosed, PlaceInv, away, awayButLost, world, Raw
<1>6. WireInv'
    BY <1>0 DEF InjectorsClosed, WireInv, away, awayButLost, pings, Raw, Building
<1>7. TidyInv'
    BY <1>0, <1>1 DEF InjectorsClosed, TidyInv, away, awayButLost, Raw, Building
<1> QED BY <1>2, <1>3, <1>4, <1>5, <1>6, <1>7 DEF IInv, TypeOK

\* A socket closes: those who listen reject what is pending, and nobody sent
\* anything over a transport without a listener.
LEMMA SocketClosedKeeps == ASSUME IInv, NEW a \in Attempts, SocketClosed(a) PROVE IInv'
<1>0. TypeCall /\ TypeMade /\ TypeWorld /\ PlaceInv /\ WireInv /\ TidyInv
    BY DEF IInv, TypeOK
<1>1. /\ sock' \in [Attempts -> {"none", "open", "closing", "closed"}]
      /\ \A b \in Attempts \ {a} : sock'[b] = sock[b]
      /\ sock'[a] \in {sock[a], "closed"}
      /\ attached' \in [Attempts -> SUBSET Targets]
    BY <1>0 DEF SocketClosed, TypeMade, TypeWorld
<1>2. /\ step \in Attempts \/ step = 0
      /\ \A b \in Attempts : pingOver[b] \in Attempts \/ pingOver[b] = 0
    BY <1>0 DEF TypeCall, TypeWorld, Maybe
<1>3. /\ ping' \in [Attempts -> {"none", "asked", "pong", "done"}] /\ waits' \in SUBSET Attempts
      /\ \A b \in Attempts : ping'[b] = "asked" => /\ ping[b] = "asked"
                                                   /\ pingOver[b] # 0 => pingOver[b] # a
      /\ step' \in {0, step} /\ step' # a
    <2>1. CASE listeners[a] > 0
        <3>1. PingsFailing({b \in Attempts : pingOver[b] # 0}) /\ step' = 0
            BY <2>1 DEF SocketClosed
        <3>2. a # 0
            BY AttemptsAreNats
        <3> QED BY <1>0, <3>1, <3>2, PingsFailingTyped
    <2>2. CASE ~(listeners[a] > 0)
        BY <1>0, <2>2, AttemptsAreNats DEF SocketClosed, WireInv, TypeWorld
    <2> QED BY <2>1, <2>2
<1>4. TypeCall'
    <2>1. lost' \in {"no", "on the way", "since"}
        BY <1>0, LosesTyped DEF SocketClosed
    <2> QED BY <1>0, <1>3, <2>1 DEF SocketClosed, TypeCall, Maybe
<1>5. TypeMade'
    BY <1>0, <1>1 DEF SocketClosed, TypeMade, fields
<1>6. TypeWorld'
    BY <1>0, <1>1, <1>3 DEF SocketClosed, TypeWorld
<1>7. PlaceInv'
    BY <1>0 DEF SocketClosed, PlaceInv, Raw
<1>8. WireInv'
    BY <1>0, <1>1, <1>2, <1>3 DEF SocketClosed, WireInv, fields, Raw, Building
<1>9. TidyInv'
    BY <1>0, <1>1 DEF SocketClosed, TidyInv, fields, Raw, Building
<1> QED BY <1>4, <1>5, <1>6, <1>7, <1>8, <1>9 DEF IInv, TypeOK

\* Workers come and go.
LEMMA WorkerSteps ==
    ASSUME IInv,
           \/ \E t \in Targets : WorkerChanges(t) \/ WorkerStops(t)
           \/ \E a \in Attempts, t \in Targets : AutoAttached(a, t)
    PROVE  IInv'
<1>0. TypeCall /\ TypeMade /\ TypeWorld /\ PlaceInv /\ WireInv /\ TidyInv
    BY DEF IInv, TypeOK
<1> DEFINE Changes == /\ UNCHANGED <<awayButLost, fields, objects, closing, pings>>
                      /\ ready \subseteq ready' /\ ready' \in SUBSET Targets
                      /\ target' \in [Targets -> {"absent", "live", "gone"}]
                      /\ attached' \in [Attempts -> SUBSET Targets]
                      /\ known' \in [Targets -> Maybe] /\ lost' \in {"no", "on the way", "since"}
<1>1. Changes
    <2>1. ASSUME NEW t \in Targets, WorkerChanges(t) PROVE Changes
        BY <1>0, <2>1 DEF WorkerChanges, TypeWorld, TypeCall, away
    <2>2. ASSUME NEW t \in Targets, WorkerStops(t) PROVE Changes
        <3>1. lost' \in {"no", "on the way", "since"}
            BY <1>0, <2>2, LosesTyped DEF WorkerStops
        <3> QED BY <1>0, <2>2, <3>1 DEF WorkerStops, TypeWorld, Maybe
    <2>3. ASSUME NEW a \in Attempts, NEW t \in Targets, AutoAttached(a, t) PROVE Changes
        BY <1>0, <2>3 DEF AutoAttached, TypeWorld, TypeCall, Maybe, away
    <2> QED BY <2>1, <2>2, <2>3
<1>2. TypeCall'
    BY <1>0, <1>1 DEF TypeCall, away, awayButLost
<1>3. TypeMade'
    BY <1>0, <1>1 DEF TypeMade, fields, objects
<1>4. TypeWorld'
    BY <1>0, <1>1 DEF TypeWorld, away, awayButLost, pings
<1>5. PlaceInv'
    BY <1>0, <1>1 DEF PlaceInv, away, awayButLost, Raw
<1>6. WireInv'
    BY <1>0, <1>1 DEF WireInv, away, awayButLost, fields, objects, pings, Raw
<1>7. TidyInv'
    BY <1>0, <1>1 DEF TidyInv, away, awayButLost, fields, objects, Raw
<1> QED BY <1>2, <1>3, <1>4, <1>5, <1>6, <1>7 DEF IInv, TypeOK

-----------------------------------------------------------------------------
(* The theorems.                                                            *)

\* Every step keeps the invariant.
LEMMA NextIInv == IInv /\ [Next]_vars => IInv'
<1> SUFFICES ASSUME IInv, [Next]_vars PROVE IInv'
    OBVIOUS
<1>1. CASE Connect
    BY <1>1, ConnectKeeps
<1>2. CASE Prepare \/ Listen \/ Launch \/ Dial
    BY <1>2, BuildKeeps
<1>3. CASE PeerWaitEnds \/ Continue
    BY <1>3, WaitSteps, GoesKeeps DEF IInv
<1>4. CASE \/ Initialized \/ StepRejected \/ ContextFails \/ PreparesAgain \/ Loaded
           \/ TargetsAnswered \/ Session \/ ProbeTimeout \/ AttachAnswered \/ ProbeAnswered
           \/ DeadlinePasses \/ PauseEnds
    BY <1>4, SearchSteps, GoesKeeps DEF IInv
<1>5. CASE Configured \/ Return
    BY <1>5, ConfiguredKeeps, ReturnKeeps
<1>6. CASE \/ \E a \in Attempts : PingAnswered(a) \/ PingRejected(a)
           \/ \E A \in SUBSET waits : Pong(A)
    BY <1>6, PingSteps
<1>7. CASE \E a \in Attempts : SocketClosed(a)
    BY <1>7, SocketClosedKeeps
<1>8. CASE Close \/ BrowserClosed \/ TransportClosed
    BY <1>8, CloseKeeps
<1>9. CASE InjectorsClosed
    BY <1>9, InjectorsClosedKeeps
<1>10. CASE \/ \E t \in Targets : WorkerChanges(t) \/ WorkerStops(t)
            \/ \E a \in Attempts, t \in Targets : AutoAttached(a, t)
    BY <1>10, WorkerSteps
<1>11. CASE UNCHANGED vars
    <2>1. UNCHANGED <<away, fields, objects, closing, pings, pingOver, world>>
        BY <1>11 DEF vars, away, awayButLost, pings
    <2>2. /\ ping' \in [Attempts -> {"none", "asked", "pong", "done"}] /\ waits' \in SUBSET Attempts
          /\ \A a \in Attempts : ping'[a] = "asked" => ping[a] = "asked"
        BY <2>1 DEF IInv, TypeOK, TypeWorld, pings
    <2> QED BY <2>1, <2>2, PingKeeps
<1> QED BY <1>1, <1>2, <1>3, <1>4, <1>5, <1>6, <1>7, <1>8, <1>9, <1>10, <1>11 DEF Next

\* ... which therefore always holds.
LEMMA AlwaysIInv == Spec => []IInv
BY InitIInv, NextIInv, PTL DEF Spec

\* Every variable of connect(), close() and the search stays in its domain.
THEOREM TypeCorrect == Spec => []TypeOK
<1>1. IInv => TypeOK
    BY DEF IInv
<1> QED BY <1>1, AlwaysIInv, PTL

\* Whenever a command was sent, and whoever closed the websocket it went over, the
\* close event that rejects it is still to come.
THEOREM NothingHangs == Spec => []PendingCanSettle
<1>1. IInv => PendingCanSettle
    BY DEF IInv, WireInv, PendingCanSettle
<1> QED BY <1>1, AlwaysIInv, PTL

\* At whichever step a connect() failed, what it left is the client's to close, but for a
\* browser that launch() itself left when it threw.
THEOREM TidyUseIsClean == Spec => []TidyUseLeaksNothing
<1>1. IInv => TidyUseLeaksNothing
    BY DEF IInv, TidyInv, TidyUseLeaksNothing
<1> QED BY <1>1, AlwaysIInv, PTL

-----------------------------------------------------------------------------
(* The worker that connect() returns with.                                  *)

\* The pieces of a search stay in it, or find a worker, or give up.
LEMMA SearchPlaces ==
    ASSUME at = "inject", NEW left, NEW seen, NEW found,
           Throw \/ NextInjector(left) \/ InjectorFails \/ NextCandidate(seen, found)
    PROVE  at' \in {"idle", "inject", "enable"}
BY DEF Throw, NextInjector, InjectorFails, NextCandidate, Found

\* A search ends where its session is not yet relied upon.
LEMMA SearchServes ==
    ASSUME IInv, ServeInv,
           Initialized \/ StepRejected \/ ContextFails \/ PreparesAgain \/ Loaded \/ TargetsAnswered
             \/ Session \/ ProbeTimeout \/ AttachAnswered \/ ProbeAnswered
             \/ DeadlinePasses \/ PauseEnds
    PROVE  ServeInv'
<1>0. TypeOK /\ PlaceInv /\ TypeWorld
    BY DEF IInv, TypeOK
<1>1. UNCHANGED <<config, attempt, transport, sock, target, configured, lost>>
    BY <1>0, SearchSteps DEF Goes, fields, objects
<1>2. /\ at' \in {"idle", "inject", "enable"}
      /\ at' = "idle" \/ at \in {"initialize", "inject"}
    <2>1. CASE Initialized
        BY <2>1 DEF Initialized, NextInjector, Throw
    <2>2. CASE StepRejected
        <3>1. CASE at = "inject"
            <4>1. NextCandidate(search.seen, search.found) \/ InjectorFails
                BY <2>2, <3>1 DEF StepRejected, StepFails
            <4> QED BY <3>1, <4>1, SearchPlaces
        <3>2. CASE at # "inject"
            BY <2>2, <3>2 DEF StepRejected, StepFails, Throw
        <3> QED BY <3>1, <3>2
    <2>3. CASE ContextFails
        BY <2>3 DEF ContextFails, Throw
    <2>4. CASE DeadlinePasses
        BY <2>4 DEF DeadlinePasses
    <2>5. ASSUME PreparesAgain \/ Loaded \/ TargetsAnswered \/ Session \/ ProbeTimeout
                   \/ AttachAnswered \/ ProbeAnswered \/ PauseEnds
          PROVE  at = "inject" /\ at' \in {"idle", "inject", "enable"}
        <3>1. at = "inject"
            BY <1>0, <2>5 DEF PlaceInv, PreparesAgain, Loaded, TargetsAnswered, Session, ProbeTimeout,
                              AttachAnswered, ProbeAnswered, PauseEnds
        <3>2. \/ at' = at \/ InjectorFails
              \/ \E seen, found : NextCandidate(seen, found)
              \/ \E t : Found(t)
            <4>1. CASE TargetsAnswered
                <5>1. \E seen : NextCandidate(seen, {})
                    BY <4>1 DEF TargetsAnswered
                <5> QED BY <5>1
            <4>2. CASE ProbeAnswered
                BY <4>2 DEF ProbeAnswered
            <4>3. CASE PreparesAgain \/ Loaded \/ Session \/ ProbeTimeout \/ AttachAnswered \/ PauseEnds
                BY <4>3 DEF PreparesAgain, Loaded, Session, ProbeTimeout, AttachAnswered, PauseEnds
            <4> QED BY <2>5, <4>1, <4>2, <4>3
        <3> QED BY <3>1, <3>2, SearchPlaces DEF Found
    <2> QED BY <2>1, <2>2, <2>3, <2>4, <2>5
<1>3. \A a \in Attempts : \A t \in attached'[a] : target[t] = "live"
    <2>1. CASE AttachAnswered
        BY <1>0, <2>1 DEF AttachAnswered, ServeInv, TypeWorld
    <2>2. CASE ~AttachAnswered
        <3>1. UNCHANGED attached
            BY <2>2 DEF Initialized, StepRejected, ContextFails, PreparesAgain, Loaded, TargetsAnswered,
                        Session, ProbeTimeout, ProbeAnswered, DeadlinePasses, PauseEnds, world
        <3> QED BY <3>1 DEF ServeInv
    <2> QED BY <2>1, <2>2
<1> QED BY <1>1, <1>2, <1>3 DEF ServeInv, OnSession, Raw

\* An answer on the worker's session says that it is there, so that nothing was lost yet.
LEMMA AnswerServes ==
    ASSUME IInv, ServeInv, Raw, at \in OnSession, IsOpen(step), ext \in attached[step]
    PROVE  Serves /\ lost = "no"
<1>1. step = transport /\ transport \in Attempts
    BY DEF IInv, WireInv, IsOpen, TypeOK, TypeMade, TypeCall, Maybe
<1>2. Serves
    BY <1>1 DEF Serves
<1>3. target[ext] = "live"
    BY <1>1 DEF ServeInv
<1>4. lost # "on the way"
    BY <1>2, <1>3 DEF ServeInv, Serves
<1> QED BY <1>2, <1>4 DEF ServeInv, IInv, TypeOK, TypeCall

\* The steps on the session ask for it, but for the one that awaits its context.
LEMMA SessionServes ==
    ASSUME IInv, ServeInv, PeerWaitEnds \/ Continue \/ Configured \/ Return PROVE ServeInv'
<1>1. UNCHANGED <<config, attempt, transport, sock, target, attached, lost, ext>>
    BY DEF PeerWaitEnds, Continue, Configured, Return, rest, world, fields, objects
<1>2. CASE PeerWaitEnds
    <2>1. ~Raw
        BY <1>2 DEF IInv, PlaceInv, PeerWaitEnds
    <2>2. UNCHANGED configured /\ (at' = "configure" => config.server)
        BY <1>2 DEF PeerWaitEnds, Configures, Throw
    <2> QED BY <1>1, <2>1, <2>2 DEF ServeInv, Raw
<1>3. CASE Continue
    <2>0. UNCHANGED configured
        BY <1>3 DEF Continue
    <2>1. CASE at = "context"
        BY <1>1, <1>3, <2>0, <2>1 DEF Continue, ContextAsked, ServeInv, OnSession, Raw, Serves, IsOpen
    <2>2. CASE at # "context"
        <3>1. /\ at \in OnSession /\ IsOpen(step) /\ ext \in attached[step]
              /\ at' \in {"context", "configure", "return"}
              /\ at' = "configure" => config.server
              /\ at' = "return" => ~config.server
            BY <1>3, <2>2 DEF Continue, ContextAsked, Configures, OnSession
        <3>2. Raw => Serves /\ lost = "no"
            BY <3>1, AnswerServes
        <3> QED BY <1>1, <2>0, <3>1, <3>2 DEF ServeInv, OnSession, Raw, Serves, IsOpen
    <2> QED BY <2>1, <2>2
<1>4. CASE Configured
    <2>1. at = "configure" /\ at' = "return" /\ config.server
        BY <1>4 DEF Configured, ServeInv
    <2>2. Raw => /\ Serves /\ lost = "no" /\ <<attempt, ext>> \in configured'
        BY <1>4, <2>1, AnswerServes DEF Configured, OnSession
    <2> QED BY <1>1, <2>1, <2>2 DEF ServeInv, OnSession, Raw, Serves, IsOpen
<1>5. CASE Return
    BY <1>1, <1>5 DEF Return, ServeInv, OnSession, Raw
<1> QED BY <1>2, <1>3, <1>4, <1>5

\* While connect() builds up, nothing was found yet.
LEMMA BuildServes ==
    ASSUME ServeInv, Connect \/ Prepare \/ Listen \/ Launch \/ Dial PROVE ServeInv'
<1>1. UNCHANGED <<config, target, attached, configured>>
    BY DEF Connect, Prepare, Listen, Launch, Dial, world
<1>2. /\ at' \in Building \cup {"idle", "peer", "initialize"}
      /\ lost' = "no" \/ (lost' = lost /\ at \in Building)
    BY DEF Connect, Prepare, Listen, Launch, Dial, Established, Throw, Building
<1> QED BY <1>1, <1>2 DEF ServeInv, OnSession, Building, Raw

\* What goes while a session is relied upon is noted.
LEMMA LossServes ==
    ASSUME ServeInv, NEW went \in BOOLEAN, Loses(went),
           UNCHANGED <<config, attempt, at, ext, configured>>,
           \A a \in Attempts : \A t \in attached'[a] : target'[t] = "live",
           Raw /\ went /\ at \in OnSession => ~IsOpen(transport)' \/ target'[ext] = "gone",
           (Raw /\ ~went /\ Serves) => Serves',
           (Raw /\ ~went /\ ~IsOpen(transport)) => ~IsOpen(transport)',
           (Raw /\ ~went /\ at \in OnSession /\ target[ext] = "gone") => target'[ext] = "gone"
    PROVE  ServeInv'
<1>1. CASE went /\ at \in OnSession
    <2>1. lost' = "on the way"
        BY <1>1 DEF Loses, OnSession
    <2> QED BY <1>1, <2>1 DEF ServeInv, OnSession, Raw
<1>2. CASE went /\ at = "return"
    <2>1. lost' = "since"
        BY <1>2 DEF Loses
    <2> QED BY <1>2, <2>1 DEF ServeInv, OnSession, Raw
<1>3. CASE went /\ at \notin OnSession \cup {"return"}
    <2>1. lost' = lost
        BY <1>3 DEF Loses, OnSession
    <2> QED BY <1>3, <2>1 DEF ServeInv, OnSession, Raw
<1>4. CASE ~went
    <2>1. lost' = lost
        BY <1>4 DEF Loses
    <2>2. (Raw /\ lost = "no" /\ at \in {"context", "bind", "configure", "return"}) => Serves'
        BY <1>4 DEF ServeInv
    <2>3. (Raw /\ lost = "on the way" /\ at \in OnSession)
            => ~IsOpen(transport)' \/ target'[ext] = "gone"
        BY <1>4 DEF ServeInv
    <2>4. Raw' = Raw
        BY DEF Raw
    <2> QED BY <2>1, <2>2, <2>3, <2>4 DEF ServeInv
<1> QED BY <1>1, <1>2, <1>3, <1>4

\* close() takes the transport away.
LEMMA CloseServes ==
    ASSUME IInv, ServeInv, Close \/ BrowserClosed \/ TransportClosed \/ InjectorsClosed
    PROVE  ServeInv'
<1>1. UNCHANGED <<config, attempt, at, ext, configured, target, attached>>
    BY DEF Close, BrowserClosed, TransportClosed, InjectorsClosed, away, awayButLost, world
<1>2. CASE CloseTransport
    <2>1. Raw => ~IsOpen(transport)'
        BY <1>2 DEF CloseTransport, IsOpen
    <2>2. Loses(IsOpen(transport)) /\ IsOpen(transport) \in BOOLEAN
        BY <1>2 DEF CloseTransport, IsOpen
    <2> QED BY <1>1, <2>1, <2>2, LossServes DEF ServeInv, Serves
<1>3. CASE UNCHANGED <<lost, sock, transport>>
    BY <1>1, <1>3 DEF ServeInv, OnSession, Raw, Serves, IsOpen
<1>4. CASE TransportClosed
    <2>1. ~Raw
        BY <1>4 DEF IInv, WireInv, TransportClosed
    <2> QED BY <1>1, <2>1 DEF ServeInv, Raw
<1> QED BY <1>2, <1>3, <1>4 DEF Close, BrowserClosed, InjectorsClosed, away

\* A socket closes, and its sessions are no more.
LEMMA SocketServes == ASSUME IInv, ServeInv, NEW a \in Attempts, SocketClosed(a) PROVE ServeInv'
<1>0. /\ sock \in [Attempts -> {"none", "open", "closing", "closed"}] /\ transport \in Maybe
      /\ attached \in [Attempts -> SUBSET Targets] /\ a # 0
    BY AttemptsAreNats DEF IInv, TypeOK, TypeMade, TypeWorld
<1>1. /\ UNCHANGED <<config, attempt, at, ext, configured, target, transport>>
      /\ Loses(a = transport) /\ attached' = [attached EXCEPT ![a] = {}]
      /\ sock' = [sock EXCEPT ![a] = IF Raw THEN "closed" ELSE @]
    BY DEF SocketClosed, fields
<1>2. \A b \in Attempts : attached'[b] \subseteq attached[b]
    BY <1>0, <1>1
<1>3. Raw /\ a = transport => ~IsOpen(transport)'
    BY <1>0, <1>1 DEF IsOpen
<1>4. a # transport => /\ (Serves => Serves')
                       /\ (~IsOpen(transport) => ~IsOpen(transport)')
    BY <1>0, <1>1 DEF Serves, IsOpen, Maybe
<1> QED BY <1>1, <1>2, <1>3, <1>4, LossServes DEF ServeInv

\* The worker that connect() goes on with is one.
LEMMA FoundTyped == ASSUME IInv, Raw, at \in OnSession PROVE ext \in Targets
BY DEF IInv, PlaceInv, OnSession, TypeOK, TypeWorld

\* A worker that goes is gone for good, and no other is lost with it.
LEMMA WorkerServes ==
    ASSUME IInv, ServeInv,
           \/ \E t \in Targets : WorkerChanges(t) \/ WorkerStops(t)
           \/ \E a \in Attempts, t \in Targets : AutoAttached(a, t)
    PROVE  ServeInv'
<1>0. /\ target \in [Targets -> {"absent", "live", "gone"}] /\ transport \in Maybe
      /\ attached \in [Attempts -> SUBSET Targets]
    BY DEF IInv, TypeOK, TypeMade, TypeWorld
<1>1. UNCHANGED <<config, attempt, at, ext, configured, transport, sock>>
    BY DEF WorkerChanges, WorkerStops, AutoAttached, away, awayButLost, fields, objects
<1>2. ASSUME NEW t \in Targets, WorkerStops(t) PROVE ServeInv'
    <2>1. /\ target' = [target EXCEPT ![t] = "gone"] /\ Loses(t = ext)
          /\ attached' = [a \in Attempts |-> attached[a] \ {t}]
        BY <1>2 DEF WorkerStops
    <2>2. \A a \in Attempts : \A u \in attached'[a] : target'[u] = "live"
        BY <1>0, <2>1 DEF ServeInv
    <2>3. t = ext => target'[ext] = "gone"
        BY <1>0, <2>1
    <2>4. t # ext =>
            /\ (Serves => Serves')
            /\ ((Raw /\ at \in OnSession /\ target[ext] = "gone") => target'[ext] = "gone")
        <3>1. t # ext /\ Serves => Serves'
            BY <1>0, <1>1, <2>1 DEF Serves, IsOpen, Maybe
        <3>2. Raw /\ at \in OnSession /\ t # ext /\ target[ext] = "gone" => target'[ext] = "gone"
            BY <1>0, <2>1, FoundTyped
        <3> QED BY <3>1, <3>2
    <2>5. ~IsOpen(transport) => ~IsOpen(transport)'
        BY <1>1 DEF IsOpen
    <2> QED BY <1>1, <2>1, <2>2, <2>3, <2>4, <2>5, LossServes
<1>3. ASSUME NEW t \in Targets, WorkerChanges(t) PROVE ServeInv'
    <2>1. /\ UNCHANGED <<attached, lost>>
          /\ \A u \in Targets : target[u] \in {"live", "gone"} => target'[u] = target[u]
        BY <1>0, <1>3 DEF WorkerChanges, away
    <2>2. \A a \in Attempts : \A u \in attached'[a] : target'[u] = "live"
        BY <1>0, <2>1 DEF ServeInv
    <2>3. Raw /\ at \in OnSession /\ target[ext] = "gone" => target'[ext] = "gone"
        BY <2>1, FoundTyped
    <2>4. Loses(FALSE)
        BY <2>1 DEF Loses
    <2>5. /\ (Serves => Serves')
          /\ (~IsOpen(transport) => ~IsOpen(transport)')
        BY <1>1, <2>1 DEF Serves, IsOpen
    <2> QED BY <1>1, <2>2, <2>3, <2>4, <2>5, LossServes
<1>4. ASSUME NEW a \in Attempts, NEW t \in Targets, AutoAttached(a, t) PROVE ServeInv'
    <2>1. /\ UNCHANGED <<target, lost>> /\ target[t] = "live"
          /\ attached' = [attached EXCEPT ![a] = @ \cup {t}]
        BY <1>4 DEF AutoAttached, away
    <2>2. \A b \in Attempts : \A u \in attached'[b] : target'[u] = "live"
        BY <1>0, <2>1 DEF ServeInv
    <2>3. Serves => Serves'
        BY <1>0, <1>1, <2>1 DEF Serves, IsOpen, Maybe
    <2> QED BY <1>1, <2>1, <2>2, <2>3 DEF ServeInv, OnSession, Raw, IsOpen
<1> QED BY <1>2, <1>3, <1>4

\* Every step keeps what connect() relies upon.
LEMMA NextServes == IInv /\ ServeInv /\ [Next]_vars => ServeInv'
<1> SUFFICES ASSUME IInv, ServeInv, [Next]_vars PROVE ServeInv'
    OBVIOUS
<1>1. CASE Connect \/ Prepare \/ Listen \/ Launch \/ Dial
    BY <1>1, BuildServes
<1>2. CASE PeerWaitEnds \/ Continue \/ Configured \/ Return
    BY <1>2, SessionServes
<1>3. CASE \/ Initialized \/ StepRejected \/ ContextFails \/ PreparesAgain \/ Loaded
           \/ TargetsAnswered \/ Session \/ ProbeTimeout \/ AttachAnswered \/ ProbeAnswered
           \/ DeadlinePasses \/ PauseEnds
    BY <1>3, SearchServes
<1>4. CASE Close \/ BrowserClosed \/ TransportClosed \/ InjectorsClosed
    BY <1>4, CloseServes
<1>5. CASE \E a \in Attempts : SocketClosed(a)
    BY <1>5, SocketServes
<1>6. CASE \/ \E t \in Targets : WorkerChanges(t) \/ WorkerStops(t)
           \/ \E a \in Attempts, t \in Targets : AutoAttached(a, t)
    BY <1>6, WorkerServes
<1>7. CASE UNCHANGED <<away, fields, objects, world>>
    BY <1>7 DEF away, awayButLost, fields, objects, world, ServeInv, OnSession, Raw, Serves, IsOpen
<1>8. ASSUME \/ \E a \in Attempts : PingAnswered(a) \/ PingRejected(a)
             \/ \E A \in SUBSET waits : Pong(A)
             \/ UNCHANGED vars
      PROVE  UNCHANGED <<away, fields, objects, world>>
    BY <1>8 DEF PingAnswered, PingRejected, Pong, vars, away, awayButLost
<1> QED BY <1>1, <1>2, <1>3, <1>4, <1>5, <1>6, <1>7, <1>8 DEF Next

\* A loss on the way makes connect() fail, whichever step it comes at: by the time that
\* the last command is answered, the session has been there since it was first asked,
\* and it still is unless something was lost in the turn of that answer.
THEOREM ReadyWhenConnected == Spec => ConnectedIsReady
<1>1. Init => ServeInv
    BY DEF Init, ServeInv, OnSession
<1>2. Spec => []ServeInv
    BY <1>1, NextServes, AlwaysIInv, PTL DEF Spec
<1>3. ASSUME IInv, ServeInv, Raw, at = "return"
      PROVE  /\ ext \in ready /\ (config.server <=> <<attempt, ext>> \in configured)
             /\ lost # "on the way" /\ (lost = "no" => Serves)
    BY <1>3 DEF IInv, PlaceInv, ServeInv
<1>4. IInv /\ ServeInv =>
        [Raw /\ at = "return" /\ at' # "return" =>
           /\ ext \in ready /\ (config.server <=> <<attempt, ext>> \in configured)
           /\ lost # "on the way" /\ (lost = "no" => Serves)]_vars
    BY <1>3
<1> QED BY <1>2, <1>4, AlwaysIInv, PTL DEF Spec, ConnectedIsReady
=============================================================================
