---------------------------- MODULE CommandCalls ----------------------------
(***************************************************************************)
(* What a caller of ModCDPClient.send may rely on, whatever the transport: *)
(* a command goes to the service worker at most once, its promise settles  *)
(* at most once, it resolves only with the outcome of that command, and,   *)
(* where a send timeout is configured, it settles.                         *)
(* What it may not rely on: a rejected command may still be dispatched     *)
(* afterwards, by a send that was waiting for a peer.                      *)
(***************************************************************************)
EXTENDS Naturals

CONSTANTS
    Calls,      \* calls of _sendMessage
    Timed,      \* those with client_cdp_send_timeout_ms > 0
    NoCall

VARIABLES
    status,      \* call -> "none", "pending", "resolved" or "rejected"
    dispatched,  \* calls that have been sent to a service worker
    value        \* call -> the call whose outcome it resolved with

vars == <<status, dispatched, value>>

Init ==
    /\ status = [k \in Calls |-> "none"]
    /\ dispatched = {}
    /\ value = [k \in Calls |-> NoCall]

Rejected(K) == [k \in Calls |-> IF k \in K THEN "rejected" ELSE status[k]]

\* The call is made; a connected peer receives it at once.
Issue(k) ==
    /\ status[k] = "none"
    /\ status' = [status EXCEPT ![k] = "pending"]
    /\ dispatched' \in {dispatched, dispatched \cup {k}}
    /\ UNCHANGED value

\* The call is made on a client that is not connected.
Refuse(k) ==
    /\ status[k] = "none"
    /\ status' = Rejected({k})
    /\ UNCHANGED <<dispatched, value>>

Dispatch(K) ==
    /\ \A k \in K : status[k] # "none" /\ k \notin dispatched
    /\ dispatched' = dispatched \cup K
    /\ UNCHANGED <<status, value>>

Resolve(k) ==
    /\ status[k] = "pending" /\ k \in dispatched
    /\ status' = [status EXCEPT ![k] = "resolved"]
    /\ value' = [value EXCEPT ![k] = k]
    /\ UNCHANGED dispatched

\* Answered with an error, timed out, or the connection was lost.
Reject(K) ==
    /\ \A k \in K : status[k] = "pending"
    /\ status' = Rejected(K)
    /\ UNCHANGED <<dispatched, value>>

Next ==
    \/ \E k \in Calls : Issue(k) \/ Refuse(k) \/ Resolve(k)
    \/ \E K \in SUBSET Calls : Dispatch(K) \/ Reject(K)

Settle(k) == Resolve(k) \/ \E K \in SUBSET Calls : k \in K /\ Reject(K)

Spec == Init /\ [][Next]_vars

FairSpec == Spec /\ \A k \in Timed : WF_vars(Settle(k))
=============================================================================
