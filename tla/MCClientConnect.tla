--------------------------- MODULE MCClientConnect ---------------------------
(***************************************************************************)
(* Instances of ClientConnect for TLC.                                     *)
(***************************************************************************)
EXTENDS ClientConnect

Config(kind, launcher, mode, trust, server) ==
    [kind |-> kind, launcher |-> launcher, mode |-> mode, trust |-> trust, server |-> server]

\* Every kind of transport, with and without a browser of its own, every injector, and
\* two with nothing to configure.
SomeConfigs ==
    {Config("ws", "none", "discover", FALSE, TRUE), Config("ws", "local", "none", TRUE, TRUE),
     Config("pipe", "local", "inject", TRUE, TRUE), Config("ws", "none", "borrow", TRUE, FALSE),
     Config("reversews", "local", "auto", TRUE, TRUE),
     Config("reversews", "none", "none", TRUE, FALSE)}

\* A foreign worker runs already, for those that look at foreign workers, and the
\* extension's worker runs or can start.
MCInit ==
    /\ Init
    /\ \A t \in Own : target[t] # "gone"
    /\ \A t \in Targets \ Own : target[t] = IF config.trust THEN "gone" ELSE "live"

MCSpec == MCInit /\ [][Next]_vars

MCFairSpec == MCSpec /\ Fairness
=============================================================================
