------------------------ MODULE MCClientTransports ------------------------
(***************************************************************************)
(* Instances of ClientTransports for TLC.                                  *)
(***************************************************************************)
EXTENDS ClientTransports, TLC

\* Peers are interchangeable, and so are the calls if all have timeouts.
Symmetry == Permutations(Peers) \cup Permutations(Calls)
=============================================================================
