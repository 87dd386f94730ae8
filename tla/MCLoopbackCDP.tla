---------------------------- MODULE MCLoopbackCDP ----------------------------
(***************************************************************************)
(* Instances of LoopbackCDP for TLC.                                       *)
(***************************************************************************)
EXTENDS LoopbackCDP, TLC

\* Callers, sockets and sessions are only compared.
Symmetry == Permutations(Callers) \cup Permutations(Sockets) \cup Permutations(Sessions)
=============================================================================
