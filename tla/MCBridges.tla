----------------------------- MODULE MCBridges -----------------------------
(***************************************************************************)
(* Instances of Bridges for TLC.                                           *)
(***************************************************************************)
EXTENDS Bridges
=============================================================================
