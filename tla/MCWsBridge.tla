----------------------------- MODULE MCWsBridge -----------------------------
(***************************************************************************)
(* Instances of WsBridge for TLC.                                          *)
(***************************************************************************)
EXTENDS WsBridge
=============================================================================
