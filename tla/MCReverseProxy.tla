--------------------------- MODULE MCReverseProxy ---------------------------
(***************************************************************************)
(* Instances of ReverseProxy for TLC.                                      *)
(***************************************************************************)
EXTENDS ReverseProxy, TLC

\* Peers, clients, commands and sessions are interchangeable model values.
Symmetry ==
    Permutations(Peers) \cup Permutations(Clients) \cup Permutations(Commands)
      \cup Permutations(Sessions)
=============================================================================
