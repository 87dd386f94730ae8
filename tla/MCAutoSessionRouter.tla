------------------------ MODULE MCAutoSessionRouter ------------------------
(* Small instances of AutoSessionRouter for TLC.                            *)
EXTENDS AutoSessionRouter

\* Sessions, targets, contexts and callers are interchangeable: the router only
\* compares them, and the order of the guards is a sequence, not an ordering of ids.
Symmetry == Permutations(Sessions) \cup Permutations(Targets)
              \cup Permutations(Contexts) \cup Permutations(Callers)
=============================================================================
