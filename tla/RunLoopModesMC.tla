--------------------------- MODULE RunLoopModesMC ---------------------------
(* Instances of RunLoopModes for TLC.                                       *)
EXTENDS RunLoopModes, TLC

CONSTANTS t1, t2, a, b, s1, s2

CommonOnly == {"addCommon", "removeCommon", "query"}

\* Threads are alike.
Symmetry == Permutations(Threads)
=============================================================================
