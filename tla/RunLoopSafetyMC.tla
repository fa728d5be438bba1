-------------------------- MODULE RunLoopSafetyMC --------------------------
(* Two instances of RunLoop side by side, for the invariants: one run at a  *)
(* time, over version 0 sources, stopped modes and three blocks; and runs   *)
(* nested two deep, over a port, the main queue and two blocks.             *)
EXTENDS RunLoopMC, RunLoopNesting

CONSTANT b4

\* Of b1, b2 and b3, b3 runs in the other mode; b4 runs in either, with b1.
BlocksMixed == [x \in Blocks |-> CASE x = b3 -> {b} [] x = b4 -> {a, b}
                                   [] OTHER -> {a}]

OneAtATime ==
  /\ ports' = {} /\ ~mainQ' /\ b4 \notin ToSet(asked')
  /\ Top'.limit # "instant"

Nested ==
  /\ signaled' = {} /\ modeStopped' = {}
  /\ {b2, b3} \cap ToSet(asked') = {}
  /\ depth' > 0 => Top'.limit = "instant"

SafetyNext == NestingNext /\ IF nests THEN Nested ELSE OneAtATime

SafetySpec == NestingInit /\ [][SafetyNext]_<<vars, nests>>
=============================================================================
