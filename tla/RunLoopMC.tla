----------------------------- MODULE RunLoopMC -----------------------------
(* Instances of RunLoop for TLC.  Mode a holds the sources and serves the   *)
(* main queue; mode b holds source s2 and blocks that may run in it.        *)
EXTENDS RunLoop

CONSTANTS a, b, s1, s2, p1, b1, b2, b3

OneMode == [x \in Sources0 \cup Sources1 |-> {a}]
TwoModes == [x \in Sources0 \cup Sources1 |-> IF x = s2 THEN {b} ELSE {a}]

BlocksInA == [x \in Blocks |-> {a}]

OneCall   == {<<FALSE, "finite">>}
TwoCalls  == {<<FALSE, "finite">>, <<TRUE, "infinite">>}
EachLimit == TwoCalls \cup {<<FALSE, "instant">>}

SameOrder == [s \in Sources0 |-> 0]
InOrder   == [s \in Sources0 |-> IF s = s1 THEN 1 ELSE 2]
=============================================================================
