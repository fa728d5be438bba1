-------------------------- MODULE RunLoopTimersMC --------------------------
(* Instances of RunLoopTimers for TLC.  The domain of mode tells them apart, *)
(* and the invariants speak of the modes in it.  In the instance that        *)
(* EXTENDS brings in the loop has the modes of the .cfg and timers that are  *)
(* not moved; in the instance One it has mode a only and timers that both    *)
(* threads move and invalidate at will.                                      *)
EXTENDS RunLoopTimers

CONSTANTS c1, x, y, a

Calls(here, there) ==
  [c \in Callers |-> IF c = LoopThread THEN here ELSE there]

Everything == {"add", "remove", "set", "invalidate"}
AllByAll   == Calls(Everything, Everything)
Moving     == Calls({"set"}, {"add", "common", "remove", "invalidate"})
NoDates    == Calls({"remove", "invalidate"}, {"add", "common"})
FromCallouts == Calls({"add", "set"}, {})

Both       == [t \in Timers |-> 2]
TwoAndOne  == [t \in Timers |-> IF t = x THEN 2 ELSE 1]
OnceAndTwo == [t \in Timers |-> IF t = x THEN 2 ELSE 0]
None       == [t \in Timers |-> 0]
BothLate   == [t \in Timers |-> 1]
OneLate    == [t \in Timers |-> IF t = x THEN 1 ELSE 0]

One == INSTANCE RunLoopTimers
         WITH Modes <- {a}, Allowed <- AllByAll, Interval <- OnceAndTwo

EitherInit == Init \/ One!Init
EitherNext == \/ DOMAIN mode = Modes /\ Next
              \/ DOMAIN mode = {a} /\ Modes # {a} /\ One!Next
EitherSpec == EitherInit /\ [][EitherNext]_vars

=============================================================================
