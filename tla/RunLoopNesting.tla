--------------------------- MODULE RunLoopNesting ---------------------------
(* RunLoop with a mark that tells behaviours in which callouts run the loop *)
(* again from those in which one run ends before the next one begins.       *)
EXTENDS RunLoop

VARIABLE nests          \* the runs of this behaviour nest

NestingInit == Init /\ nests \in BOOLEAN

NestingNext ==
  /\ Next
  /\ ~nests => depth' <= 1
  /\ UNCHANGED nests

NestingSpec == NestingInit /\ [][NestingNext]_<<vars, nests>>

-----------------------------------------------------------------------------
\* BlocksInOrder of runs that do not nest: a nested run is free to take the
\* blocks that the run below it has detached or put back
\* (__CFRunLoopDoBlocks).
FlatBlocksInOrder == ~nests => BlocksInOrder
=============================================================================
