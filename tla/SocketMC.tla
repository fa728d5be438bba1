------------------------------ MODULE SocketMC ------------------------------
(* Instances of Socket for TLC.                                             *)
EXTENDS Socket

CONSTANTS l1, l2

Kind(types, flags, oriented, loops, sends) ==
  [types |-> types, flags |-> flags, oriented |-> oriented, loops |-> loops,
   sends |-> sends]

Accepting == Kind({"accept"}, {"accept"}, TRUE, {l1}, 2)

AcceptingOnly == {Accepting}

\* One loop, or two that share one connection or one queue.
EachKind ==
  {Accepting,
   Kind({"data", "connect"}, {"data"}, TRUE, {l1}, 1),
   Kind({"data"}, {"data"}, FALSE, {l1}, 2),
   Kind({"read"}, {"read"}, FALSE, {l1}, 1),
   Kind({"connect", "write"}, {"write"}, TRUE, {l1}, 0),
   Kind({"connect"}, {}, TRUE, {l1, l2}, 0),
   Kind({"accept"}, {"accept"}, TRUE, {l1, l2}, 2)}
=============================================================================
