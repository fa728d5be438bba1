--------------------------- MODULE ValueSequences ---------------------------
(* Lists of values that gain and lose a range.  New values are garbage.     *)
EXTENDS Naturals, Sequences

CONSTANT Garbage                \* the contents of a value never written

Gap(n)           == [i \in 1..n |-> Garbage]
Take(s, n)       == SubSeq(s, 1, n)
Drop(s, n)       == SubSeq(s, n + 1, Len(s))
Opened(s, at, n) == Take(s, at) \o Gap(n) \o Drop(s, at)
Closed(s, at, n) == Take(s, at) \o Drop(s, at + n)
=============================================================================
