----------------------------- MODULE TimerArray -----------------------------
(***************************************************************************)
(* The sorted timer array of a mode: the binary search that finds a place   *)
(* for a timer, and the scan that computes the mode's two deadlines.        *)
(* Indices are those of the C arrays, from 0.                               *)
(***************************************************************************)
EXTENDS Integers, SequencesExt, FiniteSetsExt

CONSTANTS Never,        \* UINT64_MAX: later than any date
          Limit         \* 256: a longer array is tried at its ends first

ASSUME ArrayAssumption == Never \in Nat /\ Limit \in Nat

\* 1 << flsl(n): the first power of two above n.
ShiftedByFlsl(n) == LET f[k \in 0..n] == IF k = 0 THEN 1 ELSE 2 * f[k \div 2]
                    IN  f[n]

\* Mutant: an item of the same date is not passed.
Before(dates, i, x) == i < Len(dates) /\ dates[i + 1] < x

\* The test of the search: there is an item at i that is not later than x.
NotLater(dates, i, x) == i < Len(dates) /\ dates[i + 1] <= x

\* The do loop, at add and idx: add is halved until a last test is made with
\* add = 0.
Search(dates, x) ==
  LET start == 2 * ShiftedByFlsl(Len(dates))
      try[at \in (0..start) \X (0..Len(dates))] ==
        LET half == at[1] \div 2
            leq  == NotLater(dates, at[2] + half, x)
            next == IF leq THEN at[2] + half ELSE at[2]
        IN  IF half > 0 THEN try[<<half, next>>]
                        ELSE IF leq THEN next + 1 ELSE next
  IN  try[<<start, 0>>]

\* __CFRunLoopInsertionIndexInTimerArray
InsertionIndex(dates, x) ==
  IF Len(dates) > Limit /\ Last(dates) <= x THEN Len(dates)
  ELSE IF Len(dates) > Limit /\ x < Head(dates) THEN 0
  ELSE IF dates = <<>> THEN 0
  ELSE Search(dates, x)

\* The scan stops at a timer whose soft deadline is past the hard deadline of
\* one before it.
Stops(p, q) == p[1] < q[1] /\ q[2] > p[3]

Earliest(S) == Min(S \cup {Never})

\* The deadlines __CFArmNextTimerInMode computes from the timers of the array
\* that are not firing, each with its index and its soft and hard deadline.
Deadlines[timers \in SUBSET (Nat \X Nat \X Nat)] ==
  LET visited == {p \in timers : \A q, r \in timers :
                                   r[1] <= p[1] => ~Stops(q, r)}
  IN  [soft |-> Earliest({p[2] : p \in visited}),
       hard |-> Earliest({p[3] : p \in visited})]
=============================================================================
