---------------------------- MODULE TimerArrays ----------------------------
(***************************************************************************)
(* The timer array of one mode under every sequence of insertions and       *)
(* removals: what the search and the scan of TimerArray promise of the      *)
(* arrays that they themselves keep in order.                               *)
(***************************************************************************)
EXTENDS TimerArray

CONSTANTS FireDates, Tolerances,    \* of the timers
          MaxLen                    \* bound: timers in the array

ASSUME TimerArraysAssumption ==
  FireDates \subseteq 0..Never /\ Tolerances \subseteq Nat /\ MaxLen \in Nat

VARIABLE array          \* the (soft, hard) deadlines of the timers, in order

DatesOf(timers) == [i \in DOMAIN timers |-> timers[i][1]]

ArrayInit == array = <<>>

\* __CFRepositionTimerInMode of a timer that is not in the array.
PutTimer == \E d \in FireDates, tolerance \in Tolerances :
  /\ Len(array) < MaxLen
  /\ array' = InsertAt(array, InsertionIndex(DatesOf(array), d) + 1,
                       <<d, Earliest({d + tolerance})>>)

\* CFArrayRemoveValueAtIndex
TakeTimer == \E i \in DOMAIN array : array' = RemoveAt(array, i)

ArrayNext == PutTimer \/ TakeTimer

ArraySpec == ArrayInit /\ [][ArrayNext]_array

-----------------------------------------------------------------------------
\* __CFRunLoopInsertionIndexInTimerArray: the binary search, and its shortcut
\* for long arrays, find the place behind all timers that are not later.
\* __CFArmNextTimerInMode: whichever timers are firing, the scan that stops
\* early computes the earliest soft and hard deadlines of all the others.
SearchAndScanAreRight ==
  LET least(S, k) == Min({Never} \cup {array[i][k] : i \in S})
  IN  /\ \A x \in FireDates :
           InsertionIndex(DatesOf(array), x)
             = Cardinality({i \in DOMAIN array : array[i][1] <= x})
      /\ \A S \in SUBSET DOMAIN array :
           Deadlines[{<<i, array[i][1], array[i][2]>> : i \in S}]
             = [soft |-> least(S, 1), hard |-> least(S, 2)]
=============================================================================
