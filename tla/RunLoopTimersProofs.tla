------------------------ MODULE RunLoopTimersProofs ------------------------
(* Proofs about RunLoopTimers for any timers, modes, threads, bounds and    *)
(* clocks, and about the search and the scan of TimerArray:                 *)
(*   TurnInv   nested runs call timers in turn (the firing bit tells the     *)
(*             runs that are in callouts apart);                             *)
(*   TimersInv types, and each array has just the timers of its mode;        *)
(*   Sorted    each array is in order, if the modes that a call noted down   *)
(*             are those the timer is in (Steady);                           *)
(*   ArmedInv  what is armed covers every timer, or its event is on the way: *)
(*             the deadlines are those of the scan (Covered), what is armed  *)
(*             are the deadlines or nothing, and then the soft deadline is   *)
(*             over and its event waits, is looked after or was spent        *)
(*             (Armed); a timer that the event was for is in the list of     *)
(*             those to fire (Collected).                                    *)
(*   ArrayInv  an array stays in order, so the search ends behind all timers   *)
(*             that are not later and the scan finds the earliest deadlines. *)
EXTENDS RunLoopTimers, TimerArrays, TLAPS, SequenceTheorems, FiniteSetTheorems

-----------------------------------------------------------------------------
(* The runs.                                                                *)

LEMMA FrontIs ==
  ASSUME NEW S, NEW s \in Seq(S), Len(s) \in 1 .. Len(s)
  PROVE  /\ Front(s) \in Seq(S) /\ Len(Front(s)) = Len(s) - 1
         /\ \A i \in 1 .. Len(s) - 1 : Front(s)[i] = s[i]
<1> DEFINE n == Len(s)
           h == n - 1
           r == SubSeq(s, 1, h)
<1>1. n \in Nat /\ n >= 1 /\ h \in Int /\ h = n - 1 /\ 1 \in Int
      /\ \A i \in 1 .. h : s[i] \in S
  BY ElementOfSeq
<1>2. Front(s) = r
  BY DEF Front
<1> HIDE DEF h
<1>3. /\ r \in Seq(S) /\ Len(r) = IF 1 <= h THEN h - 1 + 1 ELSE 0
      /\ \A i \in 1 .. h - 1 + 1 : r[i] = s[1 + i - 1]
  BY <1>1, SubSeqProperties
<1> HIDE DEF r, n
<1>4. Len(r) = n - 1 /\ \A i \in 1 .. n - 1 : r[i] = s[i]
  BY <1>1, <1>3
<1> QED
  BY <1>2, <1>3, <1>4 DEF n

InCallout(f) == f.pc \in {"callout", "returned"}

\* The fields of a frame; what its list of due timers is does not matter.
Fields(S)  == [mode : S, pc : S, due : S, old : S, at : S, handled : S]
IsFrame(f) == \E S : f \in Fields(S)

\* A timer that is being called was due, and has the firing bit.
Calls(f) == InCallout(f) => f.old <= f.at /\ Head(f.due) \in firing

\* The timers that the runs of s are calling are different ones.
Apart(s) ==
  \A i, j \in 1 .. Len(s) :
    /\ InCallout(s[i]) /\ InCallout(s[j])
    /\ Head(s[i].due) = Head(s[j].due)
    => i = j

Stacked(s) == \E S : s \in Seq(S)

TurnInv ==
  /\ Stacked(stack)
  /\ \A i \in 1 .. Len(stack) : IsFrame(stack[i]) /\ Calls(stack[i])
  /\ Apart(stack)

Becomes(z, pc, due, old, time, handled) ==
  [z EXCEPT !.pc = pc, !.due = due, !.old = old, !.at = time,
            !.handled = handled]

LEMMA FrameBecomes ==
  ASSUME NEW z, IsFrame(z), NEW pc, NEW due, NEW old, NEW time, NEW handled,
         NEW f, f = Becomes(z, pc, due, old, time, handled)
  PROVE  /\ IsFrame(f) /\ f.pc = pc /\ f.due = due /\ f.old = old
         /\ f.at = time
<1>1. PICK S : z \in Fields(S)
  BY DEF IsFrame
<1> DEFINE T == S \cup {pc, due, old, time, handled}
<1>2. z \in Fields(T)
  BY <1>1 DEF Fields
<1>3. pc \in T /\ due \in T /\ old \in T /\ time \in T /\ handled \in T
  OBVIOUS
<1> HIDE DEF T
<1>4. f \in Fields(T)
  BY <1>2, <1>3 DEF Fields, Becomes
<1>5. f.pc = pc /\ f.due = due /\ f.old = old /\ f.at = time
  BY <1>2 DEF Fields, Becomes
<1> QED
  BY <1>4, <1>5 DEF IsFrame

LEMMA StackTop ==
  ASSUME TurnInv, stack # <<>>
  PROVE  /\ Len(stack) \in 1 .. Len(stack) /\ Top = stack[Len(stack)]
         /\ IsFrame(Top) /\ Calls(Top)
<1>1. PICK S : stack \in Seq(S)
  BY DEF TurnInv, Stacked
<1>2. Len(stack) \in 1 .. Len(stack)
  BY <1>1, EmptySeq
<1> QED
  BY <1>2 DEF TurnInv, Top, Last

LEMMA StackFields ==
  ASSUME TurnInv, stack # <<>>, NEW f, Top_(f)
  PROVE  /\ Stacked(stack') /\ Len(stack') = Len(stack)
         /\ stack'[Len(stack)] = f
         /\ \A i \in 1 .. Len(stack) : i # Len(stack) => stack'[i] = stack[i]
<1>1. PICK S : stack \in Seq(S)
  BY DEF TurnInv, Stacked
<1>2. stack \in Seq(S \cup {f}) /\ Len(stack) \in 1 .. Len(stack)
  BY <1>1, EmptySeq, SeqMonotonic
<1>3. stack' = [stack EXCEPT ![Len(stack)] = f]
  BY DEF Top_
<1> QED
  BY <1>2, <1>3, ExceptSeq DEF Stacked

\* The innermost run becomes f, and what is called stays firing.
LEMMA TopMoves ==
  ASSUME TurnInv, stack # <<>>, NEW f, Top_(f), IsFrame(f),
         \A i \in 1 .. Len(stack) :
           i # Len(stack) /\ InCallout(stack[i]) =>
             Head(stack[i].due) \in firing',
         InCallout(f) =>
           /\ f.old <= f.at /\ Head(f.due) \in firing'
           /\ \A i \in 1 .. Len(stack) :
                i # Len(stack) /\ InCallout(stack[i]) =>
                  Head(stack[i].due) # Head(f.due)
  PROVE  TurnInv'
<1>1. /\ Stacked(stack') /\ Len(stack') = Len(stack)
      /\ stack'[Len(stack)] = f
      /\ \A i \in 1 .. Len(stack) : i # Len(stack) => stack'[i] = stack[i]
  BY StackFields
<1>2. ASSUME NEW i \in 1 .. Len(stack')
      PROVE  IsFrame(stack'[i]) /\ Calls(stack[i])'
  BY <1>1, <1>2 DEF TurnInv, Calls
<1>3. Apart(stack')
  BY <1>1 DEF TurnInv, Apart
<1> QED
  BY <1>1, <1>2, <1>3 DEF TurnInv

\* A run that is not in a callout goes on without calling, or one that is in
\* a callout stays in it.
LEMMA TopGoesOn ==
  ASSUME TurnInv, stack # <<>>, NEW f, Top_(f), IsFrame(f), UNCHANGED firing,
         InCallout(f) => /\ InCallout(Top) /\ f.old = Top.old
                         /\ f.at = Top.at /\ f.due = Top.due
  PROVE  TurnInv'
<1>1. /\ Len(stack) \in 1 .. Len(stack) /\ Top = stack[Len(stack)]
      /\ Calls(Top)
  BY StackTop
<1>2. \A i \in 1 .. Len(stack) :
        i # Len(stack) /\ InCallout(stack[i]) => Head(stack[i].due) \in firing'
  BY DEF TurnInv, Calls
<1>3. InCallout(f) =>
        /\ f.old <= f.at /\ Head(f.due) \in firing'
        /\ \A i \in 1 .. Len(stack) :
             i # Len(stack) /\ InCallout(stack[i]) =>
               Head(stack[i].due) # Head(f.due)
  BY <1>1 DEF TurnInv, Calls, Apart
<1> QED
  BY <1>2, <1>3, TopMoves

LEMMA RunKeeps ==
  ASSUME TurnInv, NEW m \in Modes, Run(m) PROVE TurnInv'
<1> DEFINE f == [mode |-> m, pc |-> "wait", due |-> <<>>, old |-> 0, at |-> 0,
                 handled |-> FALSE]
<1>1. stack' = Append(stack, f) /\ UNCHANGED firing
  BY DEF Run
<1>2. IsFrame(f) /\ ~InCallout(f)
  <2> DEFINE none == <<>>
             S == {m, "wait", none, 0, FALSE}
  <2>1. f = [mode |-> m, pc |-> "wait", due |-> none, old |-> 0, at |-> 0,
             handled |-> FALSE]
    OBVIOUS
  <2>2. f.pc = "wait"
    OBVIOUS
  <2> HIDE DEF f, none
  <2>3. f \in Fields(S)
    BY <2>1 DEF Fields
  <2> QED
    BY <2>2, <2>3 DEF IsFrame, InCallout
<1> HIDE DEF f
<1>3. PICK S : stack \in Seq(S)
  BY DEF TurnInv, Stacked
<1>4. stack \in Seq(S \cup {f})
  BY <1>3, SeqMonotonic
<1>5. /\ Stacked(stack') /\ Len(stack') = Len(stack) + 1
      /\ stack'[Len(stack) + 1] = f /\ Len(stack) \in Nat
      /\ \A i \in 1 .. Len(stack) : stack'[i] = stack[i]
  BY <1>1, <1>4, AppendProperties DEF Stacked
<1>6. \A i \in 1 .. Len(stack') : i \in 1 .. Len(stack) \/ stack'[i] = f
  BY <1>5
<1>7. ASSUME NEW i \in 1 .. Len(stack')
      PROVE  IsFrame(stack'[i]) /\ Calls(stack[i])'
  BY <1>1, <1>2, <1>5, <1>6 DEF TurnInv, Calls
<1>8. Apart(stack')
  BY <1>2, <1>5, <1>6 DEF TurnInv, Apart
<1> QED
  BY <1>5, <1>7, <1>8 DEF TurnInv

LEMMA ReturnKeeps ==
  ASSUME TurnInv, RunReturns PROVE TurnInv'
<1>1. PICK S : stack \in Seq(S)
  BY DEF TurnInv, Stacked
<1>2. /\ stack' = Front(stack) /\ UNCHANGED firing
      /\ Len(stack) \in 1 .. Len(stack)
  BY StackTop DEF RunReturns
<1>3. /\ stack' \in Seq(S) /\ Len(stack') = Len(stack) - 1
      /\ \A i \in 1 .. Len(stack') : stack'[i] = stack[i]
  BY <1>1, <1>2, FrontIs
<1>4. ASSUME NEW i \in 1 .. Len(stack')
      PROVE  IsFrame(stack'[i]) /\ Calls(stack[i])'
  BY <1>2, <1>3 DEF TurnInv, Calls
<1>5. Apart(stack')
  BY <1>2, <1>3 DEF TurnInv, Apart
<1> QED
  BY <1>3, <1>4, <1>5 DEF TurnInv, Stacked

LEMMA FireKeeps ==
  ASSUME TurnInv, FireTimer PROVE TurnInv'
<1> DEFINE t == Head(Top.due)
           f == [Top EXCEPT !.pc = "callout", !.handled = TRUE,
                            !.old = date[t], !.at = now]
<1>1. /\ stack # <<>> /\ Top_(f) /\ MayFire(t) /\ firing' = firing \cup {t}
  BY DEF FireTimer, FiringWith
<1>2. IsFrame(Top)
  BY <1>1, StackTop
<1>3. IsFrame(f) /\ f.old = date[t] /\ f.at = now /\ f.due = Top.due
  <2> DEFINE yes == TRUE
  <2>1. f = Becomes(Top, "callout", Top.due, date[t], now, yes)
    BY <1>2 DEF IsFrame, Fields, Becomes
  <2> HIDE DEF f, yes
  <2> QED
    BY <1>2, <2>1, FrameBecomes
<1> HIDE DEF f
<1>4. \A i \in 1 .. Len(stack) :
        i # Len(stack) /\ InCallout(stack[i]) =>
          Head(stack[i].due) \in firing /\ Head(stack[i].due) # t
  BY <1>1 DEF TurnInv, Calls, MayFire
<1>5. f.old <= f.at
  BY <1>1, <1>3 DEF MayFire
<1> QED
  BY <1>1, <1>3, <1>4, <1>5, TopMoves

LEMMA EndKeeps ==
  ASSUME TurnInv, EndTimer PROVE TurnInv'
<1> DEFINE t == Head(Top.due)
           f == [Top EXCEPT !.pc = "due", !.due = Tail(Top.due), !.old = 0,
                            !.at = 0]
<1>1. /\ stack # <<>> /\ Top.pc = "returned" /\ Top_(f)
      /\ firing' = firing \ {t}
  BY DEF EndTimer
<1>2. /\ IsFrame(Top) /\ Top = stack[Len(stack)]
      /\ Len(stack) \in 1 .. Len(stack)
  BY <1>1, StackTop
<1>3. IsFrame(f) /\ ~InCallout(f)
  <2>1. f = Becomes(Top, "due", Tail(Top.due), 0, 0, Top.handled)
    BY <1>2 DEF IsFrame, Fields, Becomes
  <2> HIDE DEF f
  <2> QED
    BY <1>2, <2>1, FrameBecomes DEF InCallout
<1> HIDE DEF f
<1>4. InCallout(Top)
  BY <1>1 DEF InCallout
<1>5. \A i \in 1 .. Len(stack) :
        i # Len(stack) /\ InCallout(stack[i]) =>
          Head(stack[i].due) \in firing /\ Head(stack[i].due) # t
  BY <1>2, <1>4 DEF TurnInv, Calls, Apart
<1> QED
  BY <1>1, <1>3, <1>5, TopMoves

LEMMA OtherRunSteps ==
  ASSUME TurnInv,
         Receive \/ CollectDue \/ SkipTimer \/ CalloutReturns \/ TimersDone
  PROVE  TurnInv'
<1>1. stack # <<>> /\ UNCHANGED firing
  BY DEF Receive, CollectDue, SkipTimer, CalloutReturns, TimersDone
<1>2. IsFrame(Top)
  BY <1>1, StackTop
<1>3. ASSUME NEW pc \in {"wait", "woken", "due"}, NEW due, NEW handled,
             Top_(Becomes(Top, pc, due, Top.old, Top.at, handled))
      PROVE  TurnInv'
  <2> DEFINE f == Becomes(Top, pc, due, Top.old, Top.at, handled)
  <2>1. IsFrame(f) /\ f.pc = pc
    <3> HIDE DEF f
    <3>1. f = Becomes(Top, pc, due, Top.old, Top.at, handled)
      BY DEF f
    <3> QED
      BY <1>2, <3>1, FrameBecomes
  <2>2. ~InCallout(f)
    BY <2>1 DEF InCallout
  <2> HIDE DEF f
  <2>3. Top_(f)
    BY <1>3 DEF f
  <2> QED
    BY <1>1, <2>1, <2>2, <2>3, TopGoesOn
<1>4. CASE Receive
  <2>1. [Top EXCEPT !.pc = "woken"]
          = Becomes(Top, "woken", Top.due, Top.old, Top.at, Top.handled)
    BY <1>2 DEF IsFrame, Fields, Becomes
  <2> QED
    BY <1>3, <1>4, <2>1 DEF Receive
<1>5. CASE CollectDue
  <2>1. PICK due : Top_([Top EXCEPT !.pc = "due", !.due = due])
    BY <1>5 DEF CollectDue
  <2>2. [Top EXCEPT !.pc = "due", !.due = due]
          = Becomes(Top, "due", due, Top.old, Top.at, Top.handled)
    BY <1>2 DEF IsFrame, Fields, Becomes
  <2> QED
    BY <1>3, <2>1, <2>2
<1>6. CASE SkipTimer
  <2>1. Top.pc = "due" /\ Top_([Top EXCEPT !.due = Tail(Top.due)])
    BY <1>6 DEF SkipTimer
  <2>2. [Top EXCEPT !.due = Tail(Top.due)]
          = Becomes(Top, "due", Tail(Top.due), Top.old, Top.at, Top.handled)
    BY <1>2, <2>1 DEF IsFrame, Fields, Becomes
  <2> QED
    BY <1>3, <2>1, <2>2
<1>7. CASE CalloutReturns
  <2> DEFINE f == [Top EXCEPT !.pc = "returned"]
  <2>1. Top.pc = "callout" /\ Top_(f)
    BY <1>7 DEF CalloutReturns
  <2>2. f = Becomes(Top, "returned", Top.due, Top.old, Top.at, Top.handled)
    BY <1>2 DEF IsFrame, Fields, Becomes
  <2> HIDE DEF f
  <2>3. IsFrame(f) /\ f.old = Top.old /\ f.at = Top.at /\ f.due = Top.due
    BY <1>2, <2>2, FrameBecomes
  <2>4. InCallout(Top)
    BY <2>1 DEF InCallout
  <2> QED
    BY <1>1, <2>1, <2>3, <2>4, TopGoesOn
<1>8. CASE TimersDone
  <2> DEFINE no == FALSE
  <2>1. [Top EXCEPT !.pc = "wait", !.handled = FALSE]
          = Becomes(Top, "wait", Top.due, Top.old, Top.at, no)
    BY <1>2 DEF IsFrame, Fields, Becomes
  <2>2. Top_([Top EXCEPT !.pc = "wait", !.handled = FALSE])
    BY <1>8 DEF TimersDone
  <2> HIDE DEF no
  <2> QED
    BY <1>3, <2>1, <2>2
<1> QED
  BY <1>4, <1>5, <1>6, <1>7, <1>8

\* Calls of clients, the kernel and the clock leave the runs alone.
LEMMA ElsewhereKeeps ==
  ASSUME TurnInv, UNCHANGED <<stack, firing>> PROVE TurnInv'
BY DEF TurnInv, Stacked, Calls, Apart

LEMMA TurnStep ==
  TurnInv /\ [Next]_vars => TurnInv'
<1> SUFFICES ASSUME TurnInv, [Next]_vars PROVE TurnInv'
  OBVIOUS
<1>1. ASSUME NEW c \in Callers, Begin(c) \/ Continue(c)
      PROVE  UNCHANGED <<stack, firing>>
  BY <1>1 DEF Begin, Continue, AddTimer, RemoveTimer, AddToCommonModes,
     TimerInvalidate, SetNextFireDate, AddToMode, SetDate, LeaveModes
<1>2. CASE LoopStep
  BY <1>2, FireKeeps, EndKeeps, OtherRunSteps DEF LoopStep
<1>3. CASE RunReturns
  BY <1>3, ReturnKeeps
<1>4. ASSUME NEW m \in Modes, Run(m) \/ KernelFires(m) PROVE TurnInv'
  BY <1>4, RunKeeps, ElsewhereKeeps DEF KernelFires
<1>5. CASE Tick \/ UNCHANGED vars
  BY <1>5, ElsewhereKeeps DEF Tick, vars
<1> QED
  BY <1>1, <1>2, <1>3, <1>4, <1>5, ElsewhereKeeps DEF Next

LEMMA TurnInit == Init => TurnInv
<1> SUFFICES ASSUME Init PROVE TurnInv
  OBVIOUS
<1>1. stack = <<>>
  BY DEF Init
<1>2. stack \in Seq({}) /\ Len(stack) = 0
  BY <1>1, EmptySeq
<1> QED
  BY <1>2 DEF TurnInv, Stacked, Apart

LEMMA TurnInvGivesTurns == TurnInv => FiresInTurn
<1> SUFFICES ASSUME TurnInv PROVE FiresInTurn
  OBVIOUS
<1>1. DOMAIN stack = 1 .. Len(stack)
  BY LenProperties DEF TurnInv, Stacked
<1> QED
  BY <1>1 DEF TurnInv, FiresInTurn, Calls, InCallout, Apart

\* __CFRunLoopDoTimer, for any timers, modes and threads and at any depth:
\* whatever moves, removes or invalidates timers between the collection of the
\* due ones and their turn, a timer is called at or after its fire date, and
\* no nested run calls one that is being called.
THEOREM TimersFireInTurn == Spec => []FiresInTurn
BY TurnInit, TurnStep, TurnInvGivesTurns, PTL DEF Spec

-----------------------------------------------------------------------------
(* Numbers.  These two take the place of induction.                         *)

LEMMA CountTo == \A n \in Nat : IsFiniteSet(1 .. n) /\ Cardinality(1 .. n) = n
<1> TAKE n \in Nat
<1>1. /\ IsFiniteSet(1 .. n)
      /\ Cardinality(1 .. n) = IF 1 > n THEN 0 ELSE n - 1 + 1
  BY FS_Interval
<1> QED
  BY <1>1

\* A set of numbers up to n that has all the smaller ones is an interval.
LEMMA Interval1 ==
  ASSUME NEW n \in Nat, NEW D \in SUBSET (1 .. n),
         \A i \in D, j \in 1 .. n : j <= i => j \in D
  PROVE  \E k \in 0 .. n : D = 1 .. k
<1> DEFINE k == Cardinality(D)
<1>1. \A m \in Nat : IsFiniteSet(1 .. m) /\ Cardinality(1 .. m) = m
  BY CountTo
<1>2. IsFiniteSet(D) /\ k \in Nat /\ k <= n
  <2>1. IsFiniteSet(D) /\ Cardinality(D) <= Cardinality(1 .. n)
    BY <1>1, FS_Subset
  <2> QED
    BY <1>1, <2>1, FS_CardinalityType
<1>3. ASSUME NEW i \in D PROVE i <= k
  <2>1. 1 .. i \subseteq D
    OBVIOUS
  <2>2. Cardinality(1 .. i) <= k /\ Cardinality(1 .. i) = i
    BY <1>1, <1>2, <2>1, FS_Subset
  <2> QED
    BY <2>2
<1>4. ASSUME NEW j \in 1 .. k PROVE j \in D
  <2>1. SUFFICES ASSUME j \notin D PROVE FALSE
    OBVIOUS
  <2>2. j \in 1 .. n /\ j - 1 \in Nat /\ j \in Nat
    BY <1>2
  <2> HIDE DEF k
  <2>3. D \subseteq 1 .. (j - 1)
    <3> SUFFICES ASSUME NEW i \in D PROVE i \in 1 .. (j - 1)
      OBVIOUS
    <3>1. ~(j <= i)
      BY <2>1, <2>2
    <3> QED
      BY <2>2, <3>1
  <2>4. k <= j - 1
    <3>1. Cardinality(D) <= Cardinality(1 .. (j - 1))
      BY <1>1, <2>2, <2>3, FS_Subset
    <3> QED
      BY <1>1, <2>2, <3>1 DEF k
  <2> QED
    BY <1>2, <2>2, <2>4
<1> HIDE DEF k
<1>5. D = 1 .. k
  <2>1. \A i \in D : i \in 1 .. k
    BY <1>2, <1>3
  <2> QED
    BY <1>4, <2>1
<1> QED
  BY <1>2, <1>5

LEMMA LeastOf ==
  ASSUME NEW T \in SUBSET Nat, T # {}
  PROVE  \E x \in T : \A y \in T : x <= y
<1>1. PICK n \in T : TRUE
  OBVIOUS
<1> DEFINE D == {i \in 1 .. n : \A j \in 0 .. (i - 1) : j \notin T}
<1>2. PICK k \in 0 .. n : D = 1 .. k
  <2>1. \A i \in D, j \in 1 .. n : j <= i => j \in D
    OBVIOUS
  <2>2. D \in SUBSET (1 .. n)
    OBVIOUS
  <2> HIDE DEF D
  <2> QED
    BY <2>1, <2>2, Interval1
<1>3. \A y \in T : k <= y
  <2>1. k = 0 \/ k \in D
    BY <1>2
  <2> QED
    BY <2>1
<1>4. k \in T
  <2>1. SUFFICES ASSUME k \notin T PROVE FALSE
    OBVIOUS
  <2>2. k + 1 \in 1 .. n
    BY <2>1, <1>2, <1>3
  <2>3. \A j \in 0 .. k : j \notin T
    BY <1>3, <2>1
  <2>4. k + 1 \in D
    BY <2>2, <2>3
  <2> HIDE DEF D
  <2> QED
    BY <1>2, <2>4
<1> QED
  BY <1>3, <1>4

LEMMA EarliestOf ==
  ASSUME NEW S \in SUBSET Nat
  PROVE  /\ Earliest(S) \in S \cup {Never} /\ Earliest(S) <= Never
         /\ \A y \in S : Earliest(S) <= y
<1> DEFINE T == S \cup {Never}
<1>1. T \in SUBSET Nat /\ T # {}
  BY ArrayAssumption
<1> HIDE DEF T
<1>2. \E x \in T : \A y \in T : x =< y
  BY <1>1, LeastOf
<1>3. Min(T) \in T /\ \A y \in T : Min(T) =< y
  BY <1>2 DEF Min
<1>4. Earliest(S) = Min(T)
  BY DEF Earliest, T
<1> QED
  BY <1>3, <1>4 DEF T

-----------------------------------------------------------------------------
(* Arrays.                                                                  *)

Array(s) == s \in Seq(Timers) /\ \A i, j \in 1 .. Len(s) : s[i] = s[j] => i = j

LEMMA ArraysAre == \A s : s \in Arrays <=> Array(s)
<1>1. IsFiniteSet(Timers) /\ Cardinality(Timers) \in Nat
  BY TimersAssumption, FS_CardinalityType
<1>2. ASSUME NEW s \in Arrays PROVE Array(s)
  <2>1. PICK m \in 0 .. Cardinality(Timers) : s \in [1 .. m -> Timers]
    BY DEF Arrays, SeqOf
  <2>2. s \in Seq(Timers) /\ DOMAIN s = 1 .. Len(s)
    <3>1. m \in Nat
      BY <1>1
    <3>2. s \in Seq(Timers)
      BY <2>1, <3>1
    <3> QED
      BY <3>2, LenProperties
  <2> QED
    BY <2>2 DEF Arrays, Array, IsInjective
<1>3. ASSUME NEW s, Array(s) PROVE s \in Arrays
  <2>1. Len(s) \in Nat /\ s \in [1 .. Len(s) -> Timers] /\ DOMAIN s = 1 .. Len(s)
    BY <1>3, LenProperties DEF Array
  <2>2. IsInjective(s)
    BY <1>3, <2>1 DEF Array, IsInjective
  <2>3. Len(s) <= Cardinality(Timers)
    <3>1. IsFiniteSet(1 .. Len(s)) /\ Cardinality(1 .. Len(s)) = Len(s)
      BY <2>1, CountTo
    <3>2. SUFFICES ASSUME Cardinality(1 .. Len(s)) > Cardinality(Timers)
                   PROVE  FALSE
      BY <1>1, <2>1, <3>1
    <3>3. \E x, y \in 1 .. Len(s) : x # y /\ s[x] = s[y]
      BY <1>1, <2>1, <3>1, <3>2, FS_PigeonHole
    <3> QED
      BY <1>3, <3>3 DEF Array
  <2>4. s \in SeqOf(Timers, Cardinality(Timers))
    BY <1>1, <2>1, <2>3 DEF SeqOf
  <2> QED
    BY <2>2, <2>4 DEF Arrays
<1> QED
  BY <1>2, <1>3

LEMMA ToSetIs ==
  \A s : Array(s) => /\ Len(s) \in Nat /\ DOMAIN s = 1 .. Len(s)
                     /\ \A t : t \in ToSet(s) <=> \E i \in 1 .. Len(s) : s[i] = t
                     /\ \A i \in 1 .. Len(s) : s[i] \in Timers
<1> SUFFICES ASSUME NEW s, Array(s)
             PROVE  /\ Len(s) \in Nat /\ DOMAIN s = 1 .. Len(s)
                    /\ \A t : t \in ToSet(s) <=> \E i \in 1 .. Len(s) : s[i] = t
                    /\ \A i \in 1 .. Len(s) : s[i] \in Timers
  OBVIOUS
<1>1. Len(s) \in Nat /\ DOMAIN s = 1 .. Len(s) /\ s \in [1 .. Len(s) -> Timers]
  BY LenProperties DEF Array
<1> QED
  BY <1>1 DEF ToSet

LEMMA InsertAtIs ==
  \A s, i, t : InsertAt(s, i, t)
                 = SubSeq(s, 1, i - 1) \o <<t>> \o SubSeq(s, i, Len(s))
BY DEF InsertAt

\* CFArrayInsertValueAtIndex
LEMMA InsertedAt ==
  ASSUME NEW T, NEW s \in Seq(T), NEW t \in T, NEW k \in 0 .. Len(s)
  PROVE  LET r == InsertAt(s, k + 1, t) IN
         /\ r \in Seq(T) /\ Len(r) = Len(s) + 1
         /\ \A i \in 1 .. Len(r) :
              r[i] = IF i <= k THEN s[i] ELSE IF i = k + 1 THEN t ELSE s[i - 1]
<1> DEFINE n == Len(s)
           m == k + 1
           a == SubSeq(s, 1, m - 1)
           b == <<t>>
           c == SubSeq(s, m, Len(s))
           r == InsertAt(s, m, t)
<1>1. n \in Nat /\ k \in Nat /\ k <= n /\ s \in Seq(T)
      /\ \A i \in 1 .. n : s[i] \in T
  BY ElementOfSeq
<1>2. /\ a \in Seq(T) /\ Len(a) = k
      /\ \A i \in 1 .. k : a[i] = s[i]
  <2>1. /\ a \in Seq(T)
        /\ Len(a) = IF 1 <= m - 1 THEN m - 1 - 1 + 1 ELSE 0
        /\ \A i \in 1 .. m - 1 - 1 + 1 : a[i] = s[1 + i - 1]
    <3>1. m - 1 \in Int /\ 1 \in Int /\ \A i \in 1 .. m - 1 : s[i] \in T
      BY <1>1
    <3> HIDE DEF m
    <3> QED
      BY <3>1, SubSeqProperties
  <2> HIDE DEF a, n
  <2> QED
    BY <1>1, <2>1
<1>3. /\ c \in Seq(T) /\ Len(c) = n - k
      /\ \A i \in 1 .. n - k : c[i] = s[i + k]
  <2>1. /\ c \in Seq(T)
        /\ Len(c) = IF m <= n THEN n - m + 1 ELSE 0
        /\ \A i \in 1 .. n - m + 1 : c[i] = s[m + i - 1]
    <3>1. m \in Int /\ n \in Int /\ \A i \in m .. n : s[i] \in T
      BY <1>1
    <3> HIDE DEF m
    <3> QED
      BY <3>1, SubSeqProperties
  <2>2. m \in Int /\ m = k + 1
    BY <1>1
  <2> HIDE DEF c, n, m
  <2>3. n - m + 1 = n - k /\ \A i \in 1 .. n - k : m + i - 1 = i + k
    BY <1>1, <2>2
  <2> QED
    BY <1>1, <2>1, <2>2, <2>3
<1>4. b \in Seq(T) /\ Len(b) = 1 /\ b[1] = t
  OBVIOUS
<1>5. r = (a \o b) \o c
  <2> HIDE DEF m
  <2> QED
    BY InsertAtIs
<1> HIDE DEF a, b, c, r, n, m
<1>6. /\ a \o b \in Seq(T) /\ Len(a \o b) = k + 1
      /\ \A i \in 1 .. (k + 1) : (a \o b)[i] = IF i <= k THEN s[i] ELSE t
  <2>1. /\ a \o b \in Seq(T) /\ Len(a \o b) = Len(a) + Len(b)
        /\ \A i \in 1 .. Len(a) + Len(b) :
             (a \o b)[i] = IF i <= Len(a) THEN a[i] ELSE b[i - Len(a)]
    BY <1>2, <1>4, ConcatProperties
  <2> QED
    BY <1>1, <1>2, <1>4, <2>1
<1> DEFINE d == a \o b
<1> HIDE DEF d
<1>7. /\ r \in Seq(T) /\ Len(r) = n + 1
      /\ \A i \in 1 .. n + 1 : r[i] = IF i <= k + 1 THEN d[i] ELSE c[i - (k + 1)]
  <2>1. d \in Seq(T) /\ Len(d) = k + 1
    BY <1>6 DEF d
  <2>2. /\ d \o c \in Seq(T) /\ Len(d \o c) = Len(d) + Len(c)
        /\ \A i \in 1 .. Len(d) + Len(c) :
             (d \o c)[i] = IF i <= Len(d) THEN d[i] ELSE c[i - Len(d)]
    BY <1>3, <2>1, ConcatProperties
  <2>3. r = d \o c
    BY <1>5 DEF d
  <2> QED
    BY <1>1, <1>3, <2>1, <2>2, <2>3
<1>8. \A i \in 1 .. n + 1 :
        r[i] = IF i <= k THEN s[i] ELSE IF i = k + 1 THEN t ELSE s[i - 1]
  <2> SUFFICES ASSUME NEW i \in 1 .. n + 1
               PROVE  r[i] = IF i <= k THEN s[i]
                             ELSE IF i = k + 1 THEN t ELSE s[i - 1]
    OBVIOUS
  <2>1. CASE i <= k + 1
    <3>1. i \in 1 .. k + 1 /\ r[i] = d[i]
      BY <1>1, <1>7, <2>1
    <3>2. d[i] = IF i <= k THEN s[i] ELSE t
      BY <1>6, <3>1 DEF d
    <3> QED
      BY <1>1, <3>1, <3>2
  <2>2. CASE ~(i <= k + 1)
    <3>1. i - (k + 1) \in 1 .. n - k /\ (i - (k + 1)) + k = i - 1
      BY <1>1, <2>2
    <3>2. r[i] = c[i - (k + 1)]
      BY <1>1, <1>7, <2>2
    <3>3. c[i - (k + 1)] = s[(i - (k + 1)) + k]
      BY <1>3, <3>1
    <3> QED
      BY <1>1, <2>2, <3>1, <3>2, <3>3
  <2> QED
    BY <2>1, <2>2
<1> QED
  BY <1>7, <1>8 DEF n, r, m

\* CFArrayRemoveValueAtIndex
LEMMA RemovedAt ==
  ASSUME NEW T, NEW s \in Seq(T), NEW k \in 1 .. Len(s)
  PROVE  LET r == RemoveAt(s, k) IN
         /\ r \in Seq(T) /\ Len(r) = Len(s) - 1
         /\ \A i \in 1 .. Len(r) : r[i] = IF i < k THEN s[i] ELSE s[i + 1]
<1> DEFINE n == Len(s)
           a == SubSeq(s, 1, k - 1)
           c == SubSeq(s, k + 1, Len(s))
           r == RemoveAt(s, k)
<1>1. n \in Nat /\ \A i \in 1 .. n : s[i] \in T
  BY ElementOfSeq
<1>2. k \in 1 .. n
  OBVIOUS
<1>3. /\ a \in Seq(T) /\ Len(a) = k - 1
      /\ \A i \in 1 .. k - 1 : a[i] = s[i]
  <2>1. /\ a \in Seq(T)
        /\ Len(a) = IF 1 <= k - 1 THEN k - 1 - 1 + 1 ELSE 0
        /\ \A i \in 1 .. k - 1 - 1 + 1 : a[i] = s[1 + i - 1]
    <3>1. k - 1 \in Int /\ 1 \in Int /\ \A i \in 1 .. k - 1 : s[i] \in T
      BY <1>1, <1>2
    <3> QED
      BY <3>1, SubSeqProperties
  <2> HIDE DEF a, n
  <2> QED
    BY <1>1, <1>2, <2>1
<1>4. /\ c \in Seq(T) /\ Len(c) = n - k
      /\ \A i \in 1 .. n - k : c[i] = s[i + k]
  <2>1. /\ c \in Seq(T)
        /\ Len(c) = IF k + 1 <= n THEN n - (k + 1) + 1 ELSE 0
        /\ \A i \in 1 .. n - (k + 1) + 1 : c[i] = s[k + 1 + i - 1]
    <3>1. k + 1 \in Int /\ n \in Int /\ \A i \in (k + 1) .. n : s[i] \in T
      BY <1>1, <1>2
    <3> QED
      BY <3>1, SubSeqProperties
  <2> HIDE DEF c, n
  <2> QED
    BY <1>1, <1>2, <2>1
<1>5. r = a \o c
  BY DEF RemoveAt
<1> HIDE DEF a, c, r, n
<1>6. /\ r \in Seq(T) /\ Len(r) = n - 1
      /\ \A i \in 1 .. n - 1 : r[i] = IF i < k THEN s[i] ELSE s[i + 1]
  <2>1. /\ a \o c \in Seq(T) /\ Len(a \o c) = Len(a) + Len(c)
        /\ \A i \in 1 .. Len(a) + Len(c) :
             (a \o c)[i] = IF i <= Len(a) THEN a[i] ELSE c[i - Len(a)]
    BY <1>3, <1>4, ConcatProperties
  <2> QED
    BY <1>1, <1>2, <1>3, <1>4, <1>5, <2>1
<1> QED
  BY <1>6 DEF n, r

LEMMA Inserting ==
  ASSUME NEW s, Array(s), NEW t \in Timers, t \notin ToSet(s),
         NEW k \in 0 .. Len(s)
  PROVE  LET r == InsertAt(s, k + 1, t) IN
         /\ Array(r) /\ Len(r) = Len(s) + 1 /\ ToSet(r) = ToSet(s) \cup {t}
         /\ \A i \in 1 .. Len(r) :
              r[i] = IF i <= k THEN s[i] ELSE IF i = k + 1 THEN t ELSE s[i - 1]
<1> DEFINE n == Len(s)
           r == InsertAt(s, k + 1, t)
<1>1. n \in Nat /\ k \in Nat /\ k <= n /\ s \in Seq(Timers)
      /\ \A i \in 1 .. n : s[i] \in Timers
  BY ToSetIs DEF Array
<1>2. /\ r \in Seq(Timers) /\ Len(r) = n + 1
      /\ \A i \in 1 .. n + 1 :
           r[i] = IF i <= k THEN s[i] ELSE IF i = k + 1 THEN t ELSE s[i - 1]
  BY <1>1, InsertedAt
<1> HIDE DEF n, r
<1>3. \A i \in 1 .. n + 1 :
        r[i] = IF i <= k THEN s[i] ELSE IF i = k + 1 THEN t ELSE s[i - 1]
  BY <1>2
<1>4. \A i, j \in 1 .. n : s[i] = s[j] => i = j
  BY DEF Array, n
<1>5. \A i \in 1 .. n : s[i] # t
  BY ToSetIs DEF n
<1>6. \A i, j \in 1 .. n + 1 : r[i] = r[j] => i = j
  BY <1>1, <1>3, <1>4, <1>5
<1>7. Array(r)
  BY <1>2, <1>6 DEF Array
<1>8. ToSet(r) = ToSet(s) \cup {t}
  <2>1. ASSUME NEW u, NEW i \in 1 .. n, s[i] = u
        PROVE  \E j \in 1 .. n + 1 : r[j] = u
    <3>1. CASE i <= k
      BY <1>1, <1>3, <2>1, <3>1
    <3>2. CASE ~(i <= k)
      BY <1>1, <1>3, <2>1, <3>2
    <3> QED
      BY <3>1, <3>2
  <2>2. \E j \in 1 .. n + 1 : r[j] = t
    <3>1. k + 1 \in 1 .. n + 1 /\ r[k + 1] = t
      BY <1>1, <1>3
    <3> QED
      BY <3>1
  <2>3. \A j \in 1 .. n + 1 : r[j] = t \/ \E i \in 1 .. n : s[i] = r[j]
    BY <1>1, <1>3
  <2>4. /\ \A u : u \in ToSet(s) <=> \E i \in 1 .. n : s[i] = u
        /\ \A u : u \in ToSet(r) <=> \E i \in 1 .. n + 1 : r[i] = u
    BY <1>2, <1>7, ToSetIs DEF n
  <2>5. \A u : u \in ToSet(r) <=> u \in ToSet(s) \/ u = t
    BY <2>1, <2>2, <2>3, <2>4
  <2> QED
    BY <2>5
<1> QED
  BY <1>2, <1>7, <1>8 DEF n, r

LEMMA Removing ==
  ASSUME NEW s, Array(s), NEW t \in ToSet(s)
  PROVE  LET r == RemoveAt(s, IndexIn(s, t)) IN
         /\ Array(r) /\ ToSet(r) = ToSet(s) \ {t}
         /\ \E f \in [1 .. Len(r) -> 1 .. Len(s)] :
              /\ \A i \in 1 .. Len(r) : r[i] = s[f[i]]
              /\ \A i, j \in 1 .. Len(r) : i < j => f[i] < f[j]
<1> DEFINE k == IndexIn(s, t)
           n == Len(s)
           r == RemoveAt(s, k)
<1>1. /\ n \in Nat /\ s \in Seq(Timers) /\ DOMAIN s = 1 .. n
      /\ \A i \in 1 .. n : s[i] \in Timers
  BY ToSetIs DEF Array
<1>2. k \in 1 .. n /\ s[k] = t
  BY <1>1, ToSetIs DEF IndexIn
<1> HIDE DEF k
<1>3. /\ r \in Seq(Timers) /\ Len(r) = n - 1
      /\ \A i \in 1 .. n - 1 : r[i] = IF i < k THEN s[i] ELSE s[i + 1]
  BY <1>1, <1>2, RemovedAt
<1> HIDE DEF n, r
<1> DEFINE f == [i \in 1 .. n - 1 |-> IF i < k THEN i ELSE i + 1]
<1>4. /\ f \in [1 .. n - 1 -> 1 .. n]
      /\ \A i \in 1 .. n - 1 : r[i] = s[f[i]]
      /\ \A i, j \in 1 .. n - 1 : i < j => f[i] < f[j]
      /\ \A i \in 1 .. n - 1 : f[i] # k
      /\ \A i \in 1 .. n : i # k => \E j \in 1 .. n - 1 : f[j] = i
  <2>1. ASSUME NEW i \in 1 .. n, i # k PROVE \E j \in 1 .. n - 1 : f[j] = i
    <3>1. CASE i < k
      BY <1>1, <1>2, <3>1
    <3>2. CASE i > k
      <4>1. i - 1 \in 1 .. n - 1 /\ f[i - 1] = i
        BY <1>1, <1>2, <3>2
      <4> QED
        BY <4>1
    <3> QED
      BY <1>1, <1>2, <2>1, <3>1, <3>2
  <2> QED
    BY <1>1, <1>2, <1>3, <2>1
<1> HIDE DEF f
<1>5. \A i, j \in 1 .. n : s[i] = s[j] => i = j
  BY DEF Array, n
<1>6. \A i, j \in 1 .. n - 1 : r[i] = r[j] => i = j
  <2> SUFFICES ASSUME NEW i \in 1 .. n - 1, NEW j \in 1 .. n - 1, r[i] = r[j]
               PROVE  i = j
    OBVIOUS
  <2>1. f[i] = f[j]
    BY <1>4, <1>5
  <2>2. f[i] \in 1 .. n /\ f[j] \in 1 .. n /\ ~(i < j) /\ ~(j < i)
    BY <1>4, <2>1
  <2> QED
    BY <1>1, <2>2
<1>7. Array(r)
  BY <1>3, <1>6 DEF Array
<1>8. ToSet(r) = ToSet(s) \ {t}
  <2>1. \A j \in 1 .. n - 1 : r[j] # t /\ \E i \in 1 .. n : s[i] = r[j]
    BY <1>2, <1>4, <1>5
  <2>2. ASSUME NEW i \in 1 .. n, s[i] # t PROVE \E j \in 1 .. n - 1 : r[j] = s[i]
    BY <1>2, <1>4, <2>2
  <2>4. /\ \A u : u \in ToSet(s) <=> \E i \in 1 .. n : s[i] = u
        /\ \A u : u \in ToSet(r) <=> \E i \in 1 .. n - 1 : r[i] = u
    BY <1>3, <1>7, ToSetIs DEF n
  <2>5. \A u : u \in ToSet(r) <=> u \in ToSet(s) /\ u # t
    BY <2>1, <2>2, <2>4
  <2> QED
    BY <2>5
<1> QED
  BY <1>3, <1>4, <1>7, <1>8 DEF n, r, k

-----------------------------------------------------------------------------
(* The scan of __CFArmNextTimerInMode.                                      *)

\* The dates of an array's timers, in order.
Ordered(s, d) == \A i, j \in 1 .. Len(s) : i < j => d[s[i]] <= d[s[j]]

Idle(s, F) == {i \in DOMAIN s : s[i] \notin F}
Scanned(s, d, F) == {<<i, d[s[i]], Hard(s[i], d)>> : i \in Idle(s, F)}

Visited(P) == {p \in P : \A q, r \in P : r[1] <= p[1] => ~Stops(q, r)}

LEMMA HardIs ==
  ASSUME NEW d \in [Timers -> Dates], NEW t \in Timers
  PROVE  /\ d[t] \in Nat /\ d[t] <= LastDate /\ d[t] < Never
         /\ Hard(t, d) \in 0 .. Never /\ d[t] <= Hard(t, d)
         /\ \A x \in Nat : x <= Never /\ x <= d[t] => x <= Hard(t, d)
<1>1. d[t] \in Dates /\ Tolerance[t] \in Nat /\ LastDate \in Nat
      /\ LastDate < Never /\ Never \in Nat
  BY TimersAssumption, ArrayAssumption
<1>2. d[t] \in Nat /\ d[t] <= LastDate
  BY <1>1 DEF Dates
<1>3. Hard(t, d) \in {d[t] + Tolerance[t], Never}
      /\ Hard(t, d) <= Never /\ Hard(t, d) <= d[t] + Tolerance[t]
  <2>1. {d[t] + Tolerance[t]} \in SUBSET Nat
    BY <1>1, <1>2
  <2> QED
    BY <2>1, EarliestOf DEF Hard
<1> QED
  BY <1>1, <1>2, <1>3

LEMMA ScannedIs ==
  ASSUME NEW s, Array(s), NEW d \in [Timers -> Dates], NEW F
  PROVE  /\ Scanned(s, d, F) \in SUBSET (Nat \X Nat \X Nat)
         /\ Idle(s, F) \subseteq 1 .. Len(s)
         /\ \A i \in Idle(s, F) : s[i] \in Timers /\ s[i] \notin F
         /\ \A p \in Scanned(s, d, F) :
              /\ p[1] \in Idle(s, F)
              /\ p = <<p[1], d[s[p[1]]], Hard(s[p[1]], d)>>
              /\ p[2] = d[s[p[1]]] /\ p[3] = Hard(s[p[1]], d)
         /\ \A i \in Idle(s, F) : \E p \in Scanned(s, d, F) : p[1] = i
<1>1. /\ Len(s) \in Nat /\ DOMAIN s = 1 .. Len(s)
      /\ \A i \in 1 .. Len(s) : s[i] \in Timers
  BY ToSetIs
<1>2. /\ Idle(s, F) \subseteq 1 .. Len(s)
      /\ \A i \in Idle(s, F) : s[i] \in Timers /\ s[i] \notin F
  BY <1>1 DEF Idle
<1>3. ASSUME NEW p \in Scanned(s, d, F)
      PROVE  /\ p[1] \in Idle(s, F)
             /\ p = <<p[1], d[s[p[1]]], Hard(s[p[1]], d)>>
             /\ p[2] = d[s[p[1]]] /\ p[3] = Hard(s[p[1]], d)
  BY DEF Scanned
<1>4. \A i \in Idle(s, F) : \E p \in Scanned(s, d, F) : p[1] = i
  <2> SUFFICES ASSUME NEW i \in Idle(s, F)
               PROVE  \E p \in Scanned(s, d, F) : p[1] = i
    OBVIOUS
  <2>1. <<i, d[s[i]], Hard(s[i], d)>> \in Scanned(s, d, F)
    BY DEF Scanned
  <2> QED
    BY <2>1
<1>5. \A i \in Idle(s, F) :
        i \in Nat /\ d[s[i]] \in Nat /\ Hard(s[i], d) \in Nat
  <2> SUFFICES ASSUME NEW i \in Idle(s, F)
               PROVE  i \in Nat /\ d[s[i]] \in Nat /\ Hard(s[i], d) \in Nat
    OBVIOUS
  <2>1. d[s[i]] \in Nat /\ Hard(s[i], d) \in 0 .. Never
    BY <1>2, HardIs
  <2> QED
    BY <1>1, <1>2, <2>1, ArrayAssumption
<1>6. Scanned(s, d, F) \in SUBSET (Nat \X Nat \X Nat)
  BY <1>5 DEF Scanned
<1> QED
  BY <1>2, <1>3, <1>4, <1>6

\* What the scan does not visit comes after the hard deadline of something that
\* it visits: q[1] is the place of q, q[2] its soft and q[3] its hard deadline.
LEMMA ScanVisits ==
  ASSUME NEW n \in Nat, NEW P,
         \A p \in P : /\ p[1] \in 1 .. n /\ p[2] \in Nat /\ p[3] \in Nat
                      /\ p[2] <= p[3],
         \A q, r \in P : q[1] <= r[1] => q[2] <= r[2],
         NEW p \in P
  PROVE  \E v \in Visited(P) : v[2] <= p[2] /\ v[3] <= p[3]
<1> DEFINE V == {j \in 1 .. n : \A q, r \in P : r[1] <= j => ~Stops(q, r)}
<1>1. CASE p[1] \in V
  <2>1. p \in Visited(P)
    BY <1>1 DEF Visited
  <2> QED
    BY <2>1
<1>2. CASE p[1] \notin V
  <2>1. PICK v \in 0 .. n : V = 1 .. v
    <3>1. V \in SUBSET (1 .. n)
      OBVIOUS
    <3>2. \A k \in V, j \in 1 .. n : j <= k => j \in V
      <4> SUFFICES ASSUME NEW k \in V, NEW j \in 1 .. n, j <= k,
                          NEW q \in P, NEW r \in P, r[1] <= j
                   PROVE  ~Stops(q, r)
        OBVIOUS
      <4>1. r[1] <= k
        OBVIOUS
      <4> QED
        BY <4>1
    <3> HIDE DEF V
    <3> QED
      BY <3>1, <3>2, Interval1
  <2>2. v \in Nat /\ v < p[1]
    BY <1>2, <2>1
  <2>3. v + 1 \in 1 .. n /\ v + 1 \notin V
    <3> HIDE DEF V
    <3> QED
      BY <2>1, <2>2
  <2>4. PICK q \in P, r \in P : r[1] <= v + 1 /\ Stops(q, r)
    BY <2>3
  <2>5. q[1] < r[1] /\ r[2] > q[3]
    BY <2>4 DEF Stops
  <2>6. q[1] \in 1 .. v
    BY <2>2, <2>4, <2>5
  <2>7. q \in Visited(P)
    <3>1. q[1] \in V
      BY <2>1, <2>6
    <3> QED
      BY <3>1 DEF Visited
  <2>8. r[2] <= p[2] /\ q[2] <= r[2]
    BY <2>2, <2>4, <2>5
  <2>9. q[2] <= p[2] /\ q[3] <= p[3]
    BY <2>5, <2>8
  <2> QED
    BY <2>7, <2>9
<1> QED
  BY <1>1, <1>2

\* What is not firing is taken into account, or fires no earlier than what is.
LEMMA ScanReaches ==
  ASSUME NEW s, Array(s), NEW d \in [Timers -> Dates], NEW F, Ordered(s, d),
         NEW i \in Idle(s, F)
  PROVE  \E p \in Visited(Scanned(s, d, F)) : p[3] <= Hard(s[i], d)
<1> DEFINE P == Scanned(s, d, F)
           n == Len(s)
<1>1. /\ n \in Nat
      /\ \A p \in P : /\ p[1] \in 1 .. n /\ s[p[1]] \in Timers
                      /\ p[2] = d[s[p[1]]] /\ p[3] = Hard(s[p[1]], d)
  BY ToSetIs, ScannedIs
<1>2. PICK p \in P : p[1] = i
  BY ScannedIs
<1>3. \A q \in P : q[2] \in Nat /\ q[3] \in Nat /\ q[2] <= q[3]
  BY <1>1, HardIs, ArrayAssumption
<1>4. \A q, r \in P : q[1] <= r[1] => q[2] <= r[2]
  BY <1>1, <1>3 DEF Ordered
<1> HIDE DEF P, n
<1>5. \E v \in Visited(P) : v[2] <= p[2] /\ v[3] <= p[3]
  BY <1>1, <1>3, <1>4, ScanVisits
<1> QED
  BY <1>1, <1>2, <1>5 DEF P

LEMMA DeadlinesAre ==
  ASSUME NEW P \in SUBSET (Nat \X Nat \X Nat)
  PROVE  Deadlines[P] = [soft |-> Earliest({p[2] : p \in Visited(P)}),
                         hard |-> Earliest({p[3] : p \in Visited(P)})]
BY DEF Deadlines, Visited

LEMMA ScanIsRight ==
  ASSUME NEW s, Array(s), NEW d \in [Timers -> Dates], NEW F,
         NEW L, L = Deadlines[Scanned(s, d, F)]
  PROVE  /\ L \in Limits
         /\ Ordered(s, d) => \A i \in Idle(s, F) : L.hard <= Hard(s[i], d)
         /\ L = Disarmed \/ \E i \in Idle(s, F) : L.soft = d[s[i]]
<1> DEFINE P == Scanned(s, d, F)
           V == Visited(P)
           A == {p[2] : p \in V}
           B == {p[3] : p \in V}
<1>1. P \in SUBSET (Nat \X Nat \X Nat)
  BY ScannedIs
<1>2. L = [soft |-> Earliest(A), hard |-> Earliest(B)]
  <2> HIDE DEF P
  <2>1. Deadlines[P] = [soft |-> Earliest({p[2] : p \in Visited(P)}),
                        hard |-> Earliest({p[3] : p \in Visited(P)})]
    BY <1>1, DeadlinesAre
  <2> QED
    BY <2>1 DEF P
<1>3. V \subseteq P
  BY DEF Visited
<1>4. \A p \in P : /\ p[1] \in Idle(s, F) /\ p[2] = d[s[p[1]]]
                   /\ p[3] = Hard(s[p[1]], d) /\ p[2] \in Dates /\ p[2] \in Nat
                   /\ p[3] \in 0 .. Never /\ p[3] \in Nat
  BY ScannedIs, HardIs, ArrayAssumption
<1> HIDE DEF P, V
<1>5. A \in SUBSET Nat /\ A \subseteq Dates /\ B \in SUBSET Nat
  BY <1>3, <1>4
<1>6. /\ Earliest(A) \in A \cup {Never}
      /\ Earliest(B) \in B \cup {Never} /\ Earliest(B) <= Never
      /\ \A y \in B : Earliest(B) <= y
  BY <1>5, EarliestOf
<1>7. L.soft = Earliest(A) /\ L.hard = Earliest(B)
  BY <1>2
<1>8. L \in Limits
  <2>1. Earliest(A) \in Dates \cup {Never} /\ Earliest(B) \in 0 .. Never
    BY <1>5, <1>6, ArrayAssumption
  <2> HIDE DEF A, B
  <2> QED
    BY <1>2, <2>1 DEF Limits
<1>9. ASSUME Ordered(s, d), NEW i \in Idle(s, F) PROVE L.hard <= Hard(s[i], d)
  <2>1. PICK p \in V : p[3] <= Hard(s[i], d)
    BY <1>9, ScanReaches DEF V, P
  <2>2. p[3] \in B /\ p[3] \in Nat
    BY <1>3, <1>4
  <2>3. Earliest(B) <= p[3] /\ Earliest(B) \in Nat
    BY <1>5, <1>6, <2>2, ArrayAssumption
  <2>4. Hard(s[i], d) \in Nat
    BY ScannedIs, HardIs, ArrayAssumption
  <2> QED
    BY <1>7, <2>1, <2>2, <2>3, <2>4
<1>10. L = Disarmed \/ \E i \in Idle(s, F) : L.soft = d[s[i]]
  <2>1. CASE V = {}
    <3>1. A = {} /\ B = {}
      BY <2>1
    <3>2. Earliest(A) = Never /\ Earliest(B) = Never
      BY <1>6, <3>1
    <3> QED
      BY <1>2, <3>2 DEF Disarmed
  <2>2. CASE V # {}
    <3>1. Earliest(A) # Never
      <4>1. PICK p \in V : TRUE
        BY <2>2
      <4>2. p[2] \in A /\ p[2] < Never /\ p[2] \in Nat
        BY <1>3, <1>4, ScannedIs, HardIs
      <4>3. Earliest(A) <= p[2]
        BY <1>5, <4>2, EarliestOf
      <4> QED
        BY <4>2, <4>3, ArrayAssumption
    <3>2. PICK p \in V : Earliest(A) = p[2]
      BY <1>6, <3>1
    <3> QED
      BY <1>3, <1>4, <1>7, <3>2
  <2> QED
    BY <2>1, <2>2
<1> QED
  BY <1>8, <1>9, <1>10

-----------------------------------------------------------------------------
(* The operations on a mode.                                                *)

LEMMA DisarmedIs == Disarmed \in Limits
BY ArrayAssumption DEF Disarmed, Limits

\* __CFArmNextTimerInMode
LEMMA Arming ==
  ASSUME NEW M \in Mode, NEW s, Array(s), NEW d \in [Timers -> Dates], NEW F,
         NEW L, L = Deadlines[Scanned(s, d, F)],
         NEW R, R = ArmNext(M, s, d, F)
  PROVE  /\ R \in Mode /\ R.timers = s /\ R.limits = L
         /\ R.armed = IF L.soft = Never THEN Disarmed
                      ELSE IF L = M.limits THEN M.armed ELSE L
         /\ R.ready = M.ready /\ R.spent = M.spent
<1> DEFINE a == IF L.soft = Never THEN Disarmed
                ELSE IF L = M.limits THEN M.armed ELSE L
<1>1. R = [M EXCEPT !.timers = s, !.limits = L, !.armed = a]
  BY DEF ArmNext, Scanned, Idle
<1>2. L \in Limits /\ s \in Arrays /\ Disarmed \in Limits /\ M.armed \in Limits
  BY ScanIsRight, ArraysAre, DisarmedIs DEF Mode
<1>3. a \in Limits
  BY <1>2
<1> HIDE DEF a
<1>4. R \in Mode
  BY <1>1, <1>2, <1>3 DEF Mode
<1>5. R.timers = s /\ R.limits = L /\ R.armed = a /\ R.ready = M.ready
      /\ R.spent = M.spent
  BY <1>1 DEF Mode
<1> QED
  BY <1>4, <1>5 DEF a

\* The place of a timer is behind those that are not due after it.
LEMMA Placing ==
  ASSUME NEW s, Array(s), NEW t \in Timers, t \notin ToSet(s),
         NEW d \in [Timers -> Dates],
         NEW r, r = InsertAt(s, Place(s, t, d) + 1, t)
  PROVE  /\ Array(r) /\ ToSet(r) = ToSet(s) \cup {t}
         /\ Ordered(s, d) => Ordered(r, d)
<1> DEFINE n == Len(s)
           D == {i \in DOMAIN s : d[s[i]] <= d[t]}
           k == Cardinality(D)
<1>1. /\ n \in Nat /\ DOMAIN s = 1 .. n
      /\ \A i \in 1 .. n : s[i] \in Timers /\ d[s[i]] \in Nat
      /\ d[t] \in Nat
  BY ToSetIs, HardIs
<1>2. \A m \in Nat : IsFiniteSet(1 .. m) /\ Cardinality(1 .. m) = m
  BY CountTo
<1>3. k \in 0 .. n
  <2>1. D \subseteq 1 .. n
    BY <1>1
  <2>2. IsFiniteSet(D) /\ Cardinality(D) <= Cardinality(1 .. n)
    BY <1>1, <1>2, <2>1, FS_Subset
  <2>3. Cardinality(D) \in Nat
    BY <2>2, FS_CardinalityType
  <2> QED
    BY <1>1, <1>2, <2>2, <2>3
<1>4. r = InsertAt(s, k + 1, t)
  BY DEF Place
<1>5. /\ Array(r) /\ Len(r) = n + 1 /\ ToSet(r) = ToSet(s) \cup {t}
      /\ \A i \in 1 .. n + 1 :
           r[i] = IF i <= k THEN s[i] ELSE IF i = k + 1 THEN t ELSE s[i - 1]
  <2> HIDE DEF k
  <2> QED
    BY <1>3, <1>4, Inserting
<1>6. ASSUME Ordered(s, d) PROVE Ordered(r, d)
  <2>1. \A i, j \in 1 .. n : i <= j => d[s[i]] <= d[s[j]]
    BY <1>1, <1>6 DEF Ordered
  <2>2. D = 1 .. k
    <3>1. D \in SUBSET (1 .. n)
      BY <1>1
    <3>2. \A i \in D, j \in 1 .. n : j <= i => j \in D
      <4> SUFFICES ASSUME NEW i \in D, NEW j \in 1 .. n, j <= i PROVE j \in D
        OBVIOUS
      <4>1. i \in 1 .. n /\ d[s[i]] <= d[t] /\ d[s[j]] <= d[s[i]]
        BY <1>1, <2>1
      <4>2. d[s[j]] <= d[t]
        BY <1>1, <4>1
      <4> QED
        BY <1>1, <4>2
    <3>3. PICK h \in 0 .. n : D = 1 .. h
      <4> HIDE DEF D
      <4> QED
        BY <1>1, <3>1, <3>2, Interval1
    <3>4. k = h
      <4> HIDE DEF D
      <4>1. h \in Nat /\ Cardinality(1 .. h) = h
        BY <1>1, <1>2
      <4> QED
        BY <3>3, <4>1
    <3> QED
      BY <3>3, <3>4
  <2>3. \A i \in 1 .. n : (i <= k) <=> d[s[i]] <= d[t]
    <3> TAKE i \in 1 .. n
    <3>1. i \in D <=> d[s[i]] <= d[t]
      BY <1>1
    <3> HIDE DEF D, k
    <3> QED
      BY <1>1, <1>3, <2>2, <3>1
  <2> HIDE DEF D, k, n
  <2> SUFFICES ASSUME NEW i \in 1 .. n + 1, NEW j \in 1 .. n + 1, i < j
               PROVE  d[r[i]] <= d[r[j]]
    BY <1>5 DEF Ordered
  <2> DEFINE x == r[i]
             y == r[j]
  <2>4. i <= k => i \in 1 .. n /\ x = s[i] /\ d[s[i]] <= d[t]
    BY <1>1, <1>3, <1>5, <2>3
  <2>5. i = k + 1 => x = t
    BY <1>1, <1>3, <1>5
  <2>6. i > k + 1 => i - 1 \in 1 .. n /\ x = s[i - 1]
    BY <1>1, <1>3, <1>5
  <2>7. j <= k => j \in 1 .. n /\ y = s[j]
    BY <1>1, <1>3, <1>5
  <2>8. j = k + 1 => y = t
    BY <1>1, <1>3, <1>5
  <2>9. j > k + 1 => j - 1 \in 1 .. n /\ y = s[j - 1] /\ d[t] <= d[s[j - 1]]
    <3> SUFFICES ASSUME j > k + 1
                 PROVE  j - 1 \in 1 .. n /\ y = s[j - 1] /\ d[t] <= d[s[j - 1]]
      OBVIOUS
    <3>1. j - 1 \in 1 .. n /\ y = s[j - 1] /\ ~(j - 1 <= k)
      BY <1>1, <1>3, <1>5
    <3>2. ~(d[s[j - 1]] <= d[t]) /\ d[s[j - 1]] \in Nat
      BY <1>1, <2>3, <3>1
    <3> QED
      BY <1>1, <3>1, <3>2
  <2> HIDE DEF x, y
  <2>10. d[x] <= d[y]
    <3>1. CASE j <= k
      <4>1. i <= k
        BY <1>1, <1>3, <3>1
      <4> QED
        BY <1>1, <1>3, <2>1, <2>4, <2>7, <3>1, <4>1
    <3>2. CASE j = k + 1
      <4>1. i <= k
        BY <1>1, <1>3, <3>2
      <4> QED
        BY <2>4, <2>8, <3>2, <4>1
    <3>3. CASE j > k + 1
      <4>1. CASE i <= k
        <5>1. d[x] \in Nat /\ d[y] \in Nat /\ d[x] <= d[t] /\ d[t] <= d[y]
          BY <1>1, <2>4, <2>9, <3>3, <4>1
        <5> QED
          BY <1>1, <5>1
      <4>2. CASE i = k + 1
        BY <2>5, <2>9, <3>3, <4>2
      <4>3. CASE i > k + 1
        <5>1. i - 1 <= j - 1
          BY <1>1, <1>3
        <5> QED
          BY <2>1, <2>6, <2>9, <3>3, <4>3, <5>1
      <4> QED
        BY <1>1, <1>3, <4>1, <4>2, <4>3
    <3> QED
      BY <1>1, <1>3, <3>1, <3>2, <3>3
  <2> QED
    BY <2>10 DEF x, y
<1> QED
  BY <1>5, <1>6

LEMMA Leaving ==
  ASSUME NEW M \in Mode, NEW t, Has(M, t)
  PROVE  /\ Array(Without(M, t)) /\ ToSet(Without(M, t)) = ToSet(M.timers) \ {t}
         /\ \A d \in [Timers -> Dates] :
              Ordered(M.timers, d) => Ordered(Without(M, t), d)
<1> DEFINE s == M.timers
           r == Without(M, t)
<1>1. Array(s) /\ t \in ToSet(s)
  BY ArraysAre DEF Has, Mode
<1>2. /\ Array(r) /\ ToSet(r) = ToSet(s) \ {t}
      /\ \E f \in [1 .. Len(r) -> 1 .. Len(s)] :
              /\ \A i \in 1 .. Len(r) : r[i] = s[f[i]]
              /\ \A i, j \in 1 .. Len(r) : i < j => f[i] < f[j]
  <2>1. r = RemoveAt(s, IndexIn(s, t))
    BY DEF Without
  <2> HIDE DEF r, s
  <2> QED
    BY <1>1, <2>1, Removing
<1> HIDE DEF r, s
<1>3. ASSUME NEW d \in [Timers -> Dates], Ordered(s, d) PROVE Ordered(r, d)
  BY <1>2, <1>3 DEF Ordered
<1> QED
  BY <1>2, <1>3 DEF r, s

\* In what order the timers are does not depend on the dates of others.
LEMMA OrderElsewhere ==
  ASSUME NEW s, Array(s), NEW d, NEW e, Ordered(s, d),
         \A t \in ToSet(s) : d[t] = e[t]
  PROVE  Ordered(s, e)
<1>1. \A i \in 1 .. Len(s) : s[i] \in ToSet(s)
  BY ToSetIs
<1> QED
  BY <1>1 DEF Ordered

LEMMA InsertIs ==
  ASSUME NEW M \in Mode, NEW s, Array(s), NEW t \in Timers, t \notin ToSet(s),
         NEW d \in [Timers -> Dates], NEW F, NEW R, R = Insert(M, s, t, d, F)
  PROVE  /\ R \in Mode /\ ToSet(R.timers) = ToSet(s) \cup {t}
         /\ Ordered(s, d) => Ordered(R.timers, d)
         /\ R = ArmNext(M, R.timers, d, F)
<1> DEFINE r == InsertAt(s, Place(s, t, d) + 1, t)
<1>1. R = ArmNext(M, r, d, F)
  BY DEF Insert
<1> HIDE DEF r
<1>2. /\ Array(r) /\ ToSet(r) = ToSet(s) \cup {t}
      /\ Ordered(s, d) => Ordered(r, d)
  BY Placing DEF r
<1>3. R \in Mode /\ R.timers = r
  BY <1>1, <1>2, Arming
<1> QED
  BY <1>1, <1>2, <1>3

LEMMA RepositionIs ==
  ASSUME NEW M \in Mode, NEW t \in Timers, NEW d \in [Timers -> Dates], NEW F,
         NEW e \in [Timers -> Dates], \A u \in Timers : u = t \/ d[u] = e[u],
         NEW R, R = Reposition(M, t, e, F)
  PROVE  /\ R \in Mode /\ ToSet(R.timers) = ToSet(M.timers)
         /\ Ordered(M.timers, d) => Ordered(R.timers, e)
         /\ R = IF Has(M, t) THEN ArmNext(M, R.timers, e, F) ELSE M
<1>1. Array(M.timers) /\ \A u \in ToSet(M.timers) : u \in Timers
  <2>1. Array(M.timers)
    BY ArraysAre DEF Mode
  <2> QED
    BY <2>1, ToSetIs
<1>2. CASE Has(M, t)
  <2> DEFINE s == Without(M, t)
  <2>1. /\ Array(s) /\ ToSet(s) = ToSet(M.timers) \ {t}
        /\ \A c \in [Timers -> Dates] : Ordered(M.timers, c) => Ordered(s, c)
    BY <1>2, Leaving
  <2>2. R = Insert(M, s, t, e, F)
    BY <1>2 DEF Reposition
  <2> HIDE DEF s
  <2>3. ToSet(M.timers) = ToSet(s) \cup {t} /\ t \notin ToSet(s)
    BY <1>2, <2>1 DEF Has
  <2>4. /\ R \in Mode /\ ToSet(R.timers) = ToSet(M.timers)
        /\ Ordered(s, e) => Ordered(R.timers, e)
        /\ R = ArmNext(M, R.timers, e, F)
    BY <2>1, <2>2, <2>3, InsertIs
  <2>5. \A u \in ToSet(s) : d[u] = e[u]
    BY <1>1, <2>1, <2>3
  <2>6. Ordered(s, d) => Ordered(s, e)
    BY <2>1, <2>5, OrderElsewhere
  <2> QED
    BY <1>2, <2>1, <2>4, <2>6
<1>3. CASE ~Has(M, t)
  <2>1. R = M
    BY <1>3 DEF Reposition
  <2>2. \A u \in ToSet(M.timers) : d[u] = e[u]
    BY <1>1, <1>3 DEF Has
  <2> QED
    BY <1>1, <1>3, <2>1, <2>2, OrderElsewhere
<1> QED
  BY <1>2, <1>3

-----------------------------------------------------------------------------
(* Types, membership and order.                                             *)

Members ==
  \A m \in Modes, t \in Timers :
    t \in ToSet(mode[m].timers) <=> m \in modesOf[t]

ModeInv ==
  /\ date \in [Timers -> Dates] /\ modesOf \in [Timers -> SUBSET Modes]
  /\ mode \in [Modes -> Mode]
  /\ Members

Sorted == \A m \in Modes : Ordered(mode[m].timers, date)

\* A callout is that of the first of the due timers; after it, one that does
\* not repeat is invalid.
Timely(f) ==
  /\ f.at <= now
  /\ InCallout(f) => Len(f.due) >= 1 /\ f.old <= f.at
  /\ f.pc = "returned" /\ Interval[Head(f.due)] = 0 => Head(f.due) \notin valid

RestInv ==
  /\ now \in 0 .. MaxTime /\ valid \subseteq Timers /\ firing \subseteq Timers
  /\ lock \in Callers \cup {Free}
  /\ stack \in Seq(Frame) /\ Len(stack) <= MaxDepth
  /\ \A i \in 1 .. Len(stack) : Timely(stack[i])
  /\ call \in [Callers -> Call]

\* A call that moves a timer is by a thread that may make it, and it found the
\* timer in some modes.
Moving ==
  \A c \in Callers :
    call[c].op = "set" => "set" \in Allowed[c] /\ call[c].todo # {}

LEMMA ModeFields ==
  ASSUME ModeInv, NEW m \in Modes
  PROVE  /\ mode[m] \in Mode /\ Array(mode[m].timers)
         /\ \A t \in ToSet(mode[m].timers) : t \in Timers
         /\ mode[m].limits \in Limits /\ mode[m].armed \in Limits
         /\ mode[m].ready \in BOOLEAN /\ mode[m].spent \in BOOLEAN
<1>1. mode[m] \in Mode
  BY DEF ModeInv
<1>2. Array(mode[m].timers)
  BY <1>1, ArraysAre DEF Mode
<1> QED
  BY <1>1, <1>2, ToSetIs DEF Mode

\* Steps that leave the arrays and the dates alone.
LEMMA SameArrays ==
  ASSUME ModeInv, UNCHANGED <<date, modesOf>>, mode' \in [Modes -> Mode],
         \A m \in Modes : mode'[m].timers = mode[m].timers
  PROVE  ModeInv' /\ (Sorted => Sorted')
BY DEF ModeInv, Members, Sorted

LEMMA RepositionInKeeps ==
  ASSUME ModeInv, NEW S \in SUBSET Modes, NEW t \in Timers,
         NEW e \in [Timers -> Dates], \A u \in Timers : u = t \/ date[u] = e[u],
         date' = e, UNCHANGED modesOf, NEW F, RepositionIn(S, t, e, F)
  PROVE  /\ ModeInv'
         /\ Sorted /\ modesOf[t] \subseteq S => Sorted'
<1> DEFINE R(m) == Reposition(mode[m], t, e, F)
<1>1. mode' = [m \in Modes |-> IF m \in S THEN R(m) ELSE mode[m]]
  BY DEF RepositionIn
<1>2. ASSUME NEW m \in Modes
      PROVE  /\ R(m) \in Mode /\ ToSet(R(m).timers) = ToSet(mode[m].timers)
             /\ Ordered(mode[m].timers, date) => Ordered(R(m).timers, e)
  <2>1. mode[m] \in Mode /\ date \in [Timers -> Dates]
    BY DEF ModeInv
  <2> QED
    BY <2>1, RepositionIs
<1> HIDE DEF R
<1>3. ASSUME NEW m \in Modes
      PROVE  /\ mode'[m] = IF m \in S THEN R(m) ELSE mode[m]
             /\ mode'[m] \in Mode
             /\ ToSet(mode'[m].timers) = ToSet(mode[m].timers)
  BY <1>1, <1>2 DEF ModeInv
<1>4. mode' \in [Modes -> Mode]
  BY <1>1, <1>2 DEF ModeInv
<1>5. ModeInv'
  BY <1>3, <1>4 DEF ModeInv, Members
<1>6. ASSUME Sorted, modesOf[t] \subseteq S PROVE Sorted'
  <2> SUFFICES ASSUME NEW m \in Modes PROVE Ordered(mode'[m].timers, e)
    BY DEF Sorted
  <2>1. CASE m \in S
    BY <1>2, <1>3, <1>6, <2>1 DEF Sorted
  <2>2. CASE m \notin S
    <3>1. t \notin ToSet(mode[m].timers)
      BY <1>6, <2>2 DEF ModeInv, Members
    <3>2. Array(mode[m].timers) /\ \A u \in ToSet(mode[m].timers) : date[u] = e[u]
      BY <3>1, ModeFields
    <3> QED
      BY <1>3, <1>6, <2>2, <3>2, OrderElsewhere DEF Sorted
  <2> QED
    BY <2>1, <2>2
<1> QED
  BY <1>5, <1>6

LEMMA RemoveFromKeeps ==
  ASSUME ModeInv, NEW S \in SUBSET Modes, NEW t \in Timers,
         RemoveFrom(S, t), UNCHANGED date
  PROVE  ModeInv' /\ (Sorted => Sorted')
<1> DEFINE found == {m \in S : Has(mode[m], t)}
           R(m)  == ArmNext(mode[m], Without(mode[m], t), date, firing)
<1>1. /\ modesOf' = [modesOf EXCEPT ![t] = @ \ found]
      /\ mode' = [m \in Modes |-> IF m \in found THEN R(m) ELSE mode[m]]
  BY DEF RemoveFrom
<1>2. found \subseteq Modes /\ \A m \in found : Has(mode[m], t)
  OBVIOUS
<1> HIDE DEF found
<1>3. ASSUME NEW m \in found
      PROVE  /\ R(m) \in Mode
             /\ ToSet(R(m).timers) = ToSet(mode[m].timers) \ {t}
             /\ Ordered(mode[m].timers, date) => Ordered(R(m).timers, date)
  <2> DEFINE s == Without(mode[m], t)
  <2>1. mode[m] \in Mode /\ Has(mode[m], t) /\ date \in [Timers -> Dates]
    BY <1>2 DEF ModeInv
  <2>2. /\ Array(s) /\ ToSet(s) = ToSet(mode[m].timers) \ {t}
        /\ Ordered(mode[m].timers, date) => Ordered(s, date)
    BY <2>1, Leaving
  <2>3. R(m) = ArmNext(mode[m], s, date, firing)
    OBVIOUS
  <2> HIDE DEF s, R
  <2>4. R(m) \in Mode /\ R(m).timers = s
    BY <2>1, <2>2, <2>3, Arming
  <2> QED
    BY <2>2, <2>4
<1> HIDE DEF R
<1>4. ASSUME NEW m \in Modes
      PROVE  mode'[m] = IF m \in found THEN R(m) ELSE mode[m]
  BY <1>1
<1>5. mode' \in [Modes -> Mode]
  BY <1>1, <1>3 DEF ModeInv
<1>6. modesOf' \in [Timers -> SUBSET Modes]
  BY <1>1, <1>2 DEF ModeInv
<1>7. Members'
  <2> SUFFICES ASSUME NEW m \in Modes, NEW u \in Timers
               PROVE  u \in ToSet(mode'[m].timers) <=> m \in modesOf'[u]
    BY DEF Members
  <2>1. u \in ToSet(mode[m].timers) <=> m \in modesOf[u]
    BY DEF ModeInv, Members
  <2>2. modesOf'[u] = IF u = t THEN modesOf[u] \ found ELSE modesOf[u]
    BY <1>1 DEF ModeInv
  <2>3. CASE m \in found
    BY <1>3, <1>4, <2>1, <2>2, <2>3
  <2>4. CASE m \notin found
    BY <1>4, <2>1, <2>2, <2>4
  <2> QED
    BY <2>3, <2>4
<1>8. Sorted => Sorted'
  BY <1>3, <1>4 DEF Sorted
<1> QED
  BY <1>5, <1>6, <1>7, <1>8 DEF ModeInv

LEMMA AddKeeps ==
  ASSUME ModeInv, RestInv, NEW c \in Callers, NEW m \in Modes, AddToMode(c, m)
  PROVE  ModeInv' /\ (Sorted => Sorted')
<1> DEFINE t == call[c].timer
           R == Insert(mode[m], mode[m].timers, t, date, firing)
<1>1. t \in Timers
  BY DEF RestInv, Call
<1>2. CASE m \in modesOf[t] \/ (call[c].op = "common" /\ t \notin valid)
  <2>1. UNCHANGED <<date, modesOf, mode>>
    BY <1>2 DEF AddToMode
  <2> QED
    BY <2>1, SameArrays DEF ModeInv
<1>3. CASE ~(m \in modesOf[t] \/ (call[c].op = "common" /\ t \notin valid))
  <2>1. /\ modesOf' = [modesOf EXCEPT ![t] = @ \cup {m}]
        /\ mode' = [mode EXCEPT ![m] = R]
        /\ UNCHANGED date /\ m \notin modesOf[t]
    BY <1>3 DEF AddToMode
  <2> HIDE DEF t
  <2>2. /\ mode[m] \in Mode /\ Array(mode[m].timers)
        /\ date \in [Timers -> Dates]
    BY ModeFields DEF ModeInv
  <2>3. t \notin ToSet(mode[m].timers)
    BY <1>1, <2>1 DEF ModeInv, Members
  <2>4. /\ R \in Mode /\ ToSet(R.timers) = ToSet(mode[m].timers) \cup {t}
        /\ Ordered(mode[m].timers, date) => Ordered(R.timers, date)
    BY <1>1, <2>2, <2>3, InsertIs
  <2> HIDE DEF R
  <2>5. \A n \in Modes : mode'[n] = IF n = m THEN R ELSE mode[n]
    BY <2>1 DEF ModeInv
  <2>6. mode' \in [Modes -> Mode] /\ modesOf' \in [Timers -> SUBSET Modes]
    BY <2>1, <2>4 DEF ModeInv
  <2>7. Members'
    <3> SUFFICES ASSUME NEW n \in Modes, NEW u \in Timers
                 PROVE  u \in ToSet(mode'[n].timers) <=> n \in modesOf'[u]
      BY DEF Members
    <3>1. u \in ToSet(mode[n].timers) <=> n \in modesOf[u]
      BY DEF ModeInv, Members
    <3>2. modesOf'[u] = IF u = t THEN modesOf[u] \cup {m} ELSE modesOf[u]
      BY <2>1 DEF ModeInv
    <3> QED
      BY <2>4, <2>5, <3>1, <3>2
  <2>8. Sorted => Sorted'
    BY <2>1, <2>4, <2>5 DEF Sorted
  <2> QED
    BY <2>1, <2>6, <2>7, <2>8 DEF ModeInv
<1> QED
  BY <1>2, <1>3

LEMMA RestTop ==
  ASSUME RestInv, stack # <<>>
  PROVE  /\ Len(stack) \in Nat /\ Len(stack) \in 1 .. Len(stack)
         /\ Top = stack[Len(stack)] /\ Top \in Frame /\ Timely(Top)
         /\ InCallout(Top) => Head(Top.due) \in Timers /\ Len(Top.due) >= 1
<1>1. /\ Len(stack) \in Nat /\ Len(stack) \in 1 .. Len(stack)
      /\ Top = stack[Len(stack)] /\ Top \in Frame /\ Timely(Top)
  <2>1. stack \in Seq(Frame) /\ Len(stack) \in 1 .. Len(stack)
    BY EmptySeq DEF RestInv
  <2>2. Top = stack[Len(stack)]
    BY DEF Top, Last
  <2> QED
    BY <2>1, <2>2, ElementOfSeq DEF RestInv
<1>2. ASSUME InCallout(Top) PROVE Head(Top.due) \in Timers /\ Len(Top.due) >= 1
  <2>1. Array(Top.due) /\ Len(Top.due) >= 1
    BY <1>1, <1>2, ArraysAre DEF Frame, Timely
  <2>2. 1 \in 1 .. Len(Top.due) /\ Head(Top.due) = Top.due[1]
    BY <2>1, ToSetIs DEF Array
  <2> QED
    BY <2>1, <2>2, ToSetIs
<1> QED
  BY <1>1, <1>2

LEMMA DivIs ==
  ASSUME NEW a \in Nat, NEW b \in Nat, b # 0
  PROVE  a \div b \in Nat /\ b * (a \div b) <= a
OBVIOUS

\* The date after a callout is no later than that for "never".
LEMMA NextDateIs ==
  ASSUME RestInv, NEW t \in Timers, Interval[t] # 0, NEW old \in Dates,
         old <= now
  PROVE  NextDate(t, old) \in Dates
<1> DEFINE i == Interval[t]
           q == (now - old) \div i
<1>1. /\ i \in Nat /\ i # 0 /\ now \in Nat /\ now <= MaxTime /\ MaxTime \in Nat
      /\ LastDate \in Nat /\ MaxTime + i <= LastDate
      /\ old \in Nat /\ now - old \in Nat
  BY TimersAssumption DEF RestInv, Dates
<1>2. q \in Nat /\ i * q <= now - old
  BY <1>1, DivIs
<1>3. NextDate(t, old) = IF LastDate - i <= old THEN LastDate
                         ELSE old + i * (1 + q)
  BY DEF NextDate
<1> HIDE DEF i, q
<1>4. i * (1 + q) = i + i * q /\ i * q \in Nat
  BY <1>1, <1>2
<1> DEFINE p == i * q
           r == i * (1 + q)
<1> HIDE DEF p, r
<1>5. r = i + p /\ p \in Nat /\ p <= now - old
  BY <1>2, <1>4 DEF p, r
<1>6. old + r \in 0 .. LastDate
  BY <1>1, <1>5
<1>7. NextDate(t, old) = IF LastDate - i <= old THEN LastDate ELSE old + r
  BY <1>3 DEF r
<1> QED
  BY <1>1, <1>6, <1>7 DEF Dates

\* With one mode, or if no thread moves a timer, the modes that a call noted
\* down are those the timer is in.
Steady ==
  \/ \A m, n \in Modes : m = n
  \/ \A c \in Callers : "set" \notin Allowed[c]

LEMMA MoveKeeps ==
  ASSUME ModeInv, RestInv, NEW c \in Callers, SetDate(c)
  PROVE  ModeInv' /\ (Moving /\ Steady /\ Sorted => Sorted')
<1> DEFINE w == call[c]
           e == [date EXCEPT ![w.timer] = w.date]
<1>1. /\ w.op = "set" /\ date' = e /\ UNCHANGED modesOf
      /\ RepositionIn(w.todo, w.timer, e, firing)
  BY DEF SetDate
<1>2. w \in Call
  BY DEF RestInv
<1> HIDE DEF w
<1>3. w.timer \in Timers /\ w.date \in Dates /\ w.todo \in SUBSET Modes
  BY <1>2 DEF Call
<1>4. /\ e \in [Timers -> Dates]
      /\ \A u \in Timers : u = w.timer \/ date[u] = e[u]
  BY <1>3 DEF ModeInv
<1>5. /\ ModeInv'
      /\ Sorted /\ modesOf[w.timer] \subseteq w.todo => Sorted'
  <2> HIDE DEF e
  <2> QED
    BY <1>1, <1>3, <1>4, RepositionInKeeps
<1>6. ASSUME Moving, Steady PROVE modesOf[w.timer] \subseteq w.todo
  <2>1. "set" \in Allowed[c] /\ w.todo # {}
    BY <1>1, <1>6 DEF Moving, w
  <2>2. \A m, n \in Modes : m = n
    BY <1>6, <2>1 DEF Steady
  <2>3. modesOf[w.timer] \subseteq Modes
    BY <1>3 DEF ModeInv
  <2> QED
    BY <1>3, <2>1, <2>2, <2>3
<1> QED
  BY <1>5, <1>6

LEMMA SetKeeps ==
  ASSUME ModeInv, RestInv, NEW c \in Callers, NEW t \in Timers,
         NEW d \in 0 .. MaxTime, SetNextFireDate(c, t, d)
  PROVE  ModeInv' /\ (Sorted => Sorted')
<1>1. CASE modesOf[t] = {}
  <2>1. date' = [date EXCEPT ![t] = Later(now, d)] /\ UNCHANGED <<modesOf, mode>>
    BY <1>1 DEF SetNextFireDate
  <2>2. Later(now, d) \in Dates
    BY TimersAssumption DEF RestInv, Later, Dates
  <2>3. date' \in [Timers -> Dates]
        /\ \A u \in Timers : u = t \/ date[u] = date'[u]
    BY <2>1, <2>2 DEF ModeInv
  <2>4. ModeInv'
    BY <2>1, <2>3 DEF ModeInv, Members
  <2>5. ASSUME NEW m \in Modes, Ordered(mode[m].timers, date)
        PROVE  Ordered(mode[m].timers, date')
    <3>1. t \notin ToSet(mode[m].timers)
      BY <1>1 DEF ModeInv, Members
    <3>2. /\ Array(mode[m].timers)
          /\ \A u \in ToSet(mode[m].timers) : date[u] = date'[u]
      BY <2>3, <3>1, ModeFields
    <3> QED
      BY <2>5, <3>2, OrderElsewhere
  <2> QED
    BY <2>1, <2>4, <2>5 DEF Sorted
<1>2. CASE modesOf[t] # {}
  <2>1. UNCHANGED <<date, modesOf, mode>>
    BY <1>2 DEF SetNextFireDate
  <2> QED
    BY <2>1, SameArrays DEF ModeInv
<1> QED
  BY <1>1, <1>2

\* One mode's record becomes R, with the same array.
LEMMA OneModeKeeps ==
  ASSUME ModeInv, UNCHANGED <<date, modesOf>>, NEW m \in Modes, NEW R \in Mode,
         R.timers = mode[m].timers, mode' = [mode EXCEPT ![m] = R]
  PROVE  ModeInv' /\ (Sorted => Sorted')
<1>1. mode' \in [Modes -> Mode]
      /\ \A n \in Modes : mode'[n].timers = mode[n].timers
  BY DEF ModeInv
<1> QED
  BY <1>1, SameArrays

LEMMA RearmKeeps ==
  ASSUME ModeInv, UNCHANGED <<date, modesOf>>, NEW m \in Modes, NEW F,
         mode' = [mode EXCEPT ![m] = ArmNext(@, @.timers, date, F)]
  PROVE  ModeInv' /\ (Sorted => Sorted')
<1> DEFINE M == mode[m]
           R == ArmNext(M, M.timers, date, F)
<1>1. M \in Mode /\ Array(M.timers) /\ date \in [Timers -> Dates]
  BY ModeFields DEF ModeInv
<1>2. mode' = [mode EXCEPT ![m] = R]
  OBVIOUS
<1>3. R \in Mode /\ R.timers = M.timers
  <2> HIDE DEF M
  <2> QED
    BY <1>1, Arming
<1> HIDE DEF R
<1> QED
  BY <1>2, <1>3, OneModeKeeps

LEMMA ForgottenIs ==
  ASSUME NEW M \in Mode
  PROVE  /\ ForgetLimits(M) \in Mode /\ ForgetLimits(M).timers = M.timers
         /\ ForgetLimits(M).limits = Disarmed
         /\ ForgetLimits(M).armed = M.armed /\ ForgetLimits(M).ready = M.ready
         /\ ForgetLimits(M).spent = M.spent
BY DisarmedIs DEF ForgetLimits, Mode

LEMMA FireModes ==
  ASSUME ModeInv, RestInv, FireTimer
  PROVE  ModeInv' /\ (Sorted => Sorted')
<1> DEFINE m == Top.mode
           M == ForgetLimits(mode[m])
           R == ArmNext(M, mode[m].timers, date, firing')
<1>1. m \in Modes
  BY RestTop DEF FireTimer, Frame
<1>2. UNCHANGED <<date, modesOf>>
      /\ mode' = [mode EXCEPT ![m] = ArmNext(ForgetLimits(@), @.timers, date,
                                             firing')]
  BY DEF FireTimer
<1>3. mode' = [mode EXCEPT ![m] = R]
  BY <1>2
<1> HIDE DEF m
<1>4. M \in Mode /\ Array(mode[m].timers) /\ date \in [Timers -> Dates]
  BY <1>1, ModeFields, ForgottenIs DEF ModeInv
<1>5. R \in Mode /\ R.timers = mode[m].timers
  <2> HIDE DEF M
  <2> QED
    BY <1>4, Arming
<1> HIDE DEF R
<1> QED
  BY <1>1, <1>2, <1>3, <1>5, OneModeKeeps

LEMMA ReturnedIs ==
  ASSUME RestInv, EndTimer
  PROVE  /\ Head(Top.due) \in Timers /\ Top.mode \in Modes
         /\ Top.old \in Dates /\ Top.old <= now
         /\ Head(Top.due) \in valid => Interval[Head(Top.due)] # 0
<1>1. stack # <<>> /\ Top.pc = "returned"
  BY DEF EndTimer
<1>2. /\ InCallout(Top) /\ Top \in Frame /\ Timely(Top)
      /\ Head(Top.due) \in Timers
  BY <1>1, RestTop DEF InCallout
<1>3. Top.old <= now
  BY <1>2, TimersAssumption DEF Timely, Frame, RestInv, Dates
<1> QED
  BY <1>1, <1>2, <1>3 DEF Timely, Frame

LEMMA EndModes ==
  ASSUME ModeInv, RestInv, EndTimer
  PROVE  ModeInv' /\ (Sorted => Sorted')
<1> DEFINE t == Head(Top.due)
<1>1. stack # <<>> /\ Top.pc = "returned" /\ UNCHANGED modesOf
  BY DEF EndTimer
<1>2. t \in Timers /\ Top.mode \in Modes /\ Top.old \in Dates /\ Top.old <= now
      /\ (t \in valid => Interval[t] # 0)
  BY ReturnedIs
<1>3. CASE UNCHANGED <<date, mode>>
  BY <1>1, <1>3, SameArrays DEF ModeInv
<1>4. CASE HonorLaterDate(t)
  BY <1>1, <1>2, <1>4, RearmKeeps DEF HonorLaterDate
<1>5. CASE t \in valid /\ Repeat(t)
  <2> DEFINE e == [date EXCEPT ![t] = NextDate(t, Top.old)]
  <2>1. date' = e /\ RepositionIn(modesOf[t], t, e, firing')
    BY <1>5 DEF Repeat
  <2> HIDE DEF t
  <2>2. NextDate(t, Top.old) \in Dates
    BY <1>2, <1>5, NextDateIs
  <2>3. /\ e \in [Timers -> Dates] /\ modesOf[t] \in SUBSET Modes
        /\ \A u \in Timers : u = t \/ date[u] = e[u]
    BY <1>2, <2>2 DEF ModeInv
  <2> HIDE DEF e
  <2> QED
    BY <1>1, <1>2, <2>1, <2>3, RepositionInKeeps
<1> QED
  BY <1>3, <1>4, <1>5 DEF EndTimer

\* The flags and the armed deadlines alone change.
Flagged(M, a, b, c) == [M EXCEPT !.armed = a, !.ready = b, !.spent = c]

LEMMA FlagsAre ==
  ASSUME NEW M \in Mode, NEW a \in Limits, NEW b \in BOOLEAN, NEW c \in BOOLEAN,
         NEW R, R = Flagged(M, a, b, c)
  PROVE  /\ R \in Mode /\ R.timers = M.timers /\ R.limits = M.limits
         /\ R.armed = a /\ R.ready = b /\ R.spent = c
<1>1. R \in Mode
  BY DEF Mode, Flagged
<1> QED
  BY <1>1 DEF Mode, Flagged

LEMMA ReceivedIs ==
  ASSUME ModeInv, RestInv, Receive
  PROVE  \E R \in Mode :
           /\ mode' = [mode EXCEPT ![Top.mode] = R] /\ Top.mode \in Modes
           /\ R.timers = mode[Top.mode].timers
           /\ R.limits = mode[Top.mode].limits
           /\ R.armed = mode[Top.mode].armed
           /\ R.ready = FALSE /\ R.spent = FALSE
<1> DEFINE m == Top.mode
           M == mode[m]
           no == FALSE
           R == Flagged(M, M.armed, no, no)
<1>1. m \in Modes
  BY RestTop DEF Receive, Frame
<1>2. mode' = [mode EXCEPT ![m].ready = FALSE, ![m].spent = FALSE]
  BY DEF Receive
<1> HIDE DEF m
<1>3. M \in Mode /\ M.armed \in Limits
  BY <1>1, ModeFields
<1>4. mode' = [mode EXCEPT ![m] = R]
  <2>1. R = [M EXCEPT !.ready = FALSE, !.spent = FALSE]
    BY <1>3 DEF Mode, Flagged
  <2> HIDE DEF R
  <2> QED
    BY <1>1, <1>2, <2>1 DEF ModeInv
<1>5. no \in BOOLEAN
  OBVIOUS
<1>6. /\ R \in Mode /\ R.timers = M.timers /\ R.limits = M.limits
      /\ R.armed = M.armed /\ R.ready = no /\ R.spent = no
  <2>1. R = Flagged(M, M.armed, no, no)
    OBVIOUS
  <2> HIDE DEF M, no, R
  <2> QED
    BY <1>3, <1>5, <2>1, FlagsAre
<1> HIDE DEF R
<1> QED
  BY <1>1, <1>4, <1>6 DEF m

LEMMA KernelIs ==
  ASSUME ModeInv, NEW m \in Modes, KernelFires(m)
  PROVE  \E R \in Mode :
           /\ mode' = [mode EXCEPT ![m] = R]
           /\ R.timers = mode[m].timers /\ R.limits = mode[m].limits
           /\ R.armed = Disarmed /\ R.ready = TRUE /\ R.spent = mode[m].spent
<1> DEFINE M == mode[m]
           yes == TRUE
           R == Flagged(M, Disarmed, yes, M.spent)
<1>2. mode' = [mode EXCEPT ![m].armed = Disarmed, ![m].ready = TRUE]
  BY DEF KernelFires
<1>3. M \in Mode /\ M.spent \in BOOLEAN
  BY ModeFields
<1>4. mode' = [mode EXCEPT ![m] = R]
  <2>1. R = [M EXCEPT !.armed = Disarmed, !.ready = TRUE]
    BY <1>3 DEF Mode, Flagged
  <2> HIDE DEF R
  <2> QED
    BY <1>2, <2>1 DEF ModeInv
<1>5. yes \in BOOLEAN
  OBVIOUS
<1>6. /\ R \in Mode /\ R.timers = M.timers /\ R.limits = M.limits
      /\ R.armed = Disarmed /\ R.ready = yes /\ R.spent = M.spent
  <2>1. R = Flagged(M, Disarmed, yes, M.spent)
    OBVIOUS
  <2> HIDE DEF M, yes, R
  <2> QED
    BY <1>3, <1>5, <2>1, DisarmedIs, FlagsAre
<1> HIDE DEF R
<1> QED
  BY <1>4, <1>6

\* __CFRunLoopRun, "because we apparently fired early"
LEMMA ArmedAgainIs ==
  ASSUME ModeInv, NEW m \in Modes
  PROVE  LET A == ArmNext(mode[m], mode[m].timers, date, firing)
             R == ArmAgain(mode[m]) IN
         /\ A \in Mode /\ R \in Mode
         /\ R.timers = mode[m].timers /\ R.limits = A.limits
         /\ R.armed = A.armed /\ R.ready = mode[m].ready
         /\ R.spent = ~(ToSet(mode[m].timers) \subseteq valid)
<1> DEFINE M == mode[m]
           A == ArmNext(M, M.timers, date, firing)
           s == ~(ToSet(M.timers) \subseteq valid)
           R == ArmAgain(M)
<1>1. M \in Mode /\ Array(M.timers) /\ date \in [Timers -> Dates]
  BY ModeFields DEF ModeInv
<1>2. A \in Mode /\ A.timers = M.timers /\ A.ready = M.ready
  <2> HIDE DEF M
  <2> QED
    BY <1>1, Arming
<1>3. R = [A EXCEPT !.spent = s]
  BY DEF ArmAgain
<1>4. s \in BOOLEAN
  OBVIOUS
<1> HIDE DEF A, s, R, M
<1>5. R \in Mode
  BY <1>2, <1>3, <1>4 DEF Mode
<1>6. R.timers = A.timers /\ R.limits = A.limits /\ R.armed = A.armed
      /\ R.ready = A.ready /\ R.spent = s
  BY <1>2, <1>3, <1>4 DEF Mode
<1> QED
  BY <1>2, <1>5, <1>6 DEF A, s, R, M

LEMMA DoneModes ==
  ASSUME ModeInv, RestInv, TimersDone
  PROVE  ModeInv' /\ (Sorted => Sorted')
<1>1. Top.mode \in Modes /\ UNCHANGED <<date, modesOf>>
  BY RestTop DEF TimersDone, Frame
<1>2. CASE Top.handled
  BY <1>1, <1>2, SameArrays DEF TimersDone, ModeInv
<1>3. CASE ~Top.handled
  <2> DEFINE m == Top.mode
             R == ArmAgain(mode[m])
  <2>1. mode' = [mode EXCEPT ![m] = R]
    BY <1>3 DEF TimersDone
  <2> HIDE DEF m
  <2>2. R \in Mode /\ R.timers = mode[m].timers
    BY <1>1, ArmedAgainIs DEF m
  <2> HIDE DEF R
  <2> QED
    BY <1>1, <2>1, <2>2, OneModeKeeps DEF m
<1> QED
  BY <1>2, <1>3

LEMMA ModeStep ==
  ASSUME ModeInv, RestInv, [Next]_vars
  PROVE  ModeInv' /\ (Moving /\ Steady /\ Sorted => Sorted')
<1>1. ASSUME UNCHANGED <<date, modesOf, mode>>
      PROVE  ModeInv' /\ (Sorted => Sorted')
  BY <1>1, SameArrays DEF ModeInv
<1>2. ASSUME NEW c \in Callers, Begin(c) PROVE ModeInv' /\ (Sorted => Sorted')
  <2>1. ASSUME NEW t \in Timers, NEW m \in Modes, RemoveTimer(c, t, m)
        PROVE  ModeInv' /\ (Sorted => Sorted')
    <3>1. {m} \in SUBSET Modes /\ RemoveFrom({m}, t) /\ UNCHANGED date
      BY <2>1 DEF RemoveTimer
    <3> QED
      BY <3>1, RemoveFromKeeps
  <2>2. ASSUME NEW t \in Timers, NEW m \in Modes, AddTimer(c, t, m)
        PROVE  ModeInv' /\ (Sorted => Sorted')
    BY <1>1, <2>2 DEF AddTimer
  <2>3. ASSUME NEW t \in Timers, AddToCommonModes(c, t) \/ TimerInvalidate(c, t)
        PROVE  ModeInv' /\ (Sorted => Sorted')
    BY <1>1, <2>3 DEF AddToCommonModes, TimerInvalidate
  <2> QED
    BY <1>2, <2>1, <2>2, <2>3, SetKeeps DEF Begin
<1>3. ASSUME NEW c \in Callers, LeaveModes(c)
      PROVE  ModeInv' /\ (Sorted => Sorted')
  <2>1. call[c].todo \in SUBSET Modes /\ call[c].timer \in Timers
    BY DEF RestInv, Call
  <2>2. RemoveFrom(call[c].todo, call[c].timer) /\ UNCHANGED date
    BY <1>3 DEF LeaveModes
  <2> QED
    BY <2>1, <2>2, RemoveFromKeeps
<1>4. ASSUME NEW c \in Callers, Continue(c)
      PROVE  ModeInv' /\ (Moving /\ Steady /\ Sorted => Sorted')
  BY <1>3, <1>4, AddKeeps, MoveKeeps DEF Continue
<1>5. ASSUME LoopStep PROVE ModeInv' /\ (Sorted => Sorted')
  <2>1. CASE Receive
    <3>1. UNCHANGED <<date, modesOf>>
      BY <2>1 DEF Receive
    <3> QED
      BY <2>1, <3>1, ReceivedIs, OneModeKeeps
  <2>2. CASE CollectDue \/ SkipTimer \/ CalloutReturns
    BY <1>1, <2>2 DEF CollectDue, SkipTimer, CalloutReturns
  <2> QED
    BY <1>5, <2>1, <2>2, FireModes, EndModes, DoneModes DEF LoopStep
<1>6. ASSUME NEW m \in Modes, KernelFires(m) PROVE ModeInv' /\ (Sorted => Sorted')
  <2>1. UNCHANGED <<date, modesOf>>
    BY <1>6 DEF KernelFires
  <2> QED
    BY <1>6, <2>1, KernelIs, OneModeKeeps
<1>7. CASE Tick \/ RunReturns \/ UNCHANGED vars \/ \E m \in Modes : Run(m)
  BY <1>1, <1>7 DEF Tick, RunReturns, vars, Run
<1> QED
  BY <1>2, <1>4, <1>5, <1>6, <1>7 DEF Next

-----------------------------------------------------------------------------
(* The runs and the calls.                                                  *)

LEMMA TailIs ==
  ASSUME NEW s, Array(s), s # <<>>
  PROVE  /\ Array(Tail(s)) /\ Len(s) >= 1 /\ Head(s) = s[1] /\ Head(s) \in Timers
         /\ Head(s) \in ToSet(s)
         /\ \A t : t \in ToSet(Tail(s)) <=> t \in ToSet(s) /\ t # Head(s)
<1>1. /\ s \in Seq(Timers) /\ Len(s) \in Nat /\ Len(s) >= 1
      /\ \A i \in 1 .. Len(s) : s[i] \in Timers
  BY ToSetIs, EmptySeq DEF Array
<1>2. /\ Tail(s) \in Seq(Timers) /\ Len(Tail(s)) = Len(s) - 1
      /\ \A i \in 1 .. Len(s) - 1 : Tail(s)[i] = s[i + 1]
      /\ Head(s) = s[1]
  BY <1>1, HeadTailProperties
<1> DEFINE n == Len(s)
           r == Tail(s)
<1>3. /\ n \in Nat /\ n >= 1 /\ Len(r) = n - 1
      /\ \A i \in 1 .. n - 1 : r[i] = s[i + 1]
  BY <1>1, <1>2
<1>4. \A i, j \in 1 .. n : s[i] = s[j] => i = j
  BY DEF Array
<1> HIDE DEF n, r
<1>5. Array(r)
  <2>1. \A i, j \in 1 .. n - 1 : r[i] = r[j] => i = j
    <3> SUFFICES ASSUME NEW i \in 1 .. n - 1, NEW j \in 1 .. n - 1, r[i] = r[j]
                 PROVE  i = j
      OBVIOUS
    <3>1. i + 1 \in 1 .. n /\ j + 1 \in 1 .. n /\ s[i + 1] = s[j + 1]
      BY <1>3
    <3>2. i + 1 = j + 1
      BY <1>4, <3>1
    <3> QED
      BY <3>2
  <2> QED
    BY <1>2, <1>3, <2>1 DEF Array, r
<1>6. ASSUME NEW t
      PROVE  (\E i \in 1 .. n - 1 : r[i] = t)
               <=> (\E i \in 1 .. n : s[i] = t) /\ t # s[1]
  <2>1. ASSUME NEW i \in 1 .. n - 1, r[i] = t
        PROVE  (\E j \in 1 .. n : s[j] = t) /\ t # s[1]
    <3>1. i + 1 \in 1 .. n /\ s[i + 1] = t /\ i + 1 # 1 /\ 1 \in 1 .. n
      BY <1>3, <2>1
    <3> QED
      BY <1>4, <3>1
  <2>2. ASSUME NEW i \in 1 .. n, s[i] = t, t # s[1]
        PROVE  \E j \in 1 .. n - 1 : r[j] = t
    <3>1. i # 1
      BY <2>2
    <3>2. i - 1 \in 1 .. n - 1 /\ (i - 1) + 1 = i
      BY <1>3, <3>1
    <3>3. r[i - 1] = t
      BY <1>3, <2>2, <3>2
    <3> QED
      BY <3>2, <3>3
  <2> QED
    BY <2>1, <2>2
<1>7. /\ \A u : u \in ToSet(s) <=> \E i \in 1 .. n : s[i] = u
      /\ \A u : u \in ToSet(r) <=> \E i \in 1 .. n - 1 : r[i] = u
  BY <1>3, <1>5, ToSetIs DEF n
<1>8. 1 \in 1 .. n
  BY <1>3
<1> QED
  BY <1>1, <1>2, <1>5, <1>6, <1>7, <1>8 DEF n, r

PCs == {"wait", "woken", "due", "callout", "returned"}

LEMMA TypedFrame ==
  ASSUME NEW z \in Frame, NEW pc \in PCs, NEW due \in Arrays, NEW old \in Dates,
         NEW time \in 0 .. MaxTime, NEW handled \in BOOLEAN,
         NEW f, f = Becomes(z, pc, due, old, time, handled)
  PROVE  /\ f \in Frame /\ f.pc = pc /\ f.due = due /\ f.old = old
         /\ f.at = time /\ f.handled = handled /\ f.mode = z.mode
<1>1. f \in Frame
  BY DEF Frame, Becomes, PCs
<1> QED
  BY <1>1 DEF Frame, Becomes

TimelyAt(f, time, set) ==
  /\ f.at <= time
  /\ InCallout(f) => Len(f.due) >= 1 /\ f.old <= f.at
  /\ f.pc = "returned" /\ Interval[Head(f.due)] = 0 => Head(f.due) \notin set

StackInv ==
  /\ stack \in Seq(Frame) /\ Len(stack) <= MaxDepth
  /\ \A i \in 1 .. Len(stack) : Timely(stack[i])

\* Time goes on and timers become invalid.
LEMMA SameStack ==
  ASSUME RestInv, UNCHANGED stack, now' \in 0 .. MaxTime, now <= now',
         valid' \subseteq valid
  PROVE  StackInv'
<1>1. ASSUME NEW i \in 1 .. Len(stack), Timely(stack[i])
      PROVE  TimelyAt(stack[i], now', valid')
  <2>1. stack[i].at \in Nat /\ now \in Nat /\ now' \in Nat
    <3>1. stack[i] \in Frame
      BY ElementOfSeq DEF RestInv
    <3> QED
      BY <3>1, TimersAssumption DEF RestInv, Frame
  <2> QED
    BY <1>1, <2>1 DEF Timely, TimelyAt
<1> QED
  BY <1>1 DEF RestInv, StackInv, Timely, TimelyAt

LEMMA TopStack ==
  ASSUME RestInv, stack # <<>>, NEW f \in Frame, Top_(f), UNCHANGED now,
         valid' \subseteq valid, TimelyAt(f, now, valid')
  PROVE  StackInv'
<1>1. /\ stack \in Seq(Frame) /\ Len(stack) \in 1 .. Len(stack)
      /\ stack' = [stack EXCEPT ![Len(stack)] = f]
  BY RestTop DEF RestInv, Top_
<1>2. /\ stack' \in Seq(Frame) /\ Len(stack') = Len(stack)
      /\ \A i \in 1 .. Len(stack) :
           stack'[i] = IF i = Len(stack) THEN f ELSE stack[i]
  BY <1>1, ExceptSeq
<1>3. ASSUME NEW i \in 1 .. Len(stack) PROVE TimelyAt(stack'[i], now, valid')
  BY <1>2 DEF RestInv, Timely, TimelyAt
<1> QED
  BY <1>2, <1>3 DEF StackInv, RestInv, Timely, TimelyAt

LEMMA RunStack ==
  ASSUME RestInv, NEW m \in Modes, Run(m) PROVE StackInv'
<1> DEFINE none == <<>>
           no == FALSE
           f == [mode |-> m, pc |-> "wait", due |-> none, old |-> 0, at |-> 0,
                 handled |-> no]
<1>1. stack' = Append(stack, f) /\ UNCHANGED <<now, valid>>
      /\ Len(stack) < MaxDepth
  BY DEF Run
<1>2. none \in Arrays
  <2>1. Array(none)
    BY EmptySeq DEF Array
  <2> QED
    BY <2>1, ArraysAre
<1>3. 0 \in Dates /\ 0 \in 0 .. MaxTime /\ no \in BOOLEAN /\ 0 <= now
  BY TimersAssumption DEF Dates, RestInv
<1> HIDE DEF none, no
<1>4. f \in Frame
  BY <1>2, <1>3 DEF Frame
<1>5. TimelyAt(f, now, valid')
  BY <1>3 DEF TimelyAt, InCallout
<1> HIDE DEF f
<1>6. /\ stack' \in Seq(Frame) /\ Len(stack') = Len(stack) + 1
      /\ Len(stack) \in Nat
      /\ stack'[Len(stack) + 1] = f
      /\ \A i \in 1 .. Len(stack) : stack'[i] = stack[i]
  BY <1>1, <1>4, AppendProperties DEF RestInv
<1>7. ASSUME NEW i \in 1 .. Len(stack') PROVE TimelyAt(stack'[i], now, valid')
  <2>1. i \in 1 .. Len(stack) \/ i = Len(stack) + 1
    BY <1>6
  <2> QED
    BY <1>1, <1>5, <1>6, <2>1 DEF RestInv, Timely, TimelyAt
<1>8. Len(stack') <= MaxDepth
  BY <1>1, <1>6, TimersAssumption
<1> QED
  BY <1>1, <1>6, <1>7, <1>8 DEF StackInv, Timely, TimelyAt

LEMMA ReturnStack ==
  ASSUME RestInv, RunReturns PROVE StackInv'
<1>1. stack # <<>> /\ stack' = Front(stack) /\ UNCHANGED <<now, valid>>
  BY DEF RunReturns
<1>2. /\ stack \in Seq(Frame) /\ Len(stack) \in 1 .. Len(stack)
      /\ Len(stack) \in Nat
  BY <1>1, RestTop DEF RestInv
<1>3. /\ stack' \in Seq(Frame) /\ Len(stack') = Len(stack) - 1
      /\ \A i \in 1 .. Len(stack) - 1 : stack'[i] = stack[i]
  BY <1>1, <1>2, FrontIs
<1>4. Len(stack') <= MaxDepth
  BY <1>2, <1>3, TimersAssumption DEF RestInv
<1>5. ASSUME NEW i \in 1 .. Len(stack') PROVE TimelyAt(stack'[i], now, valid)
  BY <1>2, <1>3 DEF RestInv, Timely, TimelyAt
<1> QED
  BY <1>1, <1>3, <1>4, <1>5 DEF StackInv, Timely, TimelyAt

\* What a step of the loop's code does to the innermost run.
Moved(f) ==
  \/ Receive /\ f.pc = "woken" /\ f.handled = Top.handled
  \/ CollectDue /\ f.pc = "due" /\ f.handled = Top.handled
     /\ Picked(f.due, mode[Top.mode].timers,
               {t \in valid \ firing : date[t] <= now})
  \/ SkipTimer /\ f.pc = "due" /\ f.handled = Top.handled
     /\ f.due = Tail(Top.due)
  \/ FireTimer /\ f.pc = "callout" /\ f.handled /\ f.due = Top.due
     /\ f.old = date[Head(Top.due)] /\ f.at = now
  \/ CalloutReturns /\ f.pc = "returned" /\ f.handled = Top.handled
     /\ f.due = Top.due /\ f.old = Top.old /\ f.at = Top.at
  \/ EndTimer /\ f.pc = "due" /\ f.handled = Top.handled
  \/ TimersDone /\ f.pc = "wait" /\ ~f.handled

LEMMA LoopMoves ==
  ASSUME RestInv, ModeInv, LoopStep
  PROVE  \E f \in Frame :
           Top_(f) /\ f.mode = Top.mode /\ Moved(f) /\ f.at <= now
<1> DEFINE T == Top
           yes == TRUE
           no == FALSE
<1>1. stack # <<>>
  BY DEF LoopStep, Receive, CollectDue, FireTimer, SkipTimer, CalloutReturns,
         EndTimer, TimersDone
<1>2. /\ T \in Frame /\ Timely(T) /\ now \in 0 .. MaxTime /\ T = Top
      /\ InCallout(T) => Head(T.due) \in Timers /\ Len(T.due) >= 1
  BY <1>1, RestTop DEF RestInv
<1>3. /\ T.pc \in PCs /\ T.due \in Arrays /\ T.old \in Dates
      /\ T.at \in 0 .. MaxTime /\ T.handled \in BOOLEAN /\ T.at <= now
      /\ yes \in BOOLEAN /\ no \in BOOLEAN /\ Array(T.due) /\ now <= now
  BY <1>2, ArraysAre DEF Frame, PCs, Timely
<1>4. 0 \in Dates /\ 0 \in 0 .. MaxTime /\ 0 <= now
  BY <1>2, TimersAssumption DEF Dates
<1> HIDE DEF T, yes, no
<1>5. ASSUME NEW pc \in PCs, NEW due \in Arrays, NEW old \in Dates,
             NEW time \in {0, T.at, now}, NEW handled \in BOOLEAN,
             NEW f, f = Becomes(T, pc, due, old, time, handled)
      PROVE  /\ f \in Frame /\ f.mode = T.mode /\ f.at <= now /\ f.pc = pc
             /\ f.due = due /\ f.old = old /\ f.at = time /\ f.handled = handled
  <2>1. time \in 0 .. MaxTime /\ time <= now
    BY <1>2, <1>3, <1>4
  <2> QED
    BY <1>2, <1>5, <2>1, TypedFrame
<1>6. CASE Receive
  <2> DEFINE f == [T EXCEPT !.pc = "woken"]
  <2>1. f = Becomes(T, "woken", T.due, T.old, T.at, T.handled)
    BY <1>2 DEF Frame, Becomes
  <2>2. Top_(f) /\ "woken" \in PCs
    BY <1>2, <1>6 DEF Receive, PCs
  <2> HIDE DEF f
  <2>3. f \in Frame /\ f.mode = T.mode /\ f.at <= now /\ f.pc = "woken"
        /\ f.handled = T.handled
    BY <1>3, <1>5, <2>1, <2>2
  <2> QED
    BY <1>2, <1>6, <2>2, <2>3 DEF Moved
<1>7. CASE CollectDue
  <2>1. PICK due \in Arrays :
          /\ Picked(due, mode[T.mode].timers,
                    {t \in valid \ firing : date[t] <= now})
          /\ Top_([T EXCEPT !.pc = "due", !.due = due])
    BY <1>2, <1>7 DEF CollectDue
  <2> DEFINE f == [T EXCEPT !.pc = "due", !.due = due]
  <2>2. f = Becomes(T, "due", due, T.old, T.at, T.handled) /\ "due" \in PCs
    BY <1>2 DEF Frame, Becomes, PCs
  <2>3. Top_(f)
    BY <2>1
  <2> HIDE DEF f
  <2>4. f \in Frame /\ f.mode = T.mode /\ f.at <= now /\ f.pc = "due"
        /\ f.handled = T.handled /\ f.due = due
    BY <1>3, <1>5, <2>2
  <2> QED
    BY <1>2, <1>7, <2>1, <2>3, <2>4 DEF Moved
<1>8. CASE SkipTimer
  <2> DEFINE f == [T EXCEPT !.due = Tail(T.due)]
  <2>1. T.pc = "due" /\ Top_(f) /\ T.due # <<>> /\ "due" \in PCs
    BY <1>2, <1>8 DEF SkipTimer, PCs
  <2>2. f = Becomes(T, "due", Tail(T.due), T.old, T.at, T.handled)
    BY <1>2, <2>1 DEF Frame, Becomes
  <2>3. Tail(T.due) \in Arrays
    BY <1>3, <2>1, TailIs, ArraysAre
  <2> HIDE DEF f
  <2>4. f \in Frame /\ f.mode = T.mode /\ f.at <= now /\ f.pc = "due"
        /\ f.handled = T.handled /\ f.due = Tail(T.due)
    BY <1>3, <1>5, <2>1, <2>2, <2>3
  <2> QED
    BY <1>2, <1>8, <2>1, <2>4 DEF Moved
<1>9. CASE EndTimer
  <2> DEFINE f == [T EXCEPT !.pc = "due", !.due = Tail(T.due), !.old = 0,
                            !.at = 0]
  <2>1. Top_(f) /\ T.pc = "returned" /\ "due" \in PCs
    BY <1>2, <1>9 DEF EndTimer, PCs
  <2>2. f = Becomes(T, "due", Tail(T.due), 0, 0, T.handled)
    BY <1>2 DEF Frame, Becomes
  <2>3. Tail(T.due) \in Arrays
    <3>1. T.due # <<>>
      BY <1>2, <2>1, EmptySeq DEF InCallout
    <3> QED
      BY <1>3, <3>1, TailIs, ArraysAre
  <2> HIDE DEF f
  <2>4. f \in Frame /\ f.mode = T.mode /\ f.at <= now /\ f.pc = "due"
        /\ f.handled = T.handled
    BY <1>3, <1>4, <1>5, <2>1, <2>2, <2>3
  <2> QED
    BY <1>2, <1>9, <2>1, <2>4 DEF Moved
<1>10. CASE TimersDone
  <2> DEFINE f == [T EXCEPT !.pc = "wait", !.handled = FALSE]
  <2>1. Top_(f) /\ "wait" \in PCs
    BY <1>2, <1>10 DEF TimersDone, PCs
  <2>2. f = Becomes(T, "wait", T.due, T.old, T.at, no)
    BY <1>2 DEF Frame, Becomes, no
  <2> HIDE DEF f
  <2>3. f \in Frame /\ f.mode = T.mode /\ f.at <= now /\ f.pc = "wait"
        /\ f.handled = no
    BY <1>3, <1>5, <2>1, <2>2
  <2> QED
    BY <1>2, <1>10, <2>1, <2>3 DEF Moved, no
<1>11. CASE FireTimer
  <2> DEFINE t == Head(T.due)
             o == date[t]
             f == [T EXCEPT !.pc = "callout", !.handled = TRUE, !.old = o,
                            !.at = now]
  <2>1. T.due # <<>> /\ MayFire(t) /\ Top_(f) /\ "callout" \in PCs
    BY <1>2, <1>11 DEF FireTimer, PCs
  <2>2. f = Becomes(T, "callout", T.due, o, now, yes)
    BY <1>2 DEF Frame, Becomes, yes
  <2>3. t \in Timers
    BY <1>3, <2>1, TailIs
  <2>4. o \in Dates
    BY <2>3 DEF ModeInv
  <2> HIDE DEF f, o
  <2>5. f \in Frame /\ f.mode = T.mode /\ f.at <= now /\ f.pc = "callout"
        /\ f.due = T.due /\ f.old = o /\ f.at = now /\ f.handled = yes
    BY <1>3, <1>5, <2>1, <2>2, <2>4
  <2> QED
    BY <1>2, <1>11, <2>1, <2>5 DEF Moved, o, yes
<1>12. CASE CalloutReturns
  <2> DEFINE f == [T EXCEPT !.pc = "returned"]
  <2>1. f = Becomes(T, "returned", T.due, T.old, T.at, T.handled)
    BY <1>2 DEF Frame, Becomes
  <2>2. Top_(f) /\ "returned" \in PCs
    BY <1>2, <1>12 DEF CalloutReturns, PCs
  <2> HIDE DEF f
  <2>3. f \in Frame /\ f.mode = T.mode /\ f.at <= now /\ f.pc = "returned"
        /\ f.handled = T.handled /\ f.due = T.due /\ f.old = T.old
        /\ f.at = T.at
    BY <1>3, <1>5, <2>1, <2>2
  <2> QED
    BY <1>2, <1>12, <2>2, <2>3 DEF Moved
<1> QED
  BY <1>6, <1>7, <1>8, <1>9, <1>10, <1>11, <1>12 DEF LoopStep

LEMMA LoopStack ==
  ASSUME RestInv, ModeInv, LoopStep PROVE StackInv'
<1>1. PICK f \in Frame :
        Top_(f) /\ f.mode = Top.mode /\ Moved(f) /\ f.at <= now
  BY LoopMoves
<1>2. stack # <<>> /\ UNCHANGED now /\ valid' \subseteq valid
  BY DEF LoopStep, Receive, CollectDue, FireTimer, SkipTimer, CalloutReturns,
         EndTimer, TimersDone, BeginInvalidate
<1>3. /\ Top \in Frame /\ Timely(Top)
      /\ InCallout(Top) => Head(Top.due) \in Timers /\ Len(Top.due) >= 1
  BY <1>2, RestTop
<1>4. TimelyAt(f, now, valid')
  <2>1. CASE f.pc \in {"wait", "woken", "due"}
    BY <1>1, <2>1 DEF TimelyAt, InCallout
  <2>2. CASE FireTimer /\ f.pc = "callout" /\ f.due = Top.due
             /\ f.old = date[Head(Top.due)] /\ f.at = now
    <3>1. Array(Top.due) /\ Top.due # <<>> /\ date[Head(Top.due)] <= now
      BY <1>3, <2>2, ArraysAre DEF FireTimer, MayFire, Frame
    <3>2. Len(Top.due) >= 1
      BY <3>1, TailIs
    <3> QED
      BY <1>1, <2>2, <3>1, <3>2 DEF TimelyAt
  <2>3. CASE CalloutReturns /\ f.pc = "returned" /\ f.due = Top.due
             /\ f.old = Top.old /\ f.at = Top.at
    <3>1. Top.pc = "callout"
          /\ (Interval[Head(Top.due)] = 0 => Head(Top.due) \notin valid')
      BY <2>3 DEF CalloutReturns, BeginInvalidate
    <3> QED
      BY <1>1, <1>3, <2>3, <3>1 DEF TimelyAt, Timely, InCallout
  <2> QED
    BY <1>1, <2>1, <2>2, <2>3 DEF Moved
<1> QED
  BY <1>1, <1>2, <1>4, TopStack

LEMMA NoCallIs == NoCall \in Call /\ NoCall.op = "none" /\ NoCall.todo = {}
<1>1. (CHOOSE t \in Timers : TRUE) \in Timers
  BY TimersAssumption
<1>2. 0 \in Dates
  BY TimersAssumption DEF Dates
<1> QED
  BY <1>1, <1>2 DEF NoCall, Call, Operations

\* A call that c begins or ends.
CallInv ==
  /\ call \in [Callers -> Call] /\ lock \in Callers \cup {Free}
  /\ Moving

LEMMA NewCall ==
  ASSUME CallInv, NEW c \in Callers, NEW w \in Call,
         w.op = "set" => "set" \in Allowed[c] /\ w.todo # {},
         call' = [call EXCEPT ![c] = w], lock' \in Callers \cup {Free}
  PROVE  CallInv'
BY DEF CallInv, Moving

Begun(op, t, S) == [NoCall EXCEPT !.op = op, !.timer = t, !.todo = S]

LEMMA BegunAs ==
  ASSUME NEW op \in Operations, NEW t \in Timers, NEW S \in SUBSET Modes,
         NEW w, w = Begun(op, t, S)
  PROVE  w \in Call /\ w.op = op /\ w.todo = S
<1>1. w = [op |-> op, timer |-> t, date |-> 0, todo |-> S]
  BY DEF NoCall, Begun
<1>2. 0 \in Dates
  BY TimersAssumption DEF Dates
<1> QED
  BY <1>1, <1>2 DEF Call

LEMMA FinishKeeps ==
  ASSUME CallInv, NEW c \in Callers, NEW S, Finish(c, S),
         S = call[c].todo \/ call[c].op # "set"
  PROVE  CallInv'
<1> DEFINE v == call[c]
<1>1. v \in Call /\ Free \in Callers \cup {Free}
  BY DEF CallInv
<1>2. CASE v.todo = S
  <2>1. call' = [call EXCEPT ![c] = NoCall] /\ lock' = Free
    BY <1>2 DEF Finish
  <2> QED
    BY <2>1, NoCallIs, NewCall
<1>3. CASE v.todo # S
  <2> DEFINE rest == v.todo \ S
             x == [v EXCEPT !.todo = rest]
  <2>1. call' = [call EXCEPT ![c] = x] /\ lock' = c
    BY <1>3 DEF Finish, CallInv
  <2>2. rest \in SUBSET Modes /\ v.op # "set"
    BY <1>1, <1>3 DEF Call
  <2> HIDE DEF rest, v
  <2>3. x \in Call /\ x.op # "set"
    BY <1>1, <2>2 DEF Call
  <2> HIDE DEF x
  <2> QED
    BY <2>1, <2>3, NewCall
<1> QED
  BY <1>2, <1>3

LEMMA CallStep ==
  ASSUME ModeInv, RestInv, Moving, [Next]_vars PROVE CallInv'
<1>1. CallInv
  BY DEF RestInv, CallInv
<1>2. ASSUME UNCHANGED call, lock' \in Callers \cup {Free} PROVE CallInv'
  BY <1>1, <1>2 DEF CallInv, Moving
<1>3. lock \in Callers \cup {Free} /\ Free \in Callers \cup {Free}
      /\ LoopThread \in Callers
  BY DEF RestInv, Callers
<1>4. \A t \in Timers : modesOf[t] \in SUBSET Modes
  BY DEF ModeInv
<1>5. ASSUME NEW c \in Callers, NEW t \in Timers, NEW S \in SUBSET Modes,
             NEW op \in Operations, op # "set",
             call' = [call EXCEPT ![c] = [NoCall EXCEPT !.op = op, !.timer = t,
                                                        !.todo = S]],
             lock' \in Callers \cup {Free}
      PROVE  CallInv'
  <2> DEFINE w == [NoCall EXCEPT !.op = op, !.timer = t, !.todo = S]
  <2>1. w \in Call /\ w.op = op
    <3>1. w = Begun(op, t, S)
      BY DEF Begun
    <3> HIDE DEF w
    <3> QED
      BY <3>1, BegunAs
  <2>2. call' = [call EXCEPT ![c] = w]
    BY <1>5
  <2> HIDE DEF w
  <2> QED
    BY <1>1, <1>5, <2>1, <2>2, NewCall
<1>6. ASSUME NEW c \in Callers, NEW t \in Timers, BeginInvalidate(c, t),
             UNCHANGED lock
      PROVE  CallInv'
  <2>1. CASE modesOf[t] = {}
    BY <1>2, <1>3, <1>6, <2>1 DEF BeginInvalidate
  <2>2. CASE modesOf[t] # {}
    <3>1. call' = [call EXCEPT ![c] = [NoCall EXCEPT !.op = "invalidate",
                                         !.timer = t, !.todo = modesOf[t]]]
      BY <1>6, <2>2 DEF BeginInvalidate
    <3>2. "invalidate" \in Operations
      BY DEF Operations
    <3> QED
      BY <1>3, <1>4, <1>5, <1>6, <3>1, <3>2
  <2> QED
    BY <2>1, <2>2
<1>7. ASSUME NEW c \in Callers, Begin(c) PROVE CallInv'
  <2>1. ASSUME NEW t \in Timers, NEW m \in Modes, AddTimer(c, t, m)
        PROVE  CallInv'
    <3>1. /\ call' = [call EXCEPT ![c] = [NoCall EXCEPT !.op = "add",
                                            !.timer = t, !.todo = {m}]]
          /\ UNCHANGED lock /\ {m} \in SUBSET Modes /\ "add" \in Operations
      BY <2>1 DEF AddTimer, Operations
    <3> QED
      BY <1>3, <1>5, <3>1
  <2>2. ASSUME NEW t \in Timers, AddToCommonModes(c, t) PROVE CallInv'
    <3>1. /\ call' = [call EXCEPT ![c] = [NoCall EXCEPT !.op = "common",
                                            !.timer = t, !.todo = Modes]]
          /\ lock' = c /\ Modes \in SUBSET Modes /\ "common" \in Operations
      BY <2>2 DEF AddToCommonModes, Operations
    <3> QED
      BY <1>3, <1>5, <3>1
  <2>3. ASSUME NEW t \in Timers, NEW m \in Modes, RemoveTimer(c, t, m)
        PROVE  CallInv'
    BY <1>2, <1>3, <2>3 DEF RemoveTimer
  <2>4. ASSUME NEW t \in Timers, TimerInvalidate(c, t) PROVE CallInv'
    BY <1>6, <2>4 DEF TimerInvalidate
  <2>5. ASSUME NEW t \in Timers, NEW d \in 0 .. MaxTime, SetNextFireDate(c, t, d)
        PROVE  CallInv'
    <3>1. CASE modesOf[t] = {}
      BY <1>2, <1>3, <2>5, <3>1 DEF SetNextFireDate
    <3>2. CASE modesOf[t] # {}
      <4> DEFINE e == Later(now, d)
                 S == modesOf[t]
                 w == [op |-> "set", timer |-> t, date |-> e, todo |-> S]
      <4>1. call' = [call EXCEPT ![c] = w] /\ UNCHANGED lock
            /\ "set" \in Allowed[c]
        BY <2>5, <3>2 DEF SetNextFireDate
      <4>2. e \in Dates /\ S \in SUBSET Modes /\ S # {}
        BY <1>4, <3>2, TimersAssumption DEF RestInv, Later, Dates
      <4> HIDE DEF e, S
      <4>3. w \in Call /\ w.todo = S
        BY <4>2 DEF Call, Operations
      <4> HIDE DEF w
      <4> QED
        BY <1>1, <1>3, <4>1, <4>2, <4>3, NewCall
    <3> QED
      BY <3>1, <3>2
  <2> QED
    BY <1>7, <2>1, <2>2, <2>3, <2>4, <2>5 DEF Begin
<1>8. ASSUME NEW c \in Callers, Continue(c) PROVE CallInv'
  <2>1. ASSUME NEW m \in Modes, AddToMode(c, m) PROVE CallInv'
    <3>1. Finish(c, {m}) /\ call[c].op # "set"
      BY <2>1 DEF AddToMode
    <3> QED
      BY <1>1, <3>1, FinishKeeps
  <2>2. CASE SetDate(c)
    <3>1. Finish(c, call[c].todo)
      BY <2>2 DEF SetDate
    <3> QED
      BY <1>1, <3>1, FinishKeeps
  <2>3. CASE LeaveModes(c)
    <3>1. Finish(c, call[c].todo)
      BY <2>3 DEF LeaveModes
    <3> QED
      BY <1>1, <3>1, FinishKeeps
  <2> QED
    BY <1>8, <2>1, <2>2, <2>3 DEF Continue
<1>9. CASE LoopStep
  <2>1. CASE CalloutReturns
    <3>1. UNCHANGED lock
      BY <2>1 DEF CalloutReturns
    <3>2. CASE UNCHANGED call
      BY <1>2, <1>3, <3>1, <3>2
    <3>3. CASE BeginInvalidate(LoopThread, Head(Top.due))
      <4>1. Head(Top.due) \in Timers
        BY <2>1, RestTop DEF CalloutReturns, InCallout
      <4> QED
        BY <1>3, <1>6, <3>1, <3>3, <4>1
    <3> QED
      BY <2>1, <3>2, <3>3 DEF CalloutReturns
  <2>2. CASE ~CalloutReturns
    <3>1. UNCHANGED call /\ lock' \in {lock, Free, LoopThread}
      BY <1>9, <2>2 DEF LoopStep, Receive, CollectDue, FireTimer, SkipTimer,
                        EndTimer, TimersDone
    <3> QED
      BY <1>2, <1>3, <3>1
  <2> QED
    BY <2>1, <2>2
<1>10. CASE \/ \E m \in Modes : Run(m) \/ KernelFires(m)
            \/ RunReturns \/ Tick \/ UNCHANGED vars
  BY <1>2, <1>3, <1>10 DEF Run, KernelFires, RunReturns, Tick, vars
<1> QED
  BY <1>7, <1>8, <1>9, <1>10 DEF Next

LEMMA RestStep ==
  ASSUME ModeInv, RestInv, Moving, [Next]_vars PROVE RestInv' /\ Moving'
<1>1. CallInv'
  BY CallStep
<1>2. /\ now' \in 0 .. MaxTime /\ now <= now' /\ valid' \subseteq valid
      /\ firing' \subseteq Timers
  <2>1. now' = now \/ (now < MaxTime /\ now' = now + 1)
    BY DEF Next, Begin, Continue, LoopStep, Run, RunReturns, KernelFires, Tick,
       vars, AddTimer, RemoveTimer, AddToCommonModes, TimerInvalidate,
       SetNextFireDate, AddToMode, SetDate, LeaveModes, Receive, CollectDue,
       FireTimer, SkipTimer, CalloutReturns, EndTimer, TimersDone
  <2>2. valid' \subseteq valid
    BY DEF Next, Begin, Continue, LoopStep, Run, RunReturns, KernelFires, Tick,
       vars, AddTimer, RemoveTimer, AddToCommonModes, TimerInvalidate,
       SetNextFireDate, AddToMode, SetDate, LeaveModes, Receive, CollectDue,
       FireTimer, SkipTimer, CalloutReturns, EndTimer, TimersDone,
       BeginInvalidate
  <2>3. firing' \subseteq firing \cup valid
    BY DEF Next, Begin, Continue, LoopStep, Run, RunReturns, KernelFires, Tick,
       vars, AddTimer, RemoveTimer, AddToCommonModes, TimerInvalidate,
       SetNextFireDate, AddToMode, SetDate, LeaveModes, Receive, CollectDue,
       FireTimer, FiringWith, MayFire, SkipTimer, CalloutReturns, EndTimer,
       TimersDone
  <2> QED
    BY <2>1, <2>2, <2>3, TimersAssumption DEF RestInv
<1>3. StackInv'
  <2>1. CASE LoopStep
    BY <2>1, LoopStack
  <2>2. CASE RunReturns
    BY <2>2, ReturnStack
  <2>3. CASE \E m \in Modes : Run(m)
    BY <2>3, RunStack
  <2>4. CASE UNCHANGED stack
    BY <1>2, <2>4, SameStack
  <2> QED
    BY <2>1, <2>2, <2>3, <2>4 DEF Next, Begin, Continue, KernelFires, Tick,
       vars, AddTimer, RemoveTimer, AddToCommonModes, TimerInvalidate,
       SetNextFireDate, AddToMode, SetDate, LeaveModes
<1> QED
  BY <1>1, <1>2, <1>3 DEF RestInv, CallInv, StackInv

TimersInv == ModeInv /\ RestInv /\ Moving

LEMMA TimersInit == Init => TimersInv /\ Sorted
<1> SUFFICES ASSUME Init PROVE TimersInv /\ Sorted
  OBVIOUS
<1> DEFINE none == <<>>
           no == FALSE
           M == [timers |-> none, limits |-> Disarmed, armed |-> Disarmed,
                 ready |-> no, spent |-> no]
<1>1. /\ mode = [m \in Modes |-> M] /\ modesOf = [t \in Timers |-> {}]
      /\ date \in [Timers -> FirstDates] /\ now = 0 /\ valid = Timers
      /\ firing = {} /\ lock = Free /\ stack = <<>>
      /\ call = [c \in Callers |-> NoCall]
  BY DEF Init
<1>2. Array(none) /\ Len(none) = 0 /\ no \in BOOLEAN
  BY EmptySeq DEF Array
<1>3. none \in Arrays /\ \A t : t \notin ToSet(none)
  BY <1>2, ArraysAre, ToSetIs
<1>4. \A d : Ordered(none, d)
  BY <1>2 DEF Ordered
<1> HIDE DEF none, no
<1>5. M \in Mode /\ M.timers = none
  BY <1>2, <1>3, DisarmedIs DEF Mode
<1> HIDE DEF M
<1>6. date \in [Timers -> Dates]
  BY <1>1, TimersAssumption DEF Dates
<1>7. ModeInv /\ Sorted
  BY <1>1, <1>3, <1>4, <1>5, <1>6 DEF ModeInv, Members, Sorted
<1>8. stack \in Seq(Frame) /\ Len(stack) = 0
  BY <1>1, EmptySeq
<1>9. RestInv
  BY <1>1, <1>8, NoCallIs, TimersAssumption DEF RestInv
<1>10. Moving
  BY <1>1, NoCallIs DEF Moving
<1> QED
  BY <1>7, <1>9, <1>10 DEF TimersInv

LEMMA TimersStep == TimersInv /\ [Next]_vars => TimersInv'
BY ModeStep, RestStep DEF TimersInv

LEMMA TimersInvGivesTypes == TimersInv => TypeOK
<1> SUFFICES ASSUME TimersInv PROVE TypeOK
  OBVIOUS
<1>1. DOMAIN mode = Modes
  BY DEF TimersInv, ModeInv
<1>2. DOMAIN stack = 1 .. Len(stack) /\ \A i \in DOMAIN stack : stack[i] \in Frame
  BY LenProperties, ElementOfSeq DEF TimersInv, RestInv
<1> QED
  BY <1>1, <1>2 DEF TimersInv, ModeInv, RestInv, TypeOK

\* Whatever the timers and the modes are, and whoever calls: the variables keep
\* their types.  No date is past the last one: what a timer that repeats gets
\* after a callout is computed without overflow.
THEOREM TimerTypes == Spec => []TypeOK
BY TimersInit, TimersStep, TimersInvGivesTypes, PTL DEF Spec

\* The array of each mode stays in the order of fire dates and has just the
\* timers that are in the mode, however the calls of other threads, the
\* callouts and the repetitions are interleaved.
THEOREM ArraysStaySorted == ASSUME Steady PROVE Spec => []ArraysSorted
<1>1. TimersInv /\ Sorted => ArraysSorted
  <2> SUFFICES ASSUME TimersInv, Sorted PROVE ArraysSorted
    OBVIOUS
  <2>1. TypeOK /\ DOMAIN mode = Modes
    BY TimersInvGivesTypes DEF TimersInv, ModeInv
  <2>2. ASSUME NEW m \in Modes
        PROVE  /\ DOMAIN mode[m].timers = 1 .. Len(mode[m].timers)
               /\ Ordered(mode[m].timers, date)
    BY ModeFields, ToSetIs DEF TimersInv, Sorted
  <2>3. Members
    BY DEF TimersInv, ModeInv
  <2> QED
    BY <2>1, <2>2, <2>3 DEF ArraysSorted, Ordered, Members
<1>2. TimersInv /\ Sorted /\ [Next]_vars => TimersInv' /\ Sorted'
  BY TimersStep, ModeStep DEF TimersInv
<1> QED
  BY <1>1, <1>2, TimersInit, PTL DEF Spec

-----------------------------------------------------------------------------
(* What is armed.                                                           *)

\* What the kernel was asked for are the deadlines, or nothing.
ArmsOwn(M) == M.armed \in {M.limits, Disarmed}

\* The hard deadline is that of every timer that can fire.
Covers(M, v, F, d) ==
  ToSet(M.timers) \subseteq v =>
    \A t \in ToSet(M.timers) \ F : M.limits.hard <= Hard(t, d)

\* A mode that becomes R is armed, or what is known of it stays.
Kept(R, M) ==
  \/ R.armed = R.limits
  \/ /\ R.armed = M.armed /\ R.limits = M.limits
     /\ R.ready = M.ready /\ R.spent = M.spent

LEMMA CoversElsewhere ==
  ASSUME NEW M, NEW v, NEW F, NEW d, Covers(M, v, F, d),
         NEW w \in SUBSET v, NEW G, NEW e,
         \A u \in ToSet(M.timers) : d[u] = e[u] /\ (u \in F => u \in G)
  PROVE  Covers(M, w, G, e)
<1> SUFFICES ASSUME ToSet(M.timers) \subseteq w, NEW t \in ToSet(M.timers) \ G
             PROVE  M.limits.hard <= Hard(t, e)
  BY DEF Covers
<1>1. M.limits.hard <= Hard(t, d)
  BY DEF Covers
<1>2. Hard(t, d) = Hard(t, e)
  BY DEF Hard
<1> QED
  BY <1>1, <1>2

LEMMA ArmCovers ==
  ASSUME NEW M \in Mode, NEW s, Array(s), NEW d \in [Timers -> Dates], NEW F,
         Ordered(s, d), NEW R, R = ArmNext(M, s, d, F), NEW v
  PROVE  Covers(R, v, F, d) /\ Kept(R, M)
<1> DEFINE L == Deadlines[Scanned(s, d, F)]
<1>1. /\ R \in Mode /\ R.timers = s /\ R.limits = L
      /\ R.armed = IF L.soft = Never THEN Disarmed
                   ELSE IF L = M.limits THEN M.armed ELSE L
      /\ R.ready = M.ready /\ R.spent = M.spent
  <2> DEFINE K == L
  <2>1. K = Deadlines[Scanned(s, d, F)]
    OBVIOUS
  <2> HIDE DEF K
  <2>2. /\ R \in Mode /\ R.timers = s /\ R.limits = K
        /\ R.armed = IF K.soft = Never THEN Disarmed
                     ELSE IF K = M.limits THEN M.armed ELSE K
        /\ R.ready = M.ready /\ R.spent = M.spent
    BY <2>1, Arming
  <2> QED
    BY <2>2 DEF K
<1>2. /\ \A i \in Idle(s, F) : L.hard <= Hard(s[i], d)
      /\ L = Disarmed \/ \E i \in Idle(s, F) : L.soft = d[s[i]]
  BY ScanIsRight
<1> HIDE DEF L
<1>3. ASSUME NEW t \in ToSet(s) \ F PROVE L.hard <= Hard(t, d)
  <2>1. PICK i \in 1 .. Len(s) : s[i] = t
    BY ToSetIs
  <2>2. i \in Idle(s, F)
    BY <2>1, ToSetIs DEF Idle
  <2> QED
    BY <1>2, <2>1, <2>2
<1>4. Covers(R, v, F, d)
  BY <1>1, <1>3 DEF Covers
<1>5. L.soft = Never => L = Disarmed
  <2> SUFFICES ASSUME L.soft = Never, NEW i \in Idle(s, F), L.soft = d[s[i]]
               PROVE  FALSE
    BY <1>2
  <2>1. s[i] \in Timers
    BY ScannedIs
  <2> QED
    BY <2>1, HardIs
<1>6. Kept(R, M)
  BY <1>1, <1>5 DEF Kept
<1> QED
  BY <1>4, <1>6

\* A mode that is armed anew, as the deadlines were reset.
LEMMA ArmForgotten ==
  ASSUME NEW M \in Mode, NEW d \in [Timers -> Dates], NEW F,
         Ordered(M.timers, d),
         NEW R, R = ArmNext(ForgetLimits(M), M.timers, d, F), NEW v
  PROVE  Covers(R, v, F, d) /\ R.armed = R.limits
<1> DEFINE N == ForgetLimits(M)
           s == M.timers
           L == Deadlines[Scanned(s, d, F)]
<1>1. N \in Mode /\ N.limits = Disarmed /\ Array(s)
  BY ForgottenIs, ArraysAre DEF Mode
<1>2. R = ArmNext(N, s, d, F) /\ Ordered(s, d)
  OBVIOUS
<1> HIDE DEF N, s
<1>3. Covers(R, v, F, d)
  BY <1>1, <1>2, ArmCovers
<1>4. R.limits = L /\ R.armed = IF L.soft = Never THEN Disarmed
                                ELSE IF L = N.limits THEN N.armed ELSE L
  BY <1>1, <1>2, Arming
<1>5. /\ L \in Limits
      /\ L = Disarmed \/ \E i \in Idle(s, F) : L.soft = d[s[i]]
  BY <1>1, ScanIsRight
<1>6. L.soft = Never => L = Disarmed
  <2> HIDE DEF L
  <2> SUFFICES ASSUME L.soft = Never, NEW i \in Idle(s, F), L.soft = d[s[i]]
               PROVE  FALSE
    BY <1>5
  <2>1. s[i] \in Timers
    BY <1>1, ScannedIs
  <2> QED
    BY <2>1, HardIs
<1>7. L = Disarmed => L.soft = Never
  BY DEF Disarmed
<1> HIDE DEF L
<1> QED
  BY <1>1, <1>3, <1>4, <1>6, <1>7

\* The properties of a step's effect on the modes.
Arms ==
  \A m \in Modes :
    Kept(mode'[m], mode[m]) /\ Covers(mode'[m], valid', firing', date')

Covered == \A m \in Modes : Covers(mode[m], valid, firing, date)

LEMMA SameArms ==
  ASSUME Covered, UNCHANGED <<mode, date, firing>>, valid' \subseteq valid
  PROVE  Arms
<1> SUFFICES ASSUME NEW m \in Modes
             PROVE  /\ Kept(mode[m], mode[m])
                    /\ Covers(mode[m], valid', firing, date)
  BY DEF Arms
<1>1. Covers(mode[m], valid, firing, date)
  BY DEF Covered
<1> QED
  BY <1>1 DEF Kept, Covers

LEMMA RepositionArms ==
  ASSUME ModeInv, Sorted, Covered, NEW t \in Timers,
         NEW S \in SUBSET Modes, modesOf[t] \subseteq S,
         NEW e \in [Timers -> Dates], \A u \in Timers : u = t \/ date[u] = e[u],
         date' = e, NEW F, firing' = F, firing \ {t} \subseteq F,
         valid' \subseteq valid, RepositionIn(S, t, e, F)
  PROVE  Arms
<1> SUFFICES ASSUME NEW m \in Modes
             PROVE  Kept(mode'[m], mode[m]) /\ Covers(mode'[m], valid', F, e)
  BY DEF Arms
<1> DEFINE M == mode[m]
           R == Reposition(M, t, e, F)
<1>1. mode'[m] = IF m \in S THEN R ELSE M
  BY DEF RepositionIn
<1>2. M \in Mode /\ date \in [Timers -> Dates] /\ Ordered(M.timers, date)
      /\ \A u \in ToSet(M.timers) : u \in Timers
  BY ModeFields DEF ModeInv, Sorted
<1>3. CASE Has(M, t)
  <2>1. m \in S
    BY <1>3 DEF ModeInv, Members, Has
  <2>2. /\ R \in Mode /\ Ordered(R.timers, e) /\ R = ArmNext(M, R.timers, e, F)
    <3> HIDE DEF M
    <3> QED
      BY <1>2, <1>3, RepositionIs
  <2> HIDE DEF R
  <2>3. Array(R.timers)
    BY <2>2, ArraysAre DEF Mode
  <2>4. Covers(R, valid', F, e) /\ Kept(R, M)
    <3> DEFINE s == R.timers
               v == valid'
    <3>1. Array(s) /\ Ordered(s, e) /\ R = ArmNext(M, s, e, F)
      BY <2>2, <2>3
    <3> HIDE DEF s, M, v
    <3>2. Covers(R, v, F, e) /\ Kept(R, M)
      BY <1>2, <3>1, ArmCovers
    <3> QED
      BY <3>2 DEF v
  <2> QED
    BY <1>1, <2>1, <2>4
<1>4. CASE ~Has(M, t)
  <2>1. mode'[m] = M
    BY <1>1, <1>4 DEF Reposition
  <2>2. Covers(M, valid, firing, date)
    BY DEF Covered
  <2>3. \A u \in ToSet(M.timers) : date[u] = e[u] /\ (u \in firing => u \in F)
    BY <1>2, <1>4 DEF Has
  <2>4. Covers(M, valid', F, e)
    <3> DEFINE v == valid'
    <3>1. v \in SUBSET valid
      OBVIOUS
    <3> HIDE DEF v, M
    <3>2. Covers(M, v, F, e)
      BY <2>2, <2>3, <3>1, CoversElsewhere
    <3> QED
      BY <3>2 DEF v
  <2> QED
    BY <2>1, <2>4 DEF Kept
<1> QED
  BY <1>3, <1>4

\* The mode m is armed for its array s, the others are left alone.
LEMMA ArmsIn ==
  ASSUME ModeInv, Covered, NEW S \in SUBSET Modes,
         UNCHANGED <<date, firing, valid>>,
         \A m \in Modes \ S : mode'[m] = mode[m],
         \A m \in S :
           \E s : /\ Array(s) /\ Ordered(s, date)
                  /\ mode'[m] = ArmNext(mode[m], s, date, firing)
  PROVE  Arms
<1> SUFFICES ASSUME NEW m \in Modes
             PROVE  /\ Kept(mode'[m], mode[m])
                    /\ Covers(mode'[m], valid, firing, date)
  BY DEF Arms
<1>1. CASE m \in S
  <2>1. PICK s : /\ Array(s) /\ Ordered(s, date)
                 /\ mode'[m] = ArmNext(mode[m], s, date, firing)
    BY <1>1
  <2>2. mode[m] \in Mode /\ date \in [Timers -> Dates]
    BY DEF ModeInv
  <2> DEFINE R == mode'[m]
  <2>3. R = ArmNext(mode[m], s, date, firing)
    BY <2>1
  <2> HIDE DEF R
  <2>4. Covers(R, valid, firing, date) /\ Kept(R, mode[m])
    BY <2>1, <2>2, <2>3, ArmCovers
  <2> QED
    BY <2>4 DEF R
<1>2. CASE m \notin S
  BY <1>2 DEF Covered, Kept
<1> QED
  BY <1>1, <1>2

LEMMA RemoveArms ==
  ASSUME ModeInv, Sorted, Covered, NEW S \in SUBSET Modes, NEW t \in Timers,
         RemoveFrom(S, t), UNCHANGED <<date, firing, valid>>
  PROVE  Arms
<1> DEFINE found == {m \in S : Has(mode[m], t)}
<1>1. mode' = [m \in Modes |->
                 IF m \in found
                   THEN ArmNext(mode[m], Without(mode[m], t), date, firing)
                   ELSE mode[m]]
  BY DEF RemoveFrom
<1>2. found \in SUBSET Modes /\ \A m \in found : Has(mode[m], t)
  OBVIOUS
<1> HIDE DEF found
<1>3. ASSUME NEW m \in found
      PROVE  \E s : /\ Array(s) /\ Ordered(s, date)
                    /\ mode'[m] = ArmNext(mode[m], s, date, firing)
  <2> DEFINE s == Without(mode[m], t)
  <2>1. mode[m] \in Mode /\ Has(mode[m], t) /\ date \in [Timers -> Dates]
        /\ Ordered(mode[m].timers, date)
    BY <1>2 DEF ModeInv, Sorted
  <2>2. Array(s) /\ Ordered(s, date)
    BY <2>1, Leaving
  <2>3. mode'[m] = ArmNext(mode[m], s, date, firing)
    BY <1>1, <1>2
  <2> HIDE DEF s
  <2> QED
    BY <2>2, <2>3
<1>4. \A m \in Modes \ found : mode'[m] = mode[m]
  BY <1>1
<1> QED
  BY <1>2, <1>3, <1>4, ArmsIn

LEMMA AddArms ==
  ASSUME ModeInv, RestInv, Sorted, Covered, NEW c \in Callers, NEW m \in Modes,
         AddToMode(c, m)
  PROVE  Arms
<1> DEFINE t == call[c].timer
           R == Insert(mode[m], mode[m].timers, t, date, firing)
<1>1. t \in Timers /\ UNCHANGED <<date, firing, valid>>
  BY DEF RestInv, Call, AddToMode
<1>2. CASE UNCHANGED mode
  BY <1>1, <1>2, SameArms
<1>3. CASE m \notin modesOf[t] /\ mode' = [mode EXCEPT ![m] = R]
  <2> HIDE DEF t
  <2>1. /\ mode[m] \in Mode /\ Array(mode[m].timers)
        /\ date \in [Timers -> Dates] /\ Ordered(mode[m].timers, date)
        /\ t \notin ToSet(mode[m].timers)
    BY <1>1, <1>3, ModeFields DEF ModeInv, Sorted, Members
  <2>2. /\ R \in Mode /\ Ordered(R.timers, date)
        /\ R = ArmNext(mode[m], R.timers, date, firing)
    BY <1>1, <2>1, InsertIs
  <2> HIDE DEF R
  <2>3. Array(R.timers)
    BY <2>2, ArraysAre DEF Mode
  <2>4. /\ mode'[m] = R
        /\ \A n \in Modes \ {m} : mode'[n] = mode[n]
    BY <1>3 DEF ModeInv
  <2>5. \E s : /\ Array(s) /\ Ordered(s, date)
               /\ mode'[m] = ArmNext(mode[m], s, date, firing)
    <3> DEFINE s == R.timers
    <3>1. /\ Array(s) /\ Ordered(s, date)
          /\ mode'[m] = ArmNext(mode[m], s, date, firing)
      BY <2>2, <2>3, <2>4
    <3> HIDE DEF s
    <3> QED
      BY <3>1
  <2>6. {m} \in SUBSET Modes
    OBVIOUS
  <2> QED
    BY <1>1, <2>4, <2>5, <2>6, ArmsIn
<1> QED
  BY <1>2, <1>3 DEF AddToMode

LEMMA SetArms ==
  ASSUME ModeInv, RestInv, Covered, NEW c \in Callers, NEW t \in Timers,
         NEW d \in 0 .. MaxTime, SetNextFireDate(c, t, d)
  PROVE  Arms
<1>1. UNCHANGED <<mode, firing, valid>>
  BY DEF SetNextFireDate
<1>2. CASE UNCHANGED date
  BY <1>1, <1>2, SameArms
<1>3. CASE modesOf[t] = {} /\ date' = [date EXCEPT ![t] = Later(now, d)]
  <2> SUFFICES ASSUME NEW m \in Modes
               PROVE  /\ Kept(mode[m], mode[m])
                      /\ Covers(mode[m], valid, firing, date')
    BY <1>1 DEF Arms
  <2> DEFINE e == date'
  <2>1. Covers(mode[m], valid, firing, date)
    BY DEF Covered
  <2>2. \A u \in ToSet(mode[m].timers) : date[u] = e[u]
    <3>1. t \notin ToSet(mode[m].timers)
      BY <1>3 DEF ModeInv, Members
    <3>2. \A u \in ToSet(mode[m].timers) : u \in Timers
      BY ModeFields
    <3> QED
      BY <1>3, <3>1, <3>2 DEF ModeInv
  <2> HIDE DEF e
  <2>3. Covers(mode[m], valid, firing, e)
    BY <2>1, <2>2, CoversElsewhere
  <2> QED
    BY <2>3 DEF Kept, e
<1> QED
  BY <1>2, <1>3 DEF SetNextFireDate

LEMMA MoveArms ==
  ASSUME ModeInv, RestInv, Moving, Steady, Sorted, Covered,
         NEW c \in Callers, SetDate(c)
  PROVE  Arms
<1> DEFINE w == call[c]
           e == [date EXCEPT ![w.timer] = w.date]
<1>1. /\ w.op = "set" /\ date' = e /\ UNCHANGED <<modesOf, firing, valid>>
      /\ RepositionIn(w.todo, w.timer, e, firing)
  BY DEF SetDate
<1>2. w \in Call
  BY DEF RestInv
<1>3. "set" \in Allowed[c] /\ w.todo # {}
  BY <1>1 DEF Moving
<1> HIDE DEF w
<1>4. w.timer \in Timers /\ w.date \in Dates /\ w.todo \in SUBSET Modes
  BY <1>2 DEF Call
<1>5. /\ e \in [Timers -> Dates]
      /\ \A u \in Timers : u = w.timer \/ date[u] = e[u]
  BY <1>4 DEF ModeInv
<1>6. modesOf[w.timer] \subseteq w.todo
  <2>1. \A m, n \in Modes : m = n
    BY <1>3 DEF Steady
  <2>2. modesOf[w.timer] \subseteq Modes
    BY <1>4 DEF ModeInv
  <2> QED
    BY <1>3, <1>4, <2>1, <2>2
<1> HIDE DEF e
<1> DEFINE F == firing
<1>7. firing' = F /\ firing \ {w.timer} \subseteq F /\ valid' \subseteq valid
      /\ RepositionIn(w.todo, w.timer, e, F)
  BY <1>1
<1> HIDE DEF F
<1> QED
  BY <1>1, <1>4, <1>5, <1>6, <1>7, RepositionArms

LEMMA FireArms ==
  ASSUME ModeInv, RestInv, Sorted, Covered, FireTimer
  PROVE  /\ Arms
         /\ mode'[Top.mode].armed = mode'[Top.mode].limits
         /\ \A n \in Modes : n # Top.mode => mode'[n] = mode[n]
<1> DEFINE m == Top.mode
           M == mode[m]
           R == mode'[m]
           F == firing'
<1>1. m \in Modes
  BY RestTop DEF FireTimer, Frame
<1>2. UNCHANGED <<date, valid>> /\ firing \subseteq F
      /\ mode' = [mode EXCEPT ![m] = ArmNext(ForgetLimits(@), @.timers, date,
                                             firing')]
  BY DEF FireTimer, FiringWith
<1> HIDE DEF m
<1>3. R = ArmNext(ForgetLimits(M), M.timers, date, F)
      /\ \A n \in Modes \ {m} : mode'[n] = mode[n]
  BY <1>1, <1>2 DEF ModeInv
<1>4. M \in Mode /\ Ordered(M.timers, date) /\ date \in [Timers -> Dates]
  BY <1>1 DEF ModeInv, Sorted
<1> HIDE DEF M, R, F
<1>5. Covers(R, valid, F, date) /\ R.armed = R.limits
  BY <1>3, <1>4, ArmForgotten
<1>6. ASSUME NEW n \in Modes, n # m PROVE Covers(mode[n], valid, F, date)
  <2>1. Covers(mode[n], valid, firing, date)
    BY DEF Covered
  <2> QED
    BY <1>2, <2>1, CoversElsewhere
<1>7. Arms
  BY <1>2, <1>3, <1>5, <1>6 DEF Arms, Kept, R, F
<1> QED
  BY <1>3, <1>5, <1>7 DEF R, m

\* The timer that was called had not been moved by its callout, or it is in
\* one mode at most.
Returns(t) ==
  (\A c \in Callers : "set" \notin Allowed[c]) => date[t] <= Top.old

LEMMA EndArms ==
  ASSUME ModeInv, RestInv, Steady, Sorted, Covered, EndTimer,
         Returns(Head(Top.due))
  PROVE  Arms
<1> DEFINE t == Head(Top.due)
           F == firing'
           v == valid'
<1>1. stack # <<>> /\ Top.pc = "returned" /\ UNCHANGED <<modesOf, valid>>
      /\ F = firing \ {t}
  BY DEF EndTimer
<1>2. t \in Timers /\ Top.mode \in Modes /\ Top.old \in Dates /\ Top.old <= now
      /\ (t \in valid => Interval[t] # 0)
  BY ReturnedIs
<1>3. ASSUME NEW m \in Modes, ~Has(mode[m], t)
      PROVE  Covers(mode[m], valid, F, date)
  <2>1. Covers(mode[m], valid, firing, date)
    BY DEF Covered
  <2>2. \A u \in ToSet(mode[m].timers) : u \in firing => u \in F
    BY <1>1, <1>3 DEF Has
  <2> HIDE DEF F
  <2> QED
    BY <2>1, <2>2, CoversElsewhere
<1>4. CASE t \notin valid /\ UNCHANGED <<date, mode>>
  <2>1. ASSUME NEW m \in Modes, Has(mode[m], t)
        PROVE  Covers(mode[m], valid, F, date)
    BY <1>4, <2>1 DEF Covers, Has
  <2> QED
    BY <1>1, <1>3, <1>4, <2>1 DEF Arms, Kept
<1>5. CASE t \in valid /\ Top.old < date[t] /\ HonorLaterDate(t)
  <2> DEFINE m == Top.mode
             M == mode[m]
             R == mode'[m]
  <2>1. \A n \in Modes : n = m
    <3>1. ~(date[t] <= Top.old)
      <4>1. date[t] \in Nat /\ Top.old \in Nat
        BY <1>2, HardIs, TimersAssumption DEF ModeInv, Dates
      <4> QED
        BY <1>5, <4>1
    <3>2. \A n, k \in Modes : n = k
      BY <3>1 DEF Steady, Returns
    <3> QED
      BY <1>2, <3>2
  <2>2. /\ mode' = [mode EXCEPT ![m] = ArmNext(@, @.timers, date, firing')]
        /\ UNCHANGED date
    BY <1>5 DEF HonorLaterDate
  <2>3. R = ArmNext(M, M.timers, date, F)
    BY <1>2, <2>2 DEF ModeInv
  <2>4. M \in Mode /\ Array(M.timers) /\ Ordered(M.timers, date)
        /\ date \in [Timers -> Dates]
    BY <1>2, ModeFields DEF ModeInv, Sorted
  <2>5. Covers(R, valid, F, date) /\ Kept(R, M)
    <3> HIDE DEF R, M, F
    <3> QED
      BY <2>3, <2>4, ArmCovers
  <2> QED
    BY <1>1, <2>1, <2>2, <2>5 DEF Arms
<1>6. CASE t \in valid /\ Repeat(t)
  <2> DEFINE e == [date EXCEPT ![t] = NextDate(t, Top.old)]
  <2>1. date' = e /\ RepositionIn(modesOf[t], t, e, F)
    BY <1>6 DEF Repeat
  <2> HIDE DEF t, F
  <2>2. NextDate(t, Top.old) \in Dates
    BY <1>2, <1>6, NextDateIs
  <2>3. /\ e \in [Timers -> Dates] /\ modesOf[t] \in SUBSET Modes
        /\ \A u \in Timers : u = t \/ date[u] = e[u]
    BY <1>2, <2>2 DEF ModeInv
  <2>4. firing' = F /\ firing \ {t} \subseteq F /\ valid' \subseteq valid
    BY <1>1 DEF F
  <2> HIDE DEF e
  <2> QED
    BY <1>2, <2>1, <2>3, <2>4, RepositionArms
<1> QED
  BY <1>4, <1>5, <1>6 DEF EndTimer

-----------------------------------------------------------------------------
(* The runs, again: where the loop's thread is, and the lock.               *)

NoSets == \A c \in Callers : "set" \notin Allowed[c]

\* The runs below the innermost one are in callouts.
Nested(s) == \A i \in 1 .. Len(s) : i < Len(s) => s[i].pc = "callout"

Flags(f) ==
  /\ f.pc \in {"wait", "woken"} => ~f.handled
  /\ InCallout(f) => f.handled

\* The date of a timer that is called stays, if no thread moves timers.
Unmoved(f, d) == NoSets /\ InCallout(f) => d[Head(f.due)] <= f.old

Within == {"wait", "woken", "due"}

Runs ==
  /\ Nested(stack)
  /\ \A i \in 1 .. Len(stack) : Flags(stack[i]) /\ Unmoved(stack[i], date)
  /\ stack # <<>> /\ Top.pc \in Within => call[LoopThread].op = "none"
  /\ stack # <<>> /\ Top.pc = "due" => lock = LoopThread

\* The innermost run becomes f.
LEMMA TopRuns ==
  ASSUME RestInv, Runs, stack # <<>>, NEW f, Top_(f), NEW d, date' = d,
         Flags(f), Unmoved(f, d),
         \A i \in 1 .. Len(stack) :
           i # Len(stack) => Unmoved(stack[i], d),
         f.pc \in Within => call'[LoopThread].op = "none",
         f.pc = "due" => lock' = LoopThread
  PROVE  Runs' /\ stack' # <<>> /\ Top' = f
<1>1. /\ stack \in Seq(Frame) /\ Len(stack) \in 1 .. Len(stack)
      /\ stack' = [stack EXCEPT ![Len(stack)] = f]
  BY RestTop DEF RestInv, Top_
<1>2. /\ stack \in Seq(Frame \cup {f}) /\ f \in Frame \cup {f}
  BY <1>1, SeqMonotonic
<1>3. /\ stack' \in Seq(Frame \cup {f}) /\ Len(stack') = Len(stack)
      /\ \A i \in 1 .. Len(stack) :
           stack'[i] = IF i = Len(stack) THEN f ELSE stack[i]
  BY <1>1, <1>2, ExceptSeq
<1>4. stack' # <<>> /\ Top' = f
  BY <1>1, <1>3, EmptySeq DEF Top, Last
<1>5. Nested(stack')
  BY <1>3 DEF Runs, Nested
<1>6. ASSUME NEW i \in 1 .. Len(stack')
      PROVE  Flags(stack'[i]) /\ Unmoved(stack'[i], d)
  BY <1>3 DEF Runs
<1> QED
  BY <1>4, <1>5, <1>6 DEF Runs

LEMMA LoopRuns ==
  ASSUME RestInv, ModeInv, TurnInv, Runs, NEW f \in Frame, Top_(f), Moved(f),
         LoopStep
  PROVE  Runs' /\ stack' # <<>> /\ Top' = f
<1> DEFINE d == date'
<1>1. stack # <<>>
  BY DEF LoopStep, Receive, CollectDue, FireTimer, SkipTimer, CalloutReturns,
         EndTimer, TimersDone
<1>2. /\ Top \in Frame /\ Top = stack[Len(stack)] /\ Timely(Top)
      /\ Len(stack) \in 1 .. Len(stack)
      /\ InCallout(Top) => Head(Top.due) \in Timers
  BY <1>1, RestTop
<1>3. Flags(Top) /\ Unmoved(Top, date)
      /\ \A i \in 1 .. Len(stack) : Unmoved(stack[i], date)
  BY <1>2 DEF Runs
<1>4. ASSUME UNCHANGED date PROVE \A i \in 1 .. Len(stack) : Unmoved(stack[i], d)
  BY <1>3, <1>4
<1>5. ASSUME Flags(f), Unmoved(f, d),
             \A i \in 1 .. Len(stack) : i # Len(stack) => Unmoved(stack[i], d),
             f.pc \in Within => call'[LoopThread].op = "none",
             f.pc = "due" => lock' = LoopThread
      PROVE  Runs' /\ stack' # <<>> /\ Top' = f
  <2> HIDE DEF d
  <2> QED
    BY <1>1, <1>5, TopRuns DEF d
<1>6. Top.pc \in Within => call[LoopThread].op = "none"
  BY <1>1 DEF Runs
<1>7. CASE Receive /\ f.pc = "woken" /\ f.handled = Top.handled
  <2>1. Top.pc = "wait" /\ UNCHANGED <<date, call>>
    BY <1>7 DEF Receive
  <2>2. Flags(f) /\ Unmoved(f, d)
    BY <1>3, <1>7, <2>1 DEF Flags, Unmoved, InCallout
  <2> QED
    BY <1>4, <1>5, <1>6, <1>7, <2>1, <2>2 DEF Within
<1>8. CASE CollectDue /\ f.pc = "due"
  <2>1. Top.pc = "woken" /\ UNCHANGED <<date, call>> /\ lock' = LoopThread
    BY <1>8 DEF CollectDue
  <2>2. Flags(f) /\ Unmoved(f, d)
    BY <1>8 DEF Flags, Unmoved, InCallout
  <2> QED
    BY <1>4, <1>5, <1>6, <2>1, <2>2 DEF Within
<1>9. CASE SkipTimer /\ f.pc = "due"
  <2>1. Top.pc = "due" /\ UNCHANGED <<date, call, lock>>
    BY <1>9 DEF SkipTimer
  <2>2. Flags(f) /\ Unmoved(f, d)
    BY <1>9 DEF Flags, Unmoved, InCallout
  <2>3. lock = LoopThread
    BY <1>1, <2>1 DEF Runs
  <2> QED
    BY <1>4, <1>5, <1>6, <2>1, <2>2, <2>3 DEF Within
<1>10. CASE /\ FireTimer /\ f.pc = "callout" /\ f.handled /\ f.due = Top.due
            /\ f.old = date[Head(Top.due)]
  <2>1. Head(Top.due) \in valid /\ UNCHANGED date
    BY <1>10 DEF FireTimer, MayFire
  <2>2. date[Head(Top.due)] \in Nat
    BY <2>1, HardIs DEF ModeInv, RestInv
  <2>3. Flags(f) /\ Unmoved(f, d)
    BY <1>10, <2>1, <2>2 DEF Flags, Unmoved
  <2> QED
    BY <1>4, <1>5, <1>10, <2>1, <2>3 DEF Within
<1>11. CASE /\ CalloutReturns /\ f.pc = "returned" /\ f.handled = Top.handled
            /\ f.due = Top.due /\ f.old = Top.old
  <2>1. Top.pc = "callout" /\ UNCHANGED date
    BY <1>11 DEF CalloutReturns
  <2>2. Flags(f) /\ Unmoved(f, d)
    BY <1>3, <1>11, <2>1 DEF Flags, Unmoved, InCallout
  <2> QED
    BY <1>4, <1>5, <1>11, <2>1, <2>2 DEF Within
<1>12. CASE EndTimer /\ f.pc = "due"
  <2> DEFINE t == Head(Top.due)
  <2>1. /\ Top.pc = "returned" /\ call[LoopThread].op = "none"
        /\ UNCHANGED call /\ lock' = LoopThread
        /\ \/ UNCHANGED date
           \/ date' = [date EXCEPT ![t] = NextDate(t, Top.old)]
    BY <1>12 DEF EndTimer, HonorLaterDate, Repeat
  <2>2. Flags(f) /\ Unmoved(f, d)
    BY <1>12 DEF Flags, Unmoved, InCallout
  <2>3. ASSUME NEW i \in 1 .. Len(stack), i # Len(stack)
        PROVE  Unmoved(stack[i], d)
    <3>1. SUFFICES ASSUME InCallout(stack[i])
                   PROVE  d[Head(stack[i].due)] = date[Head(stack[i].due)]
      BY <1>3 DEF Unmoved
    <3>2. Head(stack[i].due) \in Timers /\ Head(stack[i].due) # t
      BY <1>2, <2>1, <2>3, <3>1 DEF TurnInv, Calls, Apart, InCallout, RestInv
    <3> QED
      BY <2>1, <3>2 DEF ModeInv
  <2> QED
    BY <1>5, <2>1, <2>2, <2>3
<1>13. CASE TimersDone /\ f.pc = "wait" /\ ~f.handled
  <2>1. Top.pc = "due" /\ UNCHANGED <<date, call>>
    BY <1>13 DEF TimersDone
  <2>2. Flags(f) /\ Unmoved(f, d)
    BY <1>13 DEF Flags, Unmoved, InCallout
  <2> QED
    BY <1>4, <1>5, <1>6, <1>13, <2>1, <2>2 DEF Within
<1> QED
  BY <1>7, <1>8, <1>9, <1>10, <1>11, <1>12, <1>13 DEF Moved

\* Steps that leave the runs alone.
LEMMA SameRuns ==
  ASSUME RestInv, Runs, UNCHANGED stack,
         UNCHANGED date \/ ~NoSets,
         Top.pc \in Within /\ stack # <<>> =>
           call'[LoopThread].op = call[LoopThread].op,
         Top.pc = "due" /\ stack # <<>> => lock' = lock
  PROVE  Runs'
<1>1. Top' = Top
  BY DEF Top
<1>2. Top.pc = "due" => Top.pc \in Within
  BY DEF Within
<1>3. \A i \in 1 .. Len(stack) : Unmoved(stack[i], date')
  BY DEF Runs, Unmoved
<1> QED
  BY <1>1, <1>2, <1>3 DEF Runs

LEMMA CallRuns ==
  ASSUME RestInv, Moving, Runs, NEW c \in Callers, Begin(c) \/ Continue(c)
  PROVE  Runs'
<1>1. Free # LoopThread /\ LoopThread \in Callers /\ call \in [Callers -> Call]
  BY TimersAssumption DEF Callers, RestInv
<1>2. UNCHANGED stack
  BY DEF Begin, Continue, AddTimer, RemoveTimer, AddToCommonModes,
         TimerInvalidate, SetNextFireDate, AddToMode, SetDate, LeaveModes
<1>3. UNCHANGED date \/ ~NoSets
  BY DEF Begin, Continue, AddTimer, RemoveTimer, AddToCommonModes,
         TimerInvalidate, SetNextFireDate, AddToMode, SetDate, LeaveModes,
         NoSets, Moving
<1>4. ASSUME stack # <<>>, Top.pc \in Within
      PROVE  c # LoopThread
  <2>1. call[LoopThread].op = "none" /\ ~Rests(LoopThread)
    BY <1>4 DEF Runs, Rests, Within
  <2> QED
    BY <2>1 DEF Begin, Continue, AddTimer, RemoveTimer, AddToCommonModes,
       TimerInvalidate, SetNextFireDate, AddToMode, SetDate, LeaveModes
<1>5. ASSUME c # LoopThread
      PROVE  call'[LoopThread].op = call[LoopThread].op
  BY <1>1, <1>5 DEF Begin, Continue, AddTimer, RemoveTimer, AddToCommonModes,
     TimerInvalidate, BeginInvalidate, SetNextFireDate, AddToMode, SetDate,
     LeaveModes, Finish
<1>6. ASSUME stack # <<>>, Top.pc = "due" PROVE lock' = lock
  <2>1. lock = LoopThread /\ c # LoopThread
    BY <1>4, <1>6 DEF Runs, Within
  <2>2. ~CanLock(c) /\ lock # Free
    BY <1>1, <2>1 DEF CanLock
  <2> QED
    BY <2>2 DEF Begin, Continue, AddTimer, RemoveTimer, AddToCommonModes,
       TimerInvalidate, SetNextFireDate, AddToMode, SetDate, LeaveModes
<1> QED
  BY <1>2, <1>3, <1>4, <1>5, <1>6, SameRuns

LEMMA RunRuns ==
  ASSUME RestInv, Runs, NEW m \in Modes, Run(m)
  PROVE  Runs' /\ stack' # <<>> /\ Top'.pc = "wait"
<1> DEFINE no == FALSE
           f == [mode |-> m, pc |-> "wait", due |-> <<>>, old |-> 0, at |-> 0,
                 handled |-> no]
<1>1. /\ stack' = Append(stack, f) /\ UNCHANGED <<date, call>>
      /\ call[LoopThread].op = "none"
      /\ stack = <<>> \/ Top.pc = "callout"
  BY DEF Run, Rests
<1>2. f.pc = "wait" /\ f.handled = no
  OBVIOUS
<1>3. Flags(f) /\ Unmoved(f, date)
  BY <1>2 DEF Flags, Unmoved, InCallout, no
<1> HIDE DEF f
<1>4. stack \in Seq(Frame \cup {f}) /\ f \in Frame \cup {f}
  BY SeqMonotonic DEF RestInv
<1>5. /\ stack' \in Seq(Frame \cup {f}) /\ Len(stack') = Len(stack) + 1
      /\ Len(stack) \in Nat /\ stack'[Len(stack) + 1] = f
      /\ \A i \in 1 .. Len(stack) : stack'[i] = stack[i]
  BY <1>1, <1>4, AppendProperties
<1>6. stack' # <<>> /\ Top' = f
  BY <1>5, EmptySeq DEF Top, Last
<1>7. ASSUME NEW i \in 1 .. Len(stack), i = Len(stack)
      PROVE  stack[i].pc = "callout"
  <2>1. stack # <<>>
    BY <1>5, <1>7, EmptySeq
  <2> QED
    BY <1>1, <1>7, <2>1 DEF Top, Last
<1>8. Nested(stack')
  <2> SUFFICES ASSUME NEW i \in 1 .. Len(stack'), i < Len(stack')
               PROVE  stack'[i].pc = "callout"
    BY DEF Nested
  <2>1. i \in 1 .. Len(stack) /\ (i < Len(stack) \/ i = Len(stack))
    BY <1>5
  <2> QED
    BY <1>5, <1>7, <2>1 DEF Runs, Nested
<1>9. ASSUME NEW i \in 1 .. Len(stack')
      PROVE  Flags(stack'[i]) /\ Unmoved(stack'[i], date)
  <2>1. i \in 1 .. Len(stack) \/ i = Len(stack) + 1
    BY <1>5
  <2> QED
    BY <1>3, <1>5, <2>1 DEF Runs
<1> QED
  BY <1>1, <1>2, <1>6, <1>8, <1>9 DEF Runs

LEMMA ReturnRuns ==
  ASSUME RestInv, Runs, RunReturns
  PROVE  Runs' /\ (stack' # <<>> => Top'.pc = "callout")
<1>1. stack # <<>> /\ stack' = Front(stack) /\ UNCHANGED <<date, call>>
  BY DEF RunReturns
<1>2. /\ stack \in Seq(Frame) /\ Len(stack) \in 1 .. Len(stack)
      /\ Len(stack) \in Nat
  BY <1>1, RestTop DEF RestInv
<1>3. /\ stack' \in Seq(Frame) /\ Len(stack') = Len(stack) - 1
      /\ \A i \in 1 .. Len(stack) - 1 : stack'[i] = stack[i]
  BY <1>1, <1>2, FrontIs
<1>4. ASSUME stack' # <<>> PROVE Top'.pc = "callout"
  <2>1. Len(stack') \in 1 .. Len(stack')
    BY <1>3, <1>4, EmptySeq
  <2>2. Len(stack') \in 1 .. Len(stack) /\ Len(stack') < Len(stack)
    BY <1>2, <1>3, <2>1
  <2>3. Top' = stack[Len(stack')]
    BY <1>3, <2>1 DEF Top, Last
  <2> QED
    BY <2>2, <2>3 DEF Runs, Nested
<1>5. Nested(stack') /\ \A i \in 1 .. Len(stack') :
                          Flags(stack'[i]) /\ Unmoved(stack'[i], date)
  BY <1>2, <1>3 DEF Runs, Nested
<1> QED
  BY <1>1, <1>4, <1>5 DEF Runs, Within

LEMMA RunsStep ==
  ASSUME TimersInv, TurnInv, Runs, [Next]_vars PROVE Runs'
<1>1. RestInv /\ ModeInv /\ Moving
  BY DEF TimersInv
<1>2. CASE LoopStep
  BY <1>1, <1>2, LoopMoves, LoopRuns
<1>3. ASSUME NEW m \in Modes, KernelFires(m) PROVE Runs'
  BY <1>1, <1>3, SameRuns DEF KernelFires
<1>4. CASE Tick \/ UNCHANGED vars
  BY <1>1, <1>4, SameRuns DEF Tick, vars
<1> QED
  BY <1>1, <1>2, <1>3, <1>4, CallRuns, RunRuns, ReturnRuns DEF Next

-----------------------------------------------------------------------------
(* Events.                                                                  *)

\* The loop's thread has the event of m, and has called no timer for it yet.
Looking(m) ==
  stack # <<>> /\ Top.mode = m /\ Top.pc \in {"woken", "due"} /\ ~Top.handled

\* If nothing is armed for the deadlines of m, it is because the soft one is
\* over, and the event for it waits, is looked after or was spent.
Awaited(m) ==
  \/ mode[m].armed = mode[m].limits
  \/ mode[m].limits.soft <= now
     /\ (mode[m].ready \/ Looking(m) \/ mode[m].spent)

Armed == \A m \in Modes : ArmsOwn(mode[m]) /\ Awaited(m)

\* The timers for which the event came are in the list of those to fire.
Collected ==
  LET M == mode[Top.mode] IN
  stack # <<>> /\ Top.pc = "due" /\ ~Top.handled
  /\ M.armed # M.limits /\ ~M.ready =>
    \A t \in ToSet(M.timers) :
      t \in valid \ firing /\ date[t] <= M.limits.soft => t \in ToSet(Top.due)

ArmedInv ==
  TimersInv /\ Sorted /\ TurnInv /\ Runs /\ Covered /\ Armed /\ Collected

LEMMA SoftIs ==
  ASSUME ModeInv, NEW m \in Modes PROVE mode[m].limits.soft \in Nat
<1>1. mode[m].limits \in Limits
  BY ModeFields
<1> QED
  BY <1>1, TimersAssumption, ArrayAssumption DEF Limits, Dates

LEMMA KeptArmed ==
  ASSUME ModeInv, Armed, Arms, now \in Nat, now' \in Nat, now <= now',
         \A m \in Modes : Looking(m) =>
           Looking(m)' \/ mode'[m].armed = mode'[m].limits
  PROVE  Covered' /\ Armed'
<1>1. Covered'
  BY DEF Arms, Covered
<1>2. ASSUME NEW m \in Modes PROVE ArmsOwn(mode'[m]) /\ Awaited(m)'
  <2>1. CASE mode'[m].armed = mode'[m].limits
    BY <2>1 DEF ArmsOwn, Awaited
  <2>2. CASE /\ mode'[m].armed = mode[m].armed
             /\ mode'[m].limits = mode[m].limits
             /\ mode'[m].ready = mode[m].ready
             /\ mode'[m].spent = mode[m].spent
             /\ mode'[m].armed # mode'[m].limits
    <3>1. ArmsOwn(mode[m]) /\ Awaited(m)
      BY DEF Armed
    <3>2. mode[m].limits.soft \in Nat
      BY SoftIs
    <3>3. mode'[m].limits.soft <= now'
      BY <2>2, <3>1, <3>2 DEF Awaited
    <3>4. mode'[m].ready \/ Looking(m)' \/ mode'[m].spent
      BY <2>2, <3>1 DEF Awaited
    <3> QED
      BY <2>2, <3>1, <3>3, <3>4 DEF ArmsOwn, Awaited
  <2> QED
    BY <2>1, <2>2 DEF Arms, Kept
<1> QED
  BY <1>1, <1>2 DEF Armed

LEMMA ReceiveArmed ==
  ASSUME ArmedInv, Receive PROVE Covered' /\ Armed'
<1>1. ModeInv /\ RestInv /\ Covered /\ Armed /\ Runs
  BY DEF ArmedInv, TimersInv
<1>2. PICK R \in Mode :
        /\ mode' = [mode EXCEPT ![Top.mode] = R] /\ Top.mode \in Modes
        /\ R.timers = mode[Top.mode].timers
        /\ R.limits = mode[Top.mode].limits
        /\ R.armed = mode[Top.mode].armed
        /\ R.ready = FALSE /\ R.spent = FALSE
  BY <1>1, ReceivedIs
<1>3. PICK f \in Frame : Top_(f) /\ f.mode = Top.mode /\ Moved(f)
  BY <1>1, LoopMoves DEF LoopStep
<1>4. Top.pc = "wait" /\ stack # <<>> /\ UNCHANGED <<date, valid, firing, now>>
  BY DEF Receive
<1>5. f.pc = "woken" /\ f.handled = Top.handled
  BY <1>3, <1>4 DEF Moved, CollectDue, FireTimer, SkipTimer, CalloutReturns,
                    EndTimer, TimersDone
<1>6. ~Top.handled
  BY <1>1, <1>4, RestTop DEF Runs, Flags
<1>7. Top' = f /\ stack' # <<>>
  BY <1>1, <1>3, LoopRuns DEF LoopStep, ArmedInv
<1>8. PICK m \in Modes : m = Top.mode
  BY <1>2
<1>9. Looking(m)'
  BY <1>3, <1>5, <1>6, <1>7, <1>8 DEF Looking
<1>10. /\ mode'[m] = R
       /\ \A n \in Modes : n # m => mode'[n] = mode[n] /\ ~Looking(n)
  BY <1>1, <1>2, <1>8 DEF ModeInv, Looking
<1>11. ArmsOwn(mode[m]) /\ Awaited(m) /\ ~Looking(m)
       /\ Covers(mode[m], valid, firing, date)
  BY <1>1, <1>4 DEF Armed, Covered, Looking
<1>12. /\ ArmsOwn(mode'[m]) /\ Awaited(m)'
       /\ Covers(mode'[m], valid, firing, date)
  BY <1>2, <1>4, <1>8, <1>9, <1>10, <1>11 DEF ArmsOwn, Awaited, Covers
<1>13. ASSUME NEW n \in Modes, n # m
       PROVE  /\ ArmsOwn(mode'[n]) /\ Awaited(n)'
              /\ Covers(mode'[n], valid, firing, date)
  BY <1>1, <1>4, <1>10, <1>13 DEF Armed, Awaited, Covered
<1> QED
  BY <1>4, <1>12, <1>13 DEF Covered, Armed

LEMMA KernelArmed ==
  ASSUME ArmedInv, Early = 0, NEW m \in Modes, KernelFires(m)
  PROVE  Covered' /\ Armed' /\ Collected'
<1>1. ModeInv /\ RestInv /\ Covered /\ Armed
  BY DEF ArmedInv, TimersInv
<1>2. PICK R \in Mode :
        /\ mode' = [mode EXCEPT ![m] = R]
        /\ R.timers = mode[m].timers /\ R.limits = mode[m].limits
        /\ R.armed = Disarmed /\ R.ready = TRUE /\ R.spent = mode[m].spent
  BY <1>1, KernelIs
<1>3. /\ mode[m].armed # Disarmed /\ mode[m].armed.soft <= now
      /\ UNCHANGED <<date, valid, firing, now, stack>>
  BY <1>1 DEF KernelFires, RestInv
<1>4. mode'[m] = R /\ \A n \in Modes : n # m => mode'[n] = mode[n]
  BY <1>1, <1>2 DEF ModeInv
<1>5. mode[m].armed = mode[m].limits
  BY <1>1, <1>3 DEF Armed, ArmsOwn
<1>6. /\ ArmsOwn(mode'[m]) /\ Awaited(m)'
      /\ Covers(mode'[m], valid, firing, date)
  <2>1. Covers(mode[m], valid, firing, date)
    BY <1>1 DEF Covered
  <2> QED
    BY <1>2, <1>3, <1>4, <1>5, <2>1 DEF ArmsOwn, Awaited, Covers
<1>7. \A n \in Modes : Looking(n)' <=> Looking(n)
  BY <1>3 DEF Looking, Top
<1>8. ASSUME NEW n \in Modes, n # m
      PROVE  /\ ArmsOwn(mode'[n]) /\ Awaited(n)'
             /\ Covers(mode'[n], valid, firing, date)
  BY <1>1, <1>3, <1>4, <1>7, <1>8 DEF Armed, Awaited, Covered
<1>9. Collected'
  <2>1. SUFFICES ASSUME stack # <<>> PROVE Collected'
    BY <1>3 DEF Collected
  <2>2. Top.mode \in Modes /\ Top' = Top
    BY <1>1, <1>3, <2>1, RestTop DEF Frame, Top
  <2>3. CASE Top.mode = m
    BY <1>2, <1>4, <2>2, <2>3 DEF Collected
  <2>4. CASE Top.mode # m
    BY <1>3, <1>4, <2>2, <2>4 DEF ArmedInv, Collected
  <2> QED
    BY <2>3, <2>4
<1> QED
  BY <1>3, <1>6, <1>8, <1>9 DEF Covered, Armed

\* When the event's timers are done and none was called, another was armed,
\* or there is no timer that could have been called.
LEMMA AgainArmed ==
  ASSUME ArmedInv, TimersDone, ~Top.handled
  PROVE  Covered' /\ Armed'
<1>1. ModeInv /\ RestInv /\ Covered /\ Armed /\ Sorted /\ Collected
  BY DEF ArmedInv, TimersInv
<1>2. PICK m \in Modes : m = Top.mode
  BY RestTop, <1>1 DEF TimersDone, Frame
<1> DEFINE M == mode[m]
           A == ArmNext(M, M.timers, date, firing)
           R == ArmAgain(M)
           L == Deadlines[Scanned(M.timers, date, firing)]
<1>3. /\ stack # <<>> /\ Top.pc = "due" /\ Top.due = <<>>
      /\ UNCHANGED <<now, date, valid, firing>>
      /\ mode' = [mode EXCEPT ![m] = R]
  BY <1>2 DEF TimersDone
<1>4. mode'[m] = R /\ \A n \in Modes : n # m => mode'[n] = mode[n]
  BY <1>1, <1>3 DEF ModeInv
<1>5. /\ M \in Mode /\ Array(M.timers) /\ Ordered(M.timers, date)
      /\ date \in [Timers -> Dates]
  BY <1>1, ModeFields DEF ModeInv, Sorted
<1>6. /\ A \in Mode /\ R.timers = M.timers /\ R.limits = A.limits
      /\ R.armed = A.armed /\ R.ready = M.ready
      /\ R.spent = ~(ToSet(M.timers) \subseteq valid)
  BY <1>1, ArmedAgainIs
<1>7. /\ A.timers = M.timers /\ A.limits = L
      /\ Covers(A, valid, firing, date) /\ Kept(A, M)
  <2> DEFINE s == M.timers
             K == L
  <2>1. /\ A = ArmNext(M, s, date, firing) /\ Array(s) /\ Ordered(s, date)
        /\ K = Deadlines[Scanned(s, date, firing)]
    BY <1>5
  <2> HIDE DEF A, s, K, M
  <2>2. Covers(A, valid, firing, date) /\ Kept(A, M) /\ A.timers = s
        /\ A.limits = K
    BY <1>5, <2>1, Arming, ArmCovers
  <2> QED
    BY <2>2 DEF s, K
<1>8. \/ L = Disarmed
      \/ \E i \in Idle(M.timers, firing) : L.soft = date[M.timers[i]]
  <2> HIDE DEF M
  <2> QED
    BY <1>5, ScanIsRight
<1>9. ArmsOwn(M) /\ Awaited(m) /\ Covers(M, valid, firing, date)
  BY <1>1 DEF Armed, Covered
<1> HIDE DEF A, R, L
<1>10. CASE R.armed = R.limits
  <2>1. ArmsOwn(R) /\ Awaited(m)' /\ Covers(R, valid, firing, date)
    BY <1>4, <1>6, <1>7, <1>10 DEF ArmsOwn, Awaited, Covers
  <2>2. \A n \in Modes : n # m => ~Looking(n)
    BY <1>2 DEF Looking
  <2>3. ASSUME NEW n \in Modes, n # m
        PROVE  /\ ArmsOwn(mode'[n]) /\ Awaited(n)'
               /\ Covers(mode'[n], valid, firing, date)
    BY <1>1, <1>3, <1>4, <2>2, <2>3 DEF Armed, Awaited, Covered
  <2> QED
    BY <1>3, <1>4, <2>1, <2>3 DEF Covered, Armed
<1>11. CASE R.armed # R.limits
  <2>1. /\ R.armed = M.armed /\ R.limits = M.limits
        /\ M.armed # M.limits /\ L = M.limits
    BY <1>6, <1>7, <1>11 DEF Kept
  <2>2. M.limits.soft <= now /\ M.armed = Disarmed /\ L # Disarmed
    BY <1>9, <2>1 DEF Awaited, ArmsOwn
  <2>3. M.ready \/ ~(ToSet(M.timers) \subseteq valid)
    <3> SUFFICES ASSUME ~M.ready, ToSet(M.timers) \subseteq valid PROVE FALSE
      OBVIOUS
    <3>1. PICK i \in Idle(M.timers, firing) : L.soft = date[M.timers[i]]
      BY <1>8, <2>2
    <3> DEFINE t == M.timers[i]
    <3>2. t \in ToSet(M.timers) /\ t \notin firing /\ t \in Timers
      <4>1. i \in 1 .. Len(M.timers) /\ t \notin firing /\ t \in Timers
        BY <1>5, ScannedIs
      <4> QED
        BY <1>5, <4>1, ToSetIs
    <3>3. date[t] <= M.limits.soft
      <4>1. date[t] \in Nat
        BY <1>5, <3>2, HardIs
      <4> QED
        BY <2>1, <3>1, <4>1
    <3>4. t \in ToSet(Top.due)
      BY <1>1, <1>2, <1>3, <2>1, <3>2, <3>3 DEF Collected
    <3>5. ToSet(Top.due) = {}
      BY <1>3 DEF ToSet
    <3> QED
      BY <3>4, <3>5
  <2>4. ArmsOwn(R) /\ Awaited(m)' /\ Covers(R, valid, firing, date)
    <3>1. R.ready \/ R.spent
      BY <1>6, <2>3
    <3> QED
      BY <1>3, <1>4, <1>6, <1>7, <2>1, <2>2, <3>1 DEF ArmsOwn, Awaited, Covers
  <2>5. \A n \in Modes : n # m => ~Looking(n)
    BY <1>2 DEF Looking
  <2>6. ASSUME NEW n \in Modes, n # m
        PROVE  /\ ArmsOwn(mode'[n]) /\ Awaited(n)'
               /\ Covers(mode'[n], valid, firing, date)
    BY <1>1, <1>3, <1>4, <2>5, <2>6 DEF Armed, Awaited, Covered
  <2> QED
    BY <1>3, <1>4, <2>4, <2>6 DEF Covered, Armed
<1> QED
  BY <1>10, <1>11

LEMMA StepArms ==
  ASSUME ArmedInv, Steady, [Next]_vars, ~Receive,
         ~\E m \in Modes : KernelFires(m), ~TimersDone
  PROVE  Arms
<1>1. /\ ModeInv /\ RestInv /\ Moving /\ Sorted /\ Covered /\ Runs
  BY DEF ArmedInv, TimersInv
<1>2. ASSUME NEW c \in Callers, Begin(c) PROVE Arms
  <2>1. ASSUME NEW t \in Timers, NEW m \in Modes, AddTimer(c, t, m) PROVE Arms
    BY <1>1, <2>1, SameArms DEF AddTimer
  <2>2. ASSUME NEW t \in Timers, NEW m \in Modes, RemoveTimer(c, t, m) PROVE Arms
    <3>1. {m} \in SUBSET Modes /\ RemoveFrom({m}, t)
          /\ UNCHANGED <<date, firing, valid>>
      BY <2>2 DEF RemoveTimer
    <3> QED
      BY <1>1, <3>1, RemoveArms
  <2>3. ASSUME NEW t \in Timers, AddToCommonModes(c, t) \/ TimerInvalidate(c, t)
        PROVE  Arms
    BY <1>1, <2>3, SameArms DEF AddToCommonModes, TimerInvalidate, BeginInvalidate
  <2> QED
    BY <1>1, <1>2, <2>1, <2>2, <2>3, SetArms DEF Begin
<1>3. ASSUME NEW c \in Callers, Continue(c) PROVE Arms
  <2>1. CASE LeaveModes(c)
    <3>1. call[c].todo \in SUBSET Modes /\ call[c].timer \in Timers
      BY <1>1 DEF RestInv, Call
    <3>2. RemoveFrom(call[c].todo, call[c].timer)
          /\ UNCHANGED <<date, firing, valid>>
      BY <2>1 DEF LeaveModes
    <3> QED
      BY <1>1, <3>1, <3>2, RemoveArms
  <2> QED
    BY <1>1, <1>3, <2>1, AddArms, MoveArms DEF Continue
<1>4. CASE LoopStep
  <2>1. CASE CollectDue \/ SkipTimer \/ CalloutReturns
    BY <1>1, <2>1, SameArms
       DEF CollectDue, SkipTimer, CalloutReturns, BeginInvalidate
  <2>2. CASE EndTimer
    <3>1. Returns(Head(Top.due))
      <4>1. stack # <<>> /\ Top.pc = "returned"
        BY <2>2 DEF EndTimer
      <4>2. Unmoved(Top, date)
        BY <1>1, <4>1, RestTop DEF Runs
      <4> QED
        BY <4>1, <4>2 DEF Unmoved, Returns, NoSets, InCallout
    <3> QED
      BY <1>1, <2>2, <3>1, EndArms
  <2> QED
    BY <1>1, <1>4, <2>1, <2>2, FireArms DEF LoopStep
<1>5. CASE Tick \/ RunReturns \/ UNCHANGED vars \/ \E m \in Modes : Run(m)
  BY <1>1, <1>5, SameArms DEF Tick, RunReturns, vars, Run
<1> QED
  BY <1>2, <1>3, <1>4, <1>5 DEF Next

\* A mode whose event is looked after stays so, or it is armed.
LEMMA StepLooks ==
  ASSUME ArmedInv, [Next]_vars, NEW m \in Modes, Looking(m),
         TimersDone => Top.handled
  PROVE  Looking(m)' \/ mode'[m].armed = mode'[m].limits
<1>1. /\ ModeInv /\ RestInv /\ TurnInv /\ Runs /\ Sorted /\ Covered
  BY DEF ArmedInv, TimersInv
<1>2. stack # <<>> /\ Top.mode = m /\ Top.pc \in {"woken", "due"} /\ ~Top.handled
  BY DEF Looking
<1>3. CASE UNCHANGED stack
  BY <1>3 DEF Looking, Top
<1>4. CASE LoopStep
  <2>1. CASE FireTimer
    BY <1>1, <1>2, <2>1, FireArms
  <2>2. PICK f \in Frame : Top_(f) /\ f.mode = Top.mode /\ Moved(f)
    BY <1>1, <1>4, LoopMoves
  <2>3. Top' = f /\ stack' # <<>>
    BY <1>1, <1>4, <2>2, LoopRuns
  <2>4. CASE (CollectDue \/ SkipTimer) /\ f.pc = "due" /\ f.handled = Top.handled
    BY <1>2, <2>2, <2>3, <2>4 DEF Looking
  <2>5. ~Receive /\ ~CalloutReturns /\ ~EndTimer /\ ~TimersDone
    BY <1>2 DEF Receive, CalloutReturns, EndTimer, TimersDone
  <2> QED
    BY <2>1, <2>2, <2>4, <2>5 DEF Moved
<1>5. ~RunReturns /\ \A n \in Modes : ~Run(n)
  BY <1>2 DEF RunReturns, Run, Rests
<1> QED
  BY <1>3, <1>4, <1>5 DEF Next, Begin, Continue, KernelFires, Tick,
       vars, AddTimer, RemoveTimer, AddToCommonModes, TimerInvalidate,
       SetNextFireDate, AddToMode, SetDate, LeaveModes

LEMMA ArmedStep ==
  ASSUME ArmedInv, Steady, Early = 0, [Next]_vars PROVE Covered' /\ Armed'
<1>1. ModeInv /\ RestInv /\ Moving /\ Covered /\ Armed
  BY DEF ArmedInv, TimersInv
<1>2. now \in Nat /\ now' \in Nat /\ now <= now'
  <2>1. RestInv'
    BY <1>1, RestStep
  <2>2. now' = now \/ (now < MaxTime /\ now' = now + 1)
    BY DEF Next, Begin, Continue, LoopStep, Run, RunReturns, KernelFires, Tick,
       vars, AddTimer, RemoveTimer, AddToCommonModes, TimerInvalidate,
       SetNextFireDate, AddToMode, SetDate, LeaveModes, Receive, CollectDue,
       FireTimer, SkipTimer, CalloutReturns, EndTimer, TimersDone
  <2> QED
    BY <1>1, <2>1, <2>2, TimersAssumption DEF RestInv
<1>3. CASE TimersDone /\ Top.handled
  <2>1. UNCHANGED <<mode, date, firing, valid>>
    BY <1>3 DEF TimersDone
  <2>2. Arms
    BY <1>1, <2>1, SameArms
  <2> QED
    BY <1>1, <1>2, <1>3, <2>2, KeptArmed, StepLooks
<1>4. CASE ~Receive /\ ~TimersDone /\ ~\E m \in Modes : KernelFires(m)
  BY <1>1, <1>2, <1>4, StepArms, StepLooks, KeptArmed
<1> QED
  BY <1>3, <1>4, ReceiveArmed, KernelArmed, AgainArmed

\* No timer of the mode is moved while its event is looked after.
LEMMA SameCollected ==
  ASSUME ArmedInv, UNCHANGED <<stack, mode, firing>>, valid' \subseteq valid,
         stack # <<>> /\ Top.pc = "due" =>
           \A t \in ToSet(mode[Top.mode].timers) : date'[t] = date[t]
  PROVE  Collected'
BY DEF ArmedInv, Collected, Top

LEMMA CollectedStep ==
  ASSUME ArmedInv, Early = 0, [Next]_vars PROVE Collected'
<1>1. /\ ModeInv /\ RestInv /\ Moving /\ TurnInv /\ Runs /\ Armed /\ Collected
  BY DEF ArmedInv, TimersInv
<1>2. ASSUME NEW c \in Callers, Begin(c) \/ Continue(c) PROVE Collected'
  <2>1. UNCHANGED stack
    BY <1>2 DEF Begin, Continue, AddTimer, RemoveTimer, AddToCommonModes,
       TimerInvalidate, SetNextFireDate, AddToMode, SetDate, LeaveModes
  <2>2. SUFFICES ASSUME stack # <<>>, Top.pc = "due" PROVE Collected'
    BY <2>1 DEF Collected, Top
  <2>3. lock = LoopThread /\ call[LoopThread].op = "none" /\ ~Rests(LoopThread)
    BY <1>1, <2>2 DEF Runs, Within, Rests
  <2>4. lock # Free /\ ~Continue(c)
    <3>1. LoopThread # Free
      BY TimersAssumption DEF Callers
    <3> QED
      BY <2>3, <3>1 DEF Continue, AddToMode, SetDate, LeaveModes, CanLock
  <2>5. UNCHANGED <<mode, firing>> /\ valid' \subseteq valid
    BY <1>2, <2>4 DEF Begin, AddTimer, RemoveTimer, AddToCommonModes,
       TimerInvalidate, BeginInvalidate, SetNextFireDate
  <2>6. UNCHANGED date \/ \E t \in Timers, d \in 0 .. MaxTime :
                            SetNextFireDate(c, t, d) /\ modesOf[t] = {}
    BY <1>2, <2>4 DEF Begin, AddTimer, RemoveTimer, AddToCommonModes,
       TimerInvalidate, SetNextFireDate
  <2>7. ASSUME NEW t \in Timers, NEW d \in 0 .. MaxTime,
               SetNextFireDate(c, t, d), modesOf[t] = {}
        PROVE  \A u \in ToSet(mode[Top.mode].timers) : date'[u] = date[u]
    <3>1. Top.mode \in Modes
      BY <1>1, <2>2, RestTop DEF Frame
    <3>2. t \notin ToSet(mode[Top.mode].timers)
          /\ \A u \in ToSet(mode[Top.mode].timers) : u \in Timers
      BY <1>1, <2>7, <3>1, ModeFields DEF ModeInv, Members
    <3> QED
      BY <1>1, <2>7, <3>2 DEF SetNextFireDate, ModeInv
  <2> QED
    BY <2>1, <2>5, <2>6, <2>7, SameCollected
<1>3. CASE LoopStep
  <2>1. PICK f \in Frame : Top_(f) /\ f.mode = Top.mode /\ Moved(f)
    BY <1>1, <1>3, LoopMoves
  <2>2. Top' = f /\ stack' # <<>>
    BY <1>1, <1>3, <2>1, LoopRuns
  <2>3. CASE f.pc # "due"
    BY <2>2, <2>3 DEF Collected
  <2>4. CASE EndTimer /\ f.handled = Top.handled
    <3>1. Top.handled
      BY <1>1, <2>4, RestTop DEF EndTimer, Runs, Flags, InCallout
    <3> QED
      BY <2>2, <2>4, <3>1 DEF Collected
  <2>5. ASSUME CollectDue \/ SkipTimer,
               f.handled = Top.handled,
               NEW m \in Modes, m = Top.mode, ~Top.handled,
               mode[m].armed # mode[m].limits, ~mode[m].ready
        PROVE  mode[m].limits.soft <= now
    <3>1. Awaited(m)
      BY <1>1 DEF Armed
    <3> QED
      BY <2>5, <3>1 DEF Awaited
  <2>6. Top.mode \in Modes /\ stack # <<>>
    BY <1>1, <1>3, RestTop DEF LoopStep, Frame, Receive, CollectDue, FireTimer,
       SkipTimer, CalloutReturns, EndTimer, TimersDone
  <2>7. ASSUME CollectDue \/ SkipTimer, f.handled = Top.handled,
               \A t \in ToSet(mode[Top.mode].timers) :
                 ~Top.handled /\ mode[Top.mode].armed # mode[Top.mode].limits
                 /\ ~mode[Top.mode].ready
                 /\ t \in valid \ firing /\ date[t] <= mode[Top.mode].limits.soft
                   => t \in ToSet(f.due)
        PROVE  Collected'
    <3>1. UNCHANGED <<mode, valid, firing, date>>
      BY <2>7 DEF CollectDue, SkipTimer
    <3> QED
      BY <2>1, <2>2, <2>7, <3>1 DEF Collected
  <2>8. ASSUME NEW t \in ToSet(mode[Top.mode].timers), CollectDue \/ SkipTimer,
               f.handled = Top.handled, ~Top.handled,
               mode[Top.mode].armed # mode[Top.mode].limits,
               ~mode[Top.mode].ready, t \in valid \ firing,
               date[t] <= mode[Top.mode].limits.soft
        PROVE  date[t] <= now /\ modesOf[t] # {}
    <3>1. t \in Timers /\ Top.mode \in modesOf[t]
      BY <1>1, <2>6, <2>8, ModeFields DEF ModeInv, Members
    <3>2. date[t] \in Nat /\ mode[Top.mode].limits.soft \in Nat /\ now \in Nat
      BY <1>1, <2>6, <3>1, HardIs, SoftIs DEF ModeInv, RestInv
    <3> QED
      BY <2>5, <2>6, <2>8, <3>1, <3>2
  <2>9. CASE CollectDue /\ f.handled = Top.handled
             /\ Picked(f.due, mode[Top.mode].timers,
                       {t \in valid \ firing : date[t] <= now})
    <3>1. ToSet(f.due) = ToSet(mode[Top.mode].timers)
                           \cap {t \in valid \ firing : date[t] <= now}
      BY <2>9 DEF Picked
    <3> QED
      BY <2>7, <2>8, <2>9, <3>1
  <2>10. CASE SkipTimer /\ f.handled = Top.handled /\ f.due = Tail(Top.due)
    <3>1. /\ Top.pc = "due" /\ Top.due # <<>> /\ ~MayFire(Head(Top.due))
      BY <2>10 DEF SkipTimer
    <3>2. Array(Top.due)
      BY <1>1, <2>6, RestTop, ArraysAre DEF Frame
    <3>3. \A t : t \in ToSet(f.due) <=> t \in ToSet(Top.due) /\ t # Head(Top.due)
      BY <2>10, <3>1, <3>2, TailIs
    <3> QED
      BY <1>1, <2>6, <2>7, <2>8, <2>10, <3>1, <3>3 DEF Collected, MayFire
  <2> QED
    BY <2>1, <2>3, <2>4, <2>9, <2>10 DEF Moved
<1>4. ASSUME NEW m \in Modes, Run(m) PROVE Collected'
  BY <1>1, <1>4, RunRuns DEF Collected
<1>5. CASE RunReturns
  BY <1>1, <1>5, ReturnRuns DEF Collected
<1>6. CASE Tick \/ UNCHANGED vars
  BY <1>6, SameCollected DEF Tick, vars
<1> QED
  BY <1>2, <1>3, <1>4, <1>5, <1>6, KernelArmed DEF Next

LEMMA ArmedInit == Init => ArmedInv
<1> SUFFICES ASSUME Init PROVE ArmedInv
  OBVIOUS
<1>1. TimersInv /\ Sorted /\ TurnInv
  BY TimersInit, TurnInit
<1>2. stack = <<>> /\ Len(stack) = 0
  BY EmptySeq DEF Init
<1>3. Runs /\ Collected
  BY <1>2 DEF Runs, Nested, Collected
<1> DEFINE none == <<>>
           M == [timers |-> none, limits |-> Disarmed, armed |-> Disarmed,
                 ready |-> FALSE, spent |-> FALSE]
<1>4. mode = [m \in Modes |-> M]
  BY DEF Init
<1>5. M.timers = none /\ M.limits = Disarmed /\ M.armed = Disarmed
  OBVIOUS
<1>6. \A t : t \notin ToSet(none)
  BY DEF ToSet
<1> HIDE DEF M, none
<1>7. \A m \in Modes : mode[m] = M
  BY <1>4
<1>8. Covered /\ Armed
  BY <1>5, <1>6, <1>7 DEF Covered, Covers, Armed, ArmsOwn, Awaited
<1> QED
  BY <1>1, <1>3, <1>8 DEF ArmedInv

LEMMA ArmedGives == ArmedInv => EveryTimerArmed
<1> SUFFICES ASSUME ArmedInv, NEW m \in DOMAIN mode,
                    ToSet(mode[m].timers) \subseteq valid, ~Serving(m), ~Spent(m),
                    NEW t \in ToSet(mode[m].timers) \ firing
             PROVE  mode[m].ready \/ mode[m].armed.hard <= Hard(t, date)
  BY DEF EveryTimerArmed
<1>1. m \in Modes
  BY DEF ArmedInv, TimersInv, ModeInv
<1>2. /\ ArmsOwn(mode[m]) /\ Awaited(m)
      /\ mode[m].limits.hard <= Hard(t, date)
  BY <1>1 DEF ArmedInv, Armed, Covered, Covers
<1>3. ~Looking(m)
  BY DEF Looking, Serving
<1> QED
  BY <1>2, <1>3 DEF ArmsOwn, Awaited, Spent

\* If the kernel's timers are not early, a run of a mode never sleeps past the
\* hard deadline of a timer of the mode that can fire, save for timers that
\* are invalidated (see EveryTimerArmed).
THEOREM TimersAreArmed ==
  ASSUME Steady, Early = 0 PROVE Spec => []EveryTimerArmed
<1>1. ArmedInv /\ [Next]_vars => ArmedInv'
  <2> SUFFICES ASSUME ArmedInv, [Next]_vars PROVE ArmedInv'
    OBVIOUS
  <2>1. TimersInv' /\ Sorted' /\ TurnInv' /\ Runs'
    BY TimersStep, ModeStep, TurnStep, RunsStep DEF ArmedInv, TimersInv
  <2> QED
    BY <2>1, ArmedStep, CollectedStep DEF ArmedInv
<1> QED
  BY <1>1, ArmedInit, ArmedGives, PTL DEF Spec

-----------------------------------------------------------------------------
(* The search of __CFRunLoopInsertionIndexInTimerArray.                     *)

\* Induction up to n: the property is given as the set of the numbers that
\* have it.
LEMMA UpTo ==
  ASSUME NEW n \in Nat, NEW S,
         \A k \in 0 .. n : (\A j \in 0 .. k - 1 : j \in S) => k \in S
  PROVE  \A k \in 0 .. n : k \in S
<1> DEFINE Rest == {k \in 0 .. n : k \notin S}
<1>1. SUFFICES ASSUME Rest # {} PROVE FALSE
  OBVIOUS
<1>2. Rest \in SUBSET Nat
  OBVIOUS
<1>3. PICK k \in Rest : \A j \in Rest : k <= j
  BY <1>1, <1>2, LeastOf
<1>4. \A j \in 0 .. k - 1 : j \in S
  <2> SUFFICES ASSUME NEW j \in 0 .. k - 1, j \notin S PROVE FALSE
    OBVIOUS
  <2>1. j \in Rest
    BY <1>2
  <2> QED
    BY <1>2, <1>3, <2>1
<1> QED
  BY <1>4

LEMMA HalfIs == \A k \in Nat : k > 0 => k \div 2 \in 0 .. k - 1
OBVIOUS

\* The recursion has a solution, and so its equations hold.
LEMMA ShiftUnrolled ==
  ASSUME NEW n \in Nat
  PROVE  \E f : /\ ShiftedByFlsl(n) = f[n]
                /\ \A k \in 0 .. n : f[k] = IF k = 0 THEN 1 ELSE 2 * f[k \div 2]
<1> DEFINE Upto(f, m) == f = [k \in 0 .. m |-> IF k = 0 THEN 1 ELSE 2 * f[k \div 2]]
           S == {m \in 0 .. n : \E f : Upto(f, m)}
<1>1. ASSUME NEW m \in 0 .. n, \A j \in 0 .. m - 1 : j \in S PROVE m \in S
  <2>1. CASE m = 0
    <3> DEFINE g == [k \in 0 .. 0 |-> 1]
    <3>1. g = [k \in 0 .. 0 |-> IF k = 0 THEN 1 ELSE 2 * g[k \div 2]]
      OBVIOUS
    <3> HIDE DEF g
    <3> QED
      BY <2>1, <3>1
  <2>2. CASE m # 0
    <3>1. m - 1 \in S
      BY <1>1, <2>2
    <3>2. PICK f : Upto(f, m - 1)
      BY <3>1
    <3> DEFINE g == [k \in 0 .. m |-> IF k = m THEN 2 * f[m \div 2] ELSE f[k]]
               h == [k \in 0 .. m |-> IF k = 0 THEN 1 ELSE 2 * g[k \div 2]]
    <3>3. \A k \in 0 .. m - 1 :
            g[k] = f[k] /\ f[k] = IF k = 0 THEN 1 ELSE 2 * f[k \div 2]
      BY <3>2
    <3>4. g[m] = 2 * f[m \div 2]
      OBVIOUS
    <3>5. DOMAIN g = 0 .. m /\ g = [k \in 0 .. m |-> g[k]]
      OBVIOUS
    <3> HIDE DEF g
    <3>6. ASSUME NEW k \in 0 .. m
          PROVE  g[k] = IF k = 0 THEN 1 ELSE 2 * g[k \div 2]
      <4>1. CASE k = 0
        BY <2>2, <3>3, <4>1
      <4>2. CASE k # 0
        <5>1. k \div 2 \in 0 .. k - 1 /\ k \div 2 \in 0 .. m - 1
          BY <4>2, HalfIs
        <5>2. g[k \div 2] = f[k \div 2]
          BY <3>3, <5>1
        <5>3. g[k] = 2 * f[k \div 2]
          BY <3>3, <3>4, <4>2
        <5> QED
          BY <4>2, <5>2, <5>3
      <4> QED
        BY <4>1, <4>2
    <3>7. g = h
      BY <3>5, <3>6
    <3>8. Upto(g, m)
      BY <3>7
    <3> QED
      BY <3>8
  <2> QED
    BY <2>1, <2>2
<1>2. \E f : Upto(f, n)
  <2> HIDE DEF S
  <2>1. n \in S
    BY <1>1, UpTo
  <2> QED
    BY <2>1 DEF S
<1> DEFINE f == CHOOSE g : Upto(g, n)
<1>3. Upto(f, n)
  BY <1>2
<1>4. ShiftedByFlsl(n) = f[n]
  BY DEF ShiftedByFlsl
<1> HIDE DEF f
<1>5. \A k \in 0 .. n : f[k] = IF k = 0 THEN 1 ELSE 2 * f[k \div 2]
  BY <1>3
<1> QED
  BY <1>4, <1>5

\* One turn of the loop, at.
Turn(dates, x, f, at) ==
  LET half == at[1] \div 2
      leq  == NotLater(dates, at[2] + half, x)
      next == IF leq THEN at[2] + half ELSE at[2]
  IN  IF half > 0 THEN f[<<half, next>>] ELSE IF leq THEN next + 1 ELSE next

Places(dates, m) == (0 .. m) \X (0 .. Len(dates))

\* Only the result for half as much matters to it, if any.
LEMMA TurnUses ==
  ASSUME NEW dates, Len(dates) \in Nat, NEW x, NEW m \in Nat, NEW f, NEW g,
         NEW at \in Places(dates, m),
         m > 0 => \A to \in Places(dates, m - 1) : f[to] = g[to]
  PROVE  Turn(dates, x, f, at) = Turn(dates, x, g, at)
<1> DEFINE half == at[1] \div 2
           leq  == NotLater(dates, at[2] + half, x)
           next == IF leq THEN at[2] + half ELSE at[2]
<1>1. at[1] \in 0 .. m /\ at[2] \in 0 .. Len(dates) /\ at[1] \in Nat
  BY DEF Places
<1>2. half \in Nat /\ half <= at[1]
  BY <1>1
<1>3. next \in 0 .. Len(dates)
  <2> HIDE DEF half
  <2> QED
    BY <1>1, <1>2 DEF NotLater
<1> HIDE DEF next, leq
<1>4. CASE half > 0
  <2>1. at[1] > 0
    BY <1>1, <1>4
  <2>2. half \in 0 .. m - 1 /\ m > 0
    BY <1>1, <2>1, HalfIs
  <2> HIDE DEF half
  <2>3. <<half, next>> \in Places(dates, m - 1)
    BY <1>3, <2>2 DEF Places
  <2>4. f[<<half, next>>] = g[<<half, next>>]
    BY <2>2, <2>3
  <2> QED
    BY <1>4, <2>4 DEF Turn, half, leq, next
<1>5. CASE ~(half > 0)
  BY <1>5 DEF Turn, leq, next
<1> QED
  BY <1>4, <1>5

LEMMA SearchUnrolled ==
  ASSUME NEW dates, Len(dates) \in Nat, NEW x,
         ShiftedByFlsl(Len(dates)) \in Nat
  PROVE  LET start == 2 * ShiftedByFlsl(Len(dates)) IN
         \E f : /\ Search(dates, x) = f[<<start, 0>>]
                /\ \A at \in Places(dates, start) : f[at] = Turn(dates, x, f, at)
<1> DEFINE n == 2 * ShiftedByFlsl(Len(dates))
           Upto(f, m) == f = [at \in Places(dates, m) |-> Turn(dates, x, f, at)]
           S == {m \in 0 .. n : \E f : Upto(f, m)}
<1>1. ASSUME NEW m \in 0 .. n, \A j \in 0 .. m - 1 : j \in S PROVE m \in S
  <2>1. PICK f : m > 0 => Upto(f, m - 1)
    BY <1>1
  <2> DEFINE g == [at \in Places(dates, m) |-> Turn(dates, x, f, at)]
             h == [at \in Places(dates, m) |-> Turn(dates, x, g, at)]
  <2>2. ASSUME m > 0, NEW at \in Places(dates, m - 1) PROVE f[at] = g[at]
    <3>1. at \in Places(dates, m)
      BY DEF Places
    <3>2. f[at] = Turn(dates, x, f, at)
      BY <2>1, <2>2
    <3> QED
      BY <3>1, <3>2
  <2>3. \A at \in Places(dates, m) : g[at] = Turn(dates, x, f, at)
    OBVIOUS
  <2>4. g = [at \in Places(dates, m) |-> g[at]]
    OBVIOUS
  <2> HIDE DEF g
  <2>5. \A at \in Places(dates, m) : Turn(dates, x, f, at) = Turn(dates, x, g, at)
    BY <2>2, TurnUses
  <2>6. g = h
    BY <2>3, <2>4, <2>5
  <2>7. Upto(g, m)
    BY <2>6
  <2> QED
    BY <2>7
<1>2. n \in Nat
  OBVIOUS
<1>3. \E f : Upto(f, n)
  <2> HIDE DEF S, n
  <2>1. n \in S
    BY <1>1, <1>2, UpTo
  <2> QED
    BY <2>1 DEF S
<1> DEFINE f == CHOOSE g : Upto(g, n)
<1>4. Upto(f, n)
  BY <1>3
<1>5. Search(dates, x) = f[<<n, 0>>]
  BY DEF Search, Turn, Places
<1> HIDE DEF f
<1>6. \A at \in Places(dates, n) : f[at] = Turn(dates, x, f, at)
  <2> HIDE DEF n
  <2> QED
    BY <1>4
<1> QED
  BY <1>5, <1>6

\* The least power of two above n, and the ones before it.
LEMMA PowersAre ==
  ASSUME NEW n \in Nat, NEW f,
         \A k \in 0 .. n : f[k] = IF k = 0 THEN 1 ELSE 2 * f[k \div 2]
  PROVE  \A k \in 0 .. n : f[k] \in Nat /\ k < f[k] /\ f[k] <= f[n]
<1> DEFINE S == {k \in 0 .. n : /\ f[k] \in Nat /\ k < f[k]
                                /\ \A j \in 0 .. k : f[j] <= f[k]}
<1>1. ASSUME NEW k \in 0 .. n, \A j \in 0 .. k - 1 : j \in S PROVE k \in S
  <2>1. CASE k = 0
    <3>1. f[0] = 1
      OBVIOUS
    <3> QED
      BY <2>1, <3>1
  <2>2. CASE k # 0
    <3> DEFINE h == k \div 2
    <3>1. h \in 0 .. k - 1 /\ k <= 2 * h + 1 /\ h \in 0 .. n
      BY <2>2
    <3>2. f[k] = 2 * f[h]
      BY <2>2
    <3>3. f[h] \in Nat /\ h < f[h] /\ \A j \in 0 .. h : f[j] <= f[h]
      BY <1>1, <3>1
    <3> HIDE DEF h
    <3>4. f[k] \in Nat /\ k < f[k]
      BY <3>1, <3>2, <3>3
    <3>5. ASSUME NEW j \in 0 .. k PROVE f[j] <= f[k]
      <4>1. CASE j = k
        BY <3>4, <4>1
      <4>2. CASE j = 0
        BY <3>4, <4>2
      <4>3. CASE j # 0 /\ j # k
        <5> DEFINE i == j \div 2
        <5>1. i \in 0 .. h
          BY <3>1, <4>3 DEF h
        <5>2. f[j] = 2 * f[i]
          BY <4>3
        <5> HIDE DEF i
        <5>3. f[i] <= f[h] /\ f[i] \in Nat
          <6>1. i \in 0 .. k - 1
            BY <3>1, <5>1
          <6> QED
            BY <1>1, <3>3, <5>1, <6>1
        <5> QED
          BY <3>2, <3>3, <5>2, <5>3
      <4> QED
        BY <4>1, <4>2, <4>3
    <3> QED
      BY <3>4, <3>5
  <2> QED
    BY <2>1, <2>2
<1>2. \A k \in 0 .. n : k \in S
  <2> HIDE DEF S
  <2> QED
    BY <1>1, UpTo
<1>3. n \in S
  BY <1>2
<1> QED
  BY <1>2, <1>3

\* add goes down the powers of two: whatever is tested, the place is at idx or
\* at most add behind it, and idx itself was found to be before the place.
LEMMA SearchFinds ==
  ASSUME NEW dates, Len(dates) \in Nat, NEW x, NEW p \in 0 .. Len(dates),
         \A i \in Nat : NotLater(dates, i, x) <=> i < p
  PROVE  Search(dates, x) = p
<1> DEFINE n == Len(dates)
           start == 2 * ShiftedByFlsl(n)
<1>1. PICK power : /\ ShiftedByFlsl(n) = power[n]
                   /\ \A k \in 0 .. n :
                        power[k] = IF k = 0 THEN 1 ELSE 2 * power[k \div 2]
  BY ShiftUnrolled
<1>2. \A k \in 0 .. n : power[k] \in Nat /\ k < power[k] /\ power[k] <= power[n]
  BY <1>1, PowersAre
<1>3. power[n] \in Nat /\ n < power[n] /\ start = 2 * power[n]
  BY <1>1, <1>2
<1>4. PICK try : /\ Search(dates, x) = try[<<start, 0>>]
                 /\ \A at \in Places(dates, start) : try[at] = Turn(dates, x, try, at)
  BY <1>1, <1>3, SearchUnrolled
<1> DEFINE Between(idx, add) == (idx = 0 \/ idx < p) /\ p <= idx + add
           Good(add) == \A idx \in 0 .. n : Between(idx, add) => try[<<add, idx>>] = p
           S == {k \in 0 .. n : Good(power[k])}
<1>5. ASSUME NEW add \in 0 .. start, NEW idx \in 0 .. n,
             NEW half, half = add \div 2,
             NEW then, then = IF idx + half < p THEN idx + half ELSE idx
      PROVE  try[<<add, idx>>] = IF half > 0 THEN try[<<half, then>>]
                                 ELSE IF idx + half < p THEN then + 1 ELSE then
  <2> DEFINE at == <<add, idx>>
  <2>1. at \in Places(dates, start) /\ at[1] = add /\ at[2] = idx
    BY DEF Places
  <2>2. try[at] = Turn(dates, x, try, at)
    BY <1>4, <2>1
  <2>3. add \in Nat /\ add \div 2 \in Nat
    BY <1>3
  <2>4. NotLater(dates, idx + half, x) <=> idx + half < p
    BY <1>5, <2>3
  <2> HIDE DEF at
  <2>5. try[at] = LET leq == NotLater(dates, idx + half, x)
                      to  == IF leq THEN idx + half ELSE idx
                  IN  IF half > 0 THEN try[<<half, to>>]
                      ELSE IF leq THEN to + 1 ELSE to
    BY <1>5, <2>1, <2>2 DEF Turn
  <2> QED
    BY <1>5, <2>4, <2>5 DEF at
<1>6. Good(1)
  <2> SUFFICES ASSUME NEW idx \in 0 .. n, Between(idx, 1)
               PROVE  try[<<1, idx>>] = p
    OBVIOUS
  <2>1. 1 \in 0 .. start /\ 0 = 1 \div 2 /\ ~(0 > 0)
        /\ idx = IF idx + 0 < p THEN idx + 0 ELSE idx
    BY <1>3
  <2>2. try[<<1, idx>>] = IF idx + 0 < p THEN idx + 1 ELSE idx
    BY <1>5, <2>1
  <2> QED
    BY <2>2
<1>7. ASSUME NEW h \in Nat, h > 0, 2 * h <= start, Good(h) PROVE Good(2 * h)
  <2> SUFFICES ASSUME NEW idx \in 0 .. n, Between(idx, 2 * h)
               PROVE  try[<<2 * h, idx>>] = p
    OBVIOUS
  <2> DEFINE next == IF idx + h < p THEN idx + h ELSE idx
  <2>1. 2 * h \in 0 .. start /\ (2 * h) \div 2 = h
    BY <1>3, <1>7
  <2>2. try[<<2 * h, idx>>] = try[<<h, next>>]
    BY <1>5, <1>7, <2>1
  <2>3. next \in 0 .. n /\ Between(next, h)
    OBVIOUS
  <2> HIDE DEF next
  <2>4. try[<<h, next>>] = p
    BY <1>7, <2>3
  <2> QED
    BY <2>2, <2>4
<1>8. ASSUME NEW k \in 0 .. n, \A j \in 0 .. k - 1 : j \in S PROVE k \in S
  <2>1. CASE k = 0
    <3>1. power[0] = 1
      BY <1>1
    <3> QED
      BY <1>6, <2>1, <3>1
  <2>2. CASE k # 0
    <3>1. k \div 2 \in 0 .. k - 1
      BY <2>2, HalfIs
    <3>2. power[k] = 2 * power[k \div 2]
      BY <1>1, <2>2
    <3> DEFINE h == power[k \div 2]
    <3>3. h \in Nat /\ h > 0 /\ 2 * h <= start
      <4>1. k \div 2 \in 0 .. n
        BY <3>1
      <4>2. power[k \div 2] \in Nat /\ k \div 2 < power[k \div 2]
            /\ power[k \div 2] <= power[n]
        BY <1>2, <4>1
      <4> HIDE DEF start
      <4> QED
        BY <1>3, <3>1, <4>2
    <3>4. Good(h)
      BY <1>8, <3>1
    <3> HIDE DEF h, Good
    <3>5. Good(2 * h)
      BY <1>7, <3>3, <3>4
    <3> QED
      BY <3>2, <3>5 DEF h
  <2> QED
    BY <2>1, <2>2
<1>9. Good(power[n])
  <2> HIDE DEF S, Good
  <2>1. n \in S
    BY <1>8, UpTo
  <2> QED
    BY <2>1 DEF S
<1>10. Between(0, power[n])
  BY <1>3
<1>11. try[<<power[n], 0>>] = p
  BY <1>9, <1>10
<1>12. /\ start \in 0 .. start /\ 0 \in 0 .. n
       /\ power[n] = start \div 2 /\ power[n] > 0
       /\ 0 = IF 0 + power[n] < p THEN 0 + power[n] ELSE 0
  BY <1>3
<1> HIDE DEF start
<1>13. try[<<start, 0>>] = try[<<power[n], 0>>]
  BY <1>5, <1>12
<1> QED
  BY <1>4, <1>11, <1>13

\* The dates of an array that is in order.
Ascending(dates) == \A i, j \in 1 .. Len(dates) : i < j => dates[i] <= dates[j]

LEMMA NotLaterAre ==
  ASSUME NEW dates \in Seq(Nat), Ascending(dates), NEW x \in Nat,
         NEW p, p = Cardinality({i \in DOMAIN dates : dates[i] <= x})
  PROVE  /\ p \in 0 .. Len(dates)
         /\ \A i \in 1 .. Len(dates) : dates[i] <= x <=> i <= p
<1> DEFINE n == Len(dates)
           D == {i \in 1 .. n : dates[i] <= x}
<1>1. n \in Nat /\ DOMAIN dates = 1 .. n /\ \A i \in 1 .. n : dates[i] \in Nat
  BY LenProperties, ElementOfSeq
<1>2. \A i, j \in 1 .. n : i <= j => dates[i] <= dates[j]
  BY <1>1 DEF Ascending
<1>3. D \in SUBSET (1 .. n) /\ \A i \in D, j \in 1 .. n : j <= i => j \in D
  <2> SUFFICES ASSUME NEW i \in D, NEW j \in 1 .. n, j <= i PROVE j \in D
    OBVIOUS
  <2>1. dates[j] <= dates[i] /\ dates[i] <= x
    BY <1>2
  <2> QED
    BY <1>1, <2>1
<1>4. PICK h \in 0 .. n : D = 1 .. h
  <2> HIDE DEF D
  <2> QED
    BY <1>1, <1>3, Interval1
<1>5. p = h
  <2>1. p = Cardinality(D)
    BY <1>1
  <2> HIDE DEF D
  <2>2. Cardinality(1 .. h) = h
    BY <1>1, CountTo
  <2> QED
    BY <1>4, <2>1, <2>2
<1>6. \A i \in 1 .. n : dates[i] <= x <=> i <= p
  <2> TAKE i \in 1 .. n
  <2>1. i \in D <=> dates[i] <= x
    OBVIOUS
  <2> HIDE DEF D
  <2> QED
    BY <1>1, <1>4, <1>5, <2>1
<1> QED
  BY <1>1, <1>5, <1>6

\* __CFRunLoopInsertionIndexInTimerArray finds the place behind all that are
\* not later, in an array in order of any length.
LEMMA InsertionIs ==
  ASSUME NEW dates \in Seq(Nat), Ascending(dates), NEW x \in Nat,
         NEW p, p = Cardinality({i \in DOMAIN dates : dates[i] <= x})
  PROVE  InsertionIndex(dates, x) = p
<1> DEFINE n == Len(dates)
<1>1. /\ p \in 0 .. n
      /\ \A i \in 1 .. n : dates[i] <= x <=> i <= p
  BY NotLaterAre
<1>2. n \in Nat /\ Limit \in Nat /\ \A i \in 1 .. n : dates[i] \in Nat
  BY LenProperties, ElementOfSeq, ArrayAssumption
<1>3. CASE n > Limit /\ Last(dates) <= x
  <2>1. n \in 1 .. n /\ dates[n] <= x
    BY <1>2, <1>3 DEF Last
  <2>2. p = n
    BY <1>1, <1>2, <2>1
  <2> QED
    BY <1>3, <2>2 DEF InsertionIndex
<1>4. CASE n > Limit /\ x < Head(dates) /\ ~(Last(dates) <= x)
  <2>1. 1 \in 1 .. n /\ Head(dates) = dates[1]
    BY <1>2, <1>4
  <2>2. ~(dates[1] <= x)
    BY <1>2, <1>4, <2>1
  <2>3. p = 0
    BY <1>1, <1>2, <2>1, <2>2
  <2> QED
    BY <1>4, <2>3 DEF InsertionIndex
<1>5. CASE dates = <<>>
  <2>1. n = 0
    BY <1>5
  <2>2. p = 0 /\ ~(n > Limit)
    BY <1>1, <1>2, <2>1
  <2> QED
    BY <1>5, <2>2 DEF InsertionIndex
<1>6. CASE /\ ~(n > Limit /\ Last(dates) <= x) /\ ~(n > Limit /\ x < Head(dates))
           /\ dates # <<>>
  <2>1. ASSUME NEW i \in Nat PROVE NotLater(dates, i, x) <=> i < p
    <3>1. CASE i < n
      <4>1. i + 1 \in 1 .. n
        BY <1>2, <3>1
      <4>2. dates[i + 1] <= x <=> i + 1 <= p
        BY <1>1, <4>1
      <4> QED
        BY <1>1, <1>2, <3>1, <4>2 DEF NotLater
    <3>2. CASE ~(i < n)
      BY <1>1, <1>2, <3>2 DEF NotLater
    <3> QED
      BY <3>1, <3>2
  <2>2. Search(dates, x) = p
    BY <1>1, <1>2, <2>1, SearchFinds
  <2> QED
    BY <1>6, <2>2 DEF InsertionIndex
<1> QED
  BY <1>3, <1>4, <1>5, <1>6

-----------------------------------------------------------------------------
(* The array under all insertions and removals.                             *)

\* The (soft, hard) deadlines of a timer.
Item == {q \in (0 .. Never) \X (0 .. Never) : q[1] <= q[2]}

InOrder(s) == \A i, j \in 1 .. Len(s) : i < j => s[i][1] <= s[j][1]

ArrayInv == array \in Seq(Item) /\ InOrder(array)

LEMMA ItemsAre ==
  ASSUME NEW s \in Seq(Item)
  PROVE  /\ Len(s) \in Nat /\ DOMAIN s = 1 .. Len(s)
         /\ \A i \in 1 .. Len(s) :
              /\ s[i] \in Item /\ s[i][1] \in Nat /\ s[i][2] \in Nat
              /\ s[i][1] <= s[i][2] /\ s[i][2] <= Never
<1>1. /\ Len(s) \in Nat /\ DOMAIN s = 1 .. Len(s)
      /\ \A i \in 1 .. Len(s) : s[i] \in Item
  BY LenProperties, ElementOfSeq
<1>2. \A q \in Item : q[1] \in Nat /\ q[2] \in Nat /\ q[1] <= q[2] /\ q[2] <= Never
  BY ArrayAssumption DEF Item
<1> QED
  BY <1>1, <1>2

LEMMA DatesAre ==
  ASSUME NEW s \in Seq(Item), InOrder(s)
  PROVE  /\ DatesOf(s) \in Seq(Nat) /\ Ascending(DatesOf(s))
         /\ Len(DatesOf(s)) = Len(s) /\ DOMAIN DatesOf(s) = 1 .. Len(s)
         /\ \A i \in 1 .. Len(s) : DatesOf(s)[i] = s[i][1]
<1> DEFINE d == DatesOf(s)
           n == Len(s)
<1>1. /\ n \in Nat /\ DOMAIN s = 1 .. n
      /\ \A i \in 1 .. n : s[i][1] \in Nat
  BY ItemsAre
<1>2. d = [i \in 1 .. n |-> s[i][1]]
  BY <1>1 DEF DatesOf
<1> HIDE DEF d, n
<1>3. d \in [1 .. n -> Nat] /\ DOMAIN d = 1 .. n
      /\ \A i \in 1 .. n : d[i] = s[i][1]
  BY <1>1, <1>2
<1>4. d \in Seq(Nat)
  BY <1>1, <1>3
<1>5. Len(d) = n
  BY <1>1, <1>3, <1>4
<1>6. Ascending(d)
  BY <1>3, <1>5 DEF Ascending, InOrder, n
<1> QED
  BY <1>3, <1>4, <1>5, <1>6 DEF d, n

\* What the search finds in an array in order.
LEMMA FoundIs ==
  ASSUME NEW s \in Seq(Item), InOrder(s), NEW x \in Nat
  PROVE  LET p == InsertionIndex(DatesOf(s), x) IN
         /\ p = Cardinality({i \in DOMAIN s : s[i][1] <= x})
         /\ p \in 0 .. Len(s)
         /\ \A i \in 1 .. Len(s) : s[i][1] <= x <=> i <= p
<1> DEFINE d == DatesOf(s)
           D == {i \in DOMAIN s : s[i][1] <= x}
           E == {i \in DOMAIN d : d[i] <= x}
           p == Cardinality(E)
           c == Cardinality(D)
<1>1. /\ d \in Seq(Nat) /\ Ascending(d) /\ Len(d) = Len(s)
      /\ DOMAIN d = DOMAIN s /\ \A i \in 1 .. Len(s) : d[i] = s[i][1]
      /\ DOMAIN s = 1 .. Len(s)
  BY DatesAre, ItemsAre
<1>2. E = D
  BY <1>1
<1> HIDE DEF d
<1>3. InsertionIndex(d, x) = p
  BY <1>1, InsertionIs
<1>4. p \in 0 .. Len(d) /\ \A i \in 1 .. Len(d) : d[i] <= x <=> i <= p
  BY <1>1, NotLaterAre
<1>5. p = c
  BY <1>2
<1> HIDE DEF p, c
<1> QED
  BY <1>1, <1>3, <1>4, <1>5 DEF d, c

\* An item that is put there keeps an array in order.
LEMMA PutKeeps ==
  ASSUME NEW s \in Seq(Item), InOrder(s), NEW t \in Item, NEW p \in 0 .. Len(s),
         \A i \in 1 .. Len(s) : s[i][1] <= t[1] <=> i <= p
  PROVE  LET r == InsertAt(s, p + 1, t) IN r \in Seq(Item) /\ InOrder(r)
<1> DEFINE n == Len(s)
           r == InsertAt(s, p + 1, t)
<1>1. /\ n \in Nat /\ p \in 0 .. n /\ t[1] \in Nat
      /\ \A i \in 1 .. n : s[i][1] \in Nat /\ (s[i][1] <= t[1] <=> i <= p)
  BY ItemsAre DEF Item
<1>2. \A i, j \in 1 .. n : i <= j => s[i][1] <= s[j][1]
  BY <1>1 DEF InOrder
<1>3. /\ r \in Seq(Item) /\ Len(r) = n + 1
      /\ \A i \in 1 .. Len(r) : r[i] = IF i <= p THEN s[i]
                                       ELSE IF i = p + 1 THEN t ELSE s[i - 1]
  BY InsertedAt
<1> HIDE DEF n, r
<1>4. \A i \in 1 .. n + 1 : r[i] = IF i <= p THEN s[i]
                                   ELSE IF i = p + 1 THEN t ELSE s[i - 1]
  BY <1>3
<1>5. ASSUME NEW i \in 1 .. n, NEW j \in 1 .. n + 1, i < j
      PROVE  r[i][1] <= r[j][1]
  <2>1. CASE j <= p
    <3>1. i \in 1 .. n /\ j \in 1 .. n /\ r[i] = s[i] /\ r[j] = s[j]
      BY <1>1, <1>4, <1>5, <2>1
    <3> QED
      BY <1>2, <1>5, <3>1
  <2>2. CASE j = p + 1
    <3>1. r[i] = s[i] /\ i <= p /\ r[j] = t
      BY <1>1, <1>4, <1>5, <2>2
    <3> QED
      BY <1>1, <3>1
  <2>3. CASE j > p + 1
    <3>1. r[j] = s[j - 1] /\ j - 1 \in 1 .. n /\ ~(j - 1 <= p)
      BY <1>1, <1>4, <2>3
    <3>2. ~(s[j - 1][1] <= t[1]) /\ s[j - 1][1] \in Nat
      BY <1>1, <3>1
    <3>3. CASE i <= p
      <4>1. i \in 1 .. n + 1 /\ r[i] = s[i]
        BY <1>1, <1>4, <3>3
      <4>2. s[i][1] <= t[1] /\ s[i][1] \in Nat
        BY <1>1, <3>3
      <4> QED
        BY <1>1, <3>1, <3>2, <4>1, <4>2
    <3>4. CASE i = p + 1
      <4>1. r[i] = t
        BY <1>1, <1>4, <3>4
      <4> QED
        BY <1>1, <3>1, <3>2, <4>1
    <3>5. CASE i > p + 1
      <4>1. r[i] = s[i - 1] /\ i - 1 \in 1 .. n /\ i - 1 <= j - 1
        BY <1>1, <1>4, <1>5, <3>5
      <4> QED
        BY <1>2, <3>1, <4>1
    <3> QED
      BY <1>1, <3>3, <3>4, <3>5
  <2> QED
    BY <1>1, <2>1, <2>2, <2>3
<1>6. \A i, j \in 1 .. n + 1 : i < j => i \in 1 .. n
  BY <1>1
<1>7. InOrder(r)
  BY <1>3, <1>5, <1>6 DEF InOrder
<1> QED
  BY <1>3, <1>7 DEF r

LEMMA TakeKeeps ==
  ASSUME NEW s \in Seq(Item), InOrder(s), NEW k \in DOMAIN s
  PROVE  LET r == RemoveAt(s, k) IN r \in Seq(Item) /\ InOrder(r)
<1> DEFINE n == Len(s)
           r == RemoveAt(s, k)
<1>1. n \in Nat /\ k \in 1 .. n
  BY ItemsAre
<1>2. /\ r \in Seq(Item) /\ Len(r) = n - 1
      /\ \A i \in 1 .. Len(r) : r[i] = IF i < k THEN s[i] ELSE s[i + 1]
  BY <1>1, RemovedAt
<1>3. \A i, j \in 1 .. n : i < j => s[i][1] <= s[j][1]
  BY DEF InOrder
<1> HIDE DEF n, r
<1>4. ASSUME NEW i \in 1 .. n - 1, NEW j \in 1 .. n - 1, i < j
      PROVE  r[i][1] <= r[j][1]
  <2> DEFINE a == IF i < k THEN i ELSE i + 1
             b == IF j < k THEN j ELSE j + 1
  <2>1. a \in 1 .. n /\ b \in 1 .. n /\ a < b
    BY <1>1, <1>4
  <2>2. r[i] = s[a] /\ r[j] = s[b]
    BY <1>2
  <2> HIDE DEF a, b
  <2>3. s[a][1] <= s[b][1]
    BY <1>3, <2>1
  <2> QED
    BY <2>2, <2>3
<1>5. InOrder(r)
  BY <1>1, <1>2, <1>4 DEF InOrder
<1> QED
  BY <1>2, <1>5 DEF r

LEMMA ArrayStep == ArrayInv /\ [ArrayNext]_array => ArrayInv'
<1> SUFFICES ASSUME ArrayInv, [ArrayNext]_array PROVE ArrayInv'
  OBVIOUS
<1>1. array \in Seq(Item) /\ InOrder(array)
  BY DEF ArrayInv
<1>2. CASE PutTimer
  <2>1. PICK d \in FireDates, tolerance \in Tolerances :
          array' = InsertAt(array, InsertionIndex(DatesOf(array), d) + 1,
                            <<d, Earliest({d + tolerance})>>)
    BY <1>2 DEF PutTimer
  <2>2. d \in Nat /\ d <= Never /\ tolerance \in Nat /\ Never \in Nat
    BY TimerArraysAssumption, ArrayAssumption
  <2> DEFINE h == Earliest({d + tolerance})
             t == <<d, h>>
             p == InsertionIndex(DatesOf(array), d)
             r == InsertAt(array, p + 1, t)
  <2>3. h \in {d + tolerance, Never} /\ h <= Never
    <3>1. {d + tolerance} \in SUBSET Nat
      BY <2>2
    <3> QED
      BY <3>1, EarliestOf
  <2>4. t \in Item /\ t[1] = d
    <3> HIDE DEF h
    <3> QED
      BY <2>2, <2>3 DEF Item
  <2>5. p \in 0 .. Len(array) /\ \A i \in 1 .. Len(array) : array[i][1] <= d <=> i <= p
    BY <1>1, <2>2, FoundIs
  <2> HIDE DEF t, p
  <2>6. r \in Seq(Item) /\ InOrder(r)
    BY <1>1, <2>4, <2>5, PutKeeps
  <2>7. array' = r
    BY <2>1 DEF t, p
  <2> QED
    BY <2>6, <2>7 DEF ArrayInv
<1>3. CASE TakeTimer
  <2>1. PICK k \in DOMAIN array : array' = RemoveAt(array, k)
    BY <1>3 DEF TakeTimer
  <2> DEFINE r == RemoveAt(array, k)
  <2>2. r \in Seq(Item) /\ InOrder(r)
    BY <1>1, TakeKeeps
  <2> QED
    BY <2>1, <2>2 DEF ArrayInv
<1>4. CASE UNCHANGED array
  BY <1>1, <1>4 DEF ArrayInv
<1> QED
  BY <1>2, <1>3, <1>4 DEF ArrayNext

\* The earliest of the times in X are those in Y, if some in X are as early.
LEMMA AsEarly ==
  ASSUME NEW Y \in SUBSET Nat, NEW X \in SUBSET Y,
         \A y \in Y : \E x \in X : x <= y
  PROVE  Earliest(X) = Earliest(Y)
<1> DEFINE a == Earliest(X)
           b == Earliest(Y)
<1>1. X \in SUBSET Nat /\ Never \in Nat
  BY ArrayAssumption
<1>2. /\ a \in X \cup {Never} /\ a <= Never /\ \A x \in X : a <= x
      /\ b \in Y \cup {Never} /\ b <= Never /\ \A y \in Y : b <= y
  BY <1>1, EarliestOf
<1> HIDE DEF a, b
<1>3. a \in Nat /\ b \in Nat
  BY <1>1, <1>2
<1>4. b <= a
  BY <1>1, <1>2
<1>5. a <= b
  <2>1. CASE b = Never
    BY <1>2, <2>1
  <2>2. CASE b \in Y
    <3>1. PICK x \in X : x <= b
      BY <2>2
    <3> QED
      BY <1>1, <1>2, <1>3, <3>1
  <2> QED
    BY <1>2, <2>1, <2>2
<1> QED
  BY <1>3, <1>4, <1>5 DEF a, b

\* __CFArmNextTimerInMode
LEMMA ScanFinds ==
  ASSUME NEW n \in Nat, NEW P \in SUBSET (Nat \X Nat \X Nat),
         \A p \in P : p[1] \in 1 .. n /\ p[2] <= p[3],
         \A q, r \in P : q[1] <= r[1] => q[2] <= r[2]
  PROVE  Deadlines[P] = [soft |-> Earliest({p[2] : p \in P}),
                         hard |-> Earliest({p[3] : p \in P})]
<1> DEFINE V == Visited(P)
           A == {p[2] : p \in V}
           B == {p[3] : p \in V}
           S == {p[2] : p \in P}
           H == {p[3] : p \in P}
<1>1. V \subseteq P
  BY DEF Visited
<1>2. \A p \in P : p[2] \in Nat /\ p[3] \in Nat
  OBVIOUS
<1>3. \A p \in P : \E v \in V : v[2] <= p[2] /\ v[3] <= p[3]
  BY <1>2, ScanVisits
<1> HIDE DEF V
<1>4. Earliest(A) = Earliest(S)
  <2>1. S \in SUBSET Nat /\ A \in SUBSET S
    BY <1>1, <1>2
  <2>2. ASSUME NEW y \in S PROVE \E x \in A : x <= y
    <3>1. PICK p \in P : y = p[2]
      BY <2>2
    <3>2. PICK v \in V : v[2] <= p[2]
      BY <1>3
    <3>3. v[2] \in A
      OBVIOUS
    <3> HIDE DEF A
    <3> QED
      BY <3>1, <3>2, <3>3
  <2> HIDE DEF A, S
  <2> QED
    BY <2>1, <2>2, AsEarly
<1>5. Earliest(B) = Earliest(H)
  <2>1. H \in SUBSET Nat /\ B \in SUBSET H
    BY <1>1, <1>2
  <2>2. ASSUME NEW y \in H PROVE \E x \in B : x <= y
    <3>1. PICK p \in P : y = p[3]
      BY <2>2
    <3>2. PICK v \in V : v[3] <= p[3]
      BY <1>3
    <3>3. v[3] \in B
      OBVIOUS
    <3> HIDE DEF B
    <3> QED
      BY <3>1, <3>2, <3>3
  <2> HIDE DEF B, H
  <2> QED
    BY <2>1, <2>2, AsEarly
<1>6. Deadlines[P] = [soft |-> Earliest(A), hard |-> Earliest(B)]
  BY DeadlinesAre DEF V
<1> HIDE DEF A, B, S, H
<1>7. Deadlines[P] = [soft |-> Earliest(S), hard |-> Earliest(H)]
  BY <1>4, <1>5, <1>6
<1> QED
  BY <1>7 DEF S, H

LEMMA InvGivesRight == ArrayInv => SearchAndScanAreRight
<1> SUFFICES ASSUME ArrayInv PROVE SearchAndScanAreRight
  OBVIOUS
<1>1. array \in Seq(Item) /\ InOrder(array)
  BY DEF ArrayInv
<1>2. ASSUME NEW x \in FireDates
      PROVE  InsertionIndex(DatesOf(array), x)
               = Cardinality({i \in DOMAIN array : array[i][1] <= x})
  <2>1. x \in Nat
    BY TimerArraysAssumption, ArrayAssumption
  <2> QED
    BY <1>1, <2>1, FoundIs
<1>3. ASSUME NEW S \in SUBSET DOMAIN array
      PROVE  Deadlines[{<<i, array[i][1], array[i][2]>> : i \in S}]
               = [soft |-> Min({Never} \cup {array[i][1] : i \in S}),
                  hard |-> Min({Never} \cup {array[i][2] : i \in S})]
  <2> DEFINE n == Len(array)
             P == {<<i, array[i][1], array[i][2]>> : i \in S}
             A == {p[2] : p \in P}
             B == {p[3] : p \in P}
  <2>1. /\ n \in Nat /\ S \subseteq 1 .. n
        /\ \A i \in 1 .. n : /\ array[i][1] \in Nat /\ array[i][2] \in Nat
                             /\ array[i][1] <= array[i][2]
        /\ \A i, j \in 1 .. n : i <= j => array[i][1] <= array[j][1]
    <3>1. /\ n \in Nat /\ S \subseteq 1 .. n
          /\ \A i \in 1 .. n : /\ array[i][1] \in Nat /\ array[i][2] \in Nat
                               /\ array[i][1] <= array[i][2]
      BY <1>1, ItemsAre
    <3> QED
      BY <1>1, <3>1 DEF InOrder
  <2> HIDE DEF n
  <2>2. /\ P \in SUBSET (Nat \X Nat \X Nat)
        /\ \A p \in P : /\ p[1] \in S
                        /\ p[2] = array[p[1]][1] /\ p[3] = array[p[1]][2]
    BY <2>1
  <2>3. A = {array[i][1] : i \in S} /\ B = {array[i][2] : i \in S}
    <3>1. ASSUME NEW i \in S PROVE \E p \in P : p[1] = i
      <4> DEFINE p == <<i, array[i][1], array[i][2]>>
      <4>1. p \in P /\ p[1] = i
        OBVIOUS
      <4> QED
        BY <4>1
    <3> HIDE DEF P
    <3>2. ASSUME NEW i \in S PROVE array[i][1] \in A /\ array[i][2] \in B
      <4>1. PICK p \in P : p[1] = i
        BY <3>1
      <4>2. p[2] \in A /\ p[3] \in B
        OBVIOUS
      <4> QED
        BY <2>2, <4>1, <4>2
    <3> QED
      BY <2>2, <3>2
  <2> HIDE DEF P
  <2>4. /\ \A p \in P : p[1] \in 1 .. n /\ p[2] <= p[3]
        /\ \A q, r \in P : q[1] <= r[1] => q[2] <= r[2]
    BY <2>1, <2>2
  <2>5. Deadlines[P] = [soft |-> Earliest(A), hard |-> Earliest(B)]
    BY <2>1, <2>2, <2>4, ScanFinds
  <2> HIDE DEF A, B
  <2>6. \A X : Earliest(X) = Min({Never} \cup X)
    <3> TAKE X
    <3>1. X \cup {Never} = {Never} \cup X
      OBVIOUS
    <3> QED
      BY <3>1 DEF Earliest
  <2>7. Deadlines[P] = [soft |-> Min({Never} \cup {array[i][1] : i \in S}),
                        hard |-> Min({Never} \cup {array[i][2] : i \in S})]
    BY <2>3, <2>5, <2>6
  <2> QED
    BY <2>7 DEF P
<1> QED
  BY <1>2, <1>3 DEF SearchAndScanAreRight

\* However timers come and go, the binary search finds the place for the next
\* one and the scan the deadlines.
THEOREM SearchesAndScans == ArraySpec => []SearchAndScanAreRight
<1>1. ArrayInit => ArrayInv
  <2> SUFFICES ASSUME ArrayInit PROVE ArrayInv
    OBVIOUS
  <2>1. array = <<>>
    BY DEF ArrayInit
  <2>2. array \in Seq(Item) /\ Len(array) = 0
    BY <2>1
  <2>3. InOrder(array)
    BY <2>2 DEF InOrder
  <2> QED
    BY <2>2, <2>3 DEF ArrayInv
<1>2. ArrayInv /\ [ArrayNext]_array => ArrayInv'
  BY ArrayStep
<1>3. ArrayInv => SearchAndScanAreRight
  BY InvGivesRight
<1> QED
  BY <1>1, <1>2, <1>3, PTL DEF ArraySpec

-----------------------------------------------------------------------------
(* The place that RunLoopTimers has for a timer is the one of the search.   *)

THEOREM PlaceIsFound ==
  ASSUME NEW s, Array(s), NEW t \in Timers, NEW d \in [Timers -> Dates],
         Ordered(s, d)
  PROVE  InsertionIndex([i \in DOMAIN s |-> d[s[i]]], d[t]) = Place(s, t, d)
<1> DEFINE n == Len(s)
           f == [i \in DOMAIN s |-> d[s[i]]]
           x == d[t]
           E == {i \in DOMAIN f : f[i] <= x}
<1>1. /\ n \in Nat /\ DOMAIN s = 1 .. n
      /\ \A i \in 1 .. n : s[i] \in Timers /\ d[s[i]] \in Nat
      /\ x \in Nat
  BY ToSetIs, HardIs
<1>2. DOMAIN f = 1 .. n /\ f \in [1 .. n -> Nat] /\ \A i \in 1 .. n : f[i] = d[s[i]]
  BY <1>1
<1>3. E = {i \in DOMAIN s : d[s[i]] <= d[t]}
  BY <1>1, <1>2
<1> HIDE DEF f, n
<1>4. f \in Seq(Nat)
  BY <1>1, <1>2
<1>5. Len(f) = n
  BY <1>1, <1>2, <1>4
<1>6. Ascending(f)
  BY <1>2, <1>5 DEF Ascending, Ordered, n
<1> HIDE DEF E, x
<1>7. InsertionIndex(f, x) = Cardinality(E)
  <2> DEFINE p == Cardinality(E)
  <2>1. p = Cardinality({i \in DOMAIN f : f[i] <= x})
    BY DEF E
  <2> HIDE DEF p
  <2>2. InsertionIndex(f, x) = p
    BY <1>1, <1>4, <1>6, <2>1, InsertionIs
  <2> QED
    BY <2>2 DEF p
<1> QED
  BY <1>3, <1>7 DEF Place, f, x
=============================================================================
