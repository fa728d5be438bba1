--------------------------- MODULE RunLoopTimers ---------------------------
(***************************************************************************)
(* Timers of one run loop: the sorted array and the armed deadlines of each *)
(* mode, firing, and the calls by which the loop's thread (from a timer's   *)
(* callout) and other threads add, remove, move and invalidate timers.      *)
(*                                                                          *)
(* A step is the code between two points at which a thread takes or drops   *)
(* the run loop lock.  The kernel's timer of a mode delivers an event some  *)
(* time after the soft deadline; the event stays until the mode's ports are *)
(* looked at.                                                               *)
(***************************************************************************)
EXTENDS TimerArray, FiniteSets

CONSTANTS Timers, Modes,
          Clients,      \* threads other than the loop's
          LoopThread,
          Allowed,      \* Allowed[c]: the calls that thread c makes
          Interval,     \* Interval[t]: 0 if t fires once
          Tolerance,    \* Tolerance[t]
          FirstDates,   \* fire dates of new timers
          LastDate,     \* LLONG_MAX: the date of one that never fires again
          MaxTime, MaxDepth,
          Early         \* how much too early an event may come

Callers    == Clients \cup {LoopThread}
Operations == {"add", "common", "remove", "set", "invalidate"}
Free       == "free"

ASSUME TimersAssumption ==
  /\ LoopThread \notin Clients /\ Free \notin Callers
  /\ Modes # {} /\ Timers # {} /\ IsFiniteSet(Timers)
  /\ Allowed \in [Callers -> SUBSET Operations]
  /\ Interval \in [Timers -> Nat] /\ Tolerance \in [Timers -> Nat]
  /\ FirstDates \subseteq 0..LastDate
  /\ MaxTime \in Nat /\ LastDate \in Nat
  /\ MaxTime < LastDate /\ LastDate < Never
  /\ \A t \in Timers : MaxTime + Interval[t] <= LastDate
                              \* for "conservative arithmetic safety"
  /\ MaxDepth \in Nat /\ Early \in Nat

VARIABLES now,          \* mach_absolute_time
          date,         \* date[t]: _fireTSR
          valid, firing,\* the timers with these bits
          modesOf,      \* modesOf[t]: _rlModes; _runLoop is NULL if empty
          mode,         \* mode[m]: array, deadlines and kernel timer
          lock,         \* the owner of the run loop lock
          stack,        \* the runs of the loop, the outermost first
          call          \* call[c]: what c has yet to do under the lock

vars == <<now, date, valid, firing, modesOf, mode, lock, stack, call>>

Dates    == 0..LastDate
Limits   == [soft : Dates \cup {Never}, hard : 0..Never]
Disarmed == [soft |-> Never, hard |-> Never]
Arrays   == {s \in SeqOf(Timers, Cardinality(Timers)) : IsInjective(s)}

Mode  == [timers : Arrays,
          limits : Limits,      \* _timerSoftDeadline, _timerHardDeadline
          armed  : Limits,      \* what the kernel was asked for
          ready  : BOOLEAN,     \* an event waits in the port set
          spent  : BOOLEAN]     \* history: its last event met invalid timers

Frame == [mode : Modes,
          pc : {"wait", "woken", "due", "callout", "returned"},
          due : Arrays,         \* the timers to fire, the present one first
          old : Dates,          \* oldFireTSR
          at : 0..MaxTime,      \* history: when the callout began
          handled : BOOLEAN]

Call  == [op : Operations \cup {"none"}, timer : Timers, date : Dates,
          todo : SUBSET Modes]

NoCall == [op |-> "none", timer |-> CHOOSE t \in Timers : TRUE, date |-> 0,
           todo |-> {}]

Top    == Last(stack)
Top_(f) == stack' = [stack EXCEPT ![Len(stack)] = f]
Later(x, y) == IF x < y THEN y ELSE x

\* A thread that makes a call: the loop's must be outside the loop's code.
Rests(c) ==
  /\ call[c].op = "none"
  /\ IF c = LoopThread /\ stack # <<>> THEN Top.pc = "callout" ELSE TRUE

CanLock(c) == lock \in {Free, c}

Init ==
  /\ now = 0
  /\ date \in [Timers -> FirstDates]
  /\ valid = Timers /\ firing = {}
  /\ modesOf = [t \in Timers |-> {}]
  /\ mode = [m \in Modes |-> [timers |-> <<>>, limits |-> Disarmed,
                              armed |-> Disarmed, ready |-> FALSE,
                              spent |-> FALSE]]
  /\ lock = Free
  /\ stack = <<>>
  /\ call = [c \in Callers |-> NoCall]

-----------------------------------------------------------------------------
(* The array and the deadlines of a mode.                                   *)

Hard(t, dates) == Earliest({dates[t] + Tolerance[t]})

\* __CFArmNextTimerInMode, for the new array of mode M: nothing is armed if the
\* deadlines are those there are.
ArmNext(M, timers, dates, fires) ==
  LET idle   == {i \in DOMAIN timers : timers[i] \notin fires}
      limits == Deadlines[{<<i, dates[timers[i]], Hard(timers[i], dates)>>
                             : i \in idle}]
  IN  [M EXCEPT !.timers = timers,
                !.limits = limits,
                !.armed = IF limits.soft = Never THEN Disarmed
                          ELSE IF limits = M.limits THEN @ ELSE limits]

IndexIn(s, t) == CHOOSE i \in DOMAIN s : s[i] = t
Without(M, t) == RemoveAt(M.timers, IndexIn(M.timers, t))
Has(M, t)     == t \in ToSet(M.timers)

\* __CFRunLoopInsertionIndexInTimerArray, as SearchAndScanAreRight has it.
Place(s, t, dates) == Cardinality({i \in DOMAIN s : dates[s[i]] <= dates[t]})

\* __CFRepositionTimerInMode: t goes into the array timers of mode M.
Insert(M, timers, t, dates, fires) ==
  ArmNext(M, InsertAt(timers, Place(timers, t, dates) + 1, t), dates, fires)

\* Mutant: the timer stays where it is.
RepositionInPlace(M, t, dates, fires) == ArmNext(M, M.timers, dates, fires)

\* It is taken out first; it may have left the array meanwhile.
Reposition(M, t, dates, fires) ==
  IF Has(M, t) THEN Insert(M, Without(M, t), t, dates, fires) ELSE M

RepositionIn(S, t, dates, fires) ==
  mode' = [m \in Modes |-> IF m \in S THEN Reposition(mode[m], t, dates, fires)
                                      ELSE mode[m]]

RemoveFrom(S, t) ==
  LET found == {m \in S : Has(mode[m], t)} IN
  /\ modesOf' = [modesOf EXCEPT ![t] = @ \ found]
  /\ mode' = [m \in Modes |->
                IF m \in found
                  THEN ArmNext(mode[m], Without(mode[m], t), date, firing)
                  ELSE mode[m]]

-----------------------------------------------------------------------------
(* Calls.                                                                   *)

\* CFRunLoopAddTimer looks at the valid bit before it takes the lock.
AddTimer(c, t, m) ==
  /\ "add" \in Allowed[c] /\ Rests(c)
  /\ t \in valid
  /\ call' = [call EXCEPT ![c] = [NoCall EXCEPT !.op = "add", !.timer = t,
                                                !.todo = {m}]]
  /\ UNCHANGED <<now, date, valid, firing, modesOf, mode, lock, stack>>

\* CFRunLoopAddTimer for the common modes, which are all modes here.
AddToCommonModes(c, t) ==
  /\ "common" \in Allowed[c] /\ Rests(c)
  /\ t \in valid
  /\ lock = Free /\ lock' = c
  /\ call' = [call EXCEPT ![c] = [NoCall EXCEPT !.op = "common", !.timer = t,
                                                !.todo = Modes]]
  /\ UNCHANGED <<now, date, valid, firing, modesOf, mode, stack>>

\* c has done its part for the modes S and may be done.
Finish(c, S) ==
  IF call[c].todo = S
    THEN call' = [call EXCEPT ![c] = NoCall] /\ lock' = Free
    ELSE call' = [call EXCEPT ![c].todo = @ \ S] /\ lock' = c

\* What it does under the lock for one mode; for the common modes this is a
\* call of its own, which looks at the valid bit again.
AddToMode(c, m) ==
  LET t == call[c].timer IN
  /\ call[c].op \in {"add", "common"} /\ m \in call[c].todo
  /\ CanLock(c)
  /\ IF m \in modesOf[t] \/ (call[c].op = "common" /\ t \notin valid)
       THEN UNCHANGED <<modesOf, mode>>
       ELSE /\ modesOf' = [modesOf EXCEPT ![t] = @ \cup {m}]
            /\ mode' = [mode EXCEPT
                          ![m] = Insert(@, @.timers, t, date, firing)]
  /\ Finish(c, {m})
  /\ UNCHANGED <<now, date, valid, firing, stack>>

RemoveTimer(c, t, m) ==
  /\ "remove" \in Allowed[c] /\ Rests(c)
  /\ lock = Free
  /\ Has(mode[m], t)
  /\ RemoveFrom({m}, t)
  /\ UNCHANGED <<now, date, valid, firing, lock, stack, call>>

\* CFRunLoopTimerSetNextFireDate up to the lock: the modes are noted down.
SetNextFireDate(c, t, d) ==
  /\ "set" \in Allowed[c] /\ Rests(c)
  /\ t \in valid
  /\ IF modesOf[t] = {}
       THEN date' = [date EXCEPT ![t] = Later(now, d)] /\ UNCHANGED call
       ELSE /\ call' = [call EXCEPT ![c] =
                          [op |-> "set", timer |-> t, date |-> Later(now, d),
                           todo |-> modesOf[t]]]
            /\ UNCHANGED date
  /\ UNCHANGED <<now, valid, firing, modesOf, mode, lock, stack>>

\* The rest, under the lock.
SetDate(c) ==
  LET w     == call[c]
      dates == [date EXCEPT ![w.timer] = w.date]
  IN
  /\ w.op = "set" /\ CanLock(c)
  /\ date' = dates
  /\ RepositionIn(w.todo, w.timer, dates, firing)
  /\ Finish(c, w.todo)
  /\ UNCHANGED <<now, valid, firing, modesOf, stack>>

\* CFRunLoopTimerInvalidate up to the lock.
BeginInvalidate(c, t) ==
  /\ valid' = valid \ {t}
  /\ call' = IF modesOf[t] = {} THEN call
             ELSE [call EXCEPT ![c] = [NoCall EXCEPT !.op = "invalidate",
                                         !.timer = t, !.todo = modesOf[t]]]

TimerInvalidate(c, t) ==
  /\ "invalidate" \in Allowed[c] /\ Rests(c)
  /\ t \in valid
  /\ BeginInvalidate(c, t)
  /\ UNCHANGED <<now, date, firing, modesOf, mode, lock, stack>>

\* The rest: the lock is kept over the whole sequence of removals.
LeaveModes(c) ==
  LET w == call[c] IN
  /\ w.op = "invalidate" /\ CanLock(c)
  /\ RemoveFrom(w.todo, w.timer)
  /\ Finish(c, w.todo)
  /\ UNCHANGED <<now, date, valid, firing, stack>>

-----------------------------------------------------------------------------
(* The run.                                                                 *)

Run(m) ==
  /\ Rests(LoopThread) /\ lock = Free
  /\ Len(stack) < MaxDepth
  /\ stack' = Append(stack, [mode |-> m, pc |-> "wait", due |-> <<>>,
                             old |-> 0, at |-> 0, handled |-> FALSE])
  /\ UNCHANGED <<now, date, valid, firing, modesOf, mode, lock, call>>

RunReturns ==
  /\ stack # <<>> /\ Top.pc = "wait"
  /\ stack' = Front(stack)
  /\ UNCHANGED <<now, date, valid, firing, modesOf, mode, lock, call>>

\* mach_msg returns the event of the mode's timer.
Receive ==
  /\ stack # <<>> /\ Top.pc = "wait"
  /\ mode[Top.mode].ready
  /\ mode' = [mode EXCEPT ![Top.mode].ready = FALSE, ![Top.mode].spent = FALSE]
  /\ Top_([Top EXCEPT !.pc = "woken"])
  /\ UNCHANGED <<now, date, valid, firing, modesOf, lock, call>>

\* The elements of s that are in S, in the order of s.
Picked(due, s, S) ==
  /\ ToSet(due) = ToSet(s) \cap S
  /\ \A i, j \in DOMAIN due, k, l \in DOMAIN s :
       i < j /\ due[i] = s[k] /\ due[j] = s[l] => k < l

\* __CFRunLoopDoTimers collects the due timers.
CollectDue ==
  /\ stack # <<>> /\ Top.pc = "woken"
  /\ lock = Free /\ lock' = LoopThread
  /\ \E due \in Arrays :
       /\ Picked(due, mode[Top.mode].timers,
                 {t \in valid \ firing : date[t] <= now})
       /\ Top_([Top EXCEPT !.pc = "due", !.due = due])
  /\ UNCHANGED <<now, date, valid, firing, modesOf, mode, call>>

\* Mutant: a timer whose date was moved since it was collected fires.
MayFireEarly(t) == t \in valid \ firing /\ modesOf[t] # {}

\* The conditions of __CFRunLoopDoTimer.
MayFire(t) == t \in valid \ firing /\ date[t] <= now /\ modesOf[t] # {}

\* Mutant: the firing bit is not set.
FiringWithout(t) == firing
FiringWith(t)    == firing \cup {t}

\* Mutant: the deadlines are not reset.
DontForget(M) == M

\* The deadlines are reset, so that the next timer is armed even if its
\* deadlines are the same.
ForgetLimits(M) == [M EXCEPT !.limits = Disarmed]

\* __CFRunLoopDoTimer up to the callout.
FireTimer ==
  LET t == Head(Top.due)
      m == Top.mode
  IN
  /\ stack # <<>> /\ Top.pc = "due" /\ Top.due # <<>>
  /\ MayFire(t)
  /\ firing' = FiringWith(t)
  /\ mode' = [mode EXCEPT
                ![m] = ArmNext(ForgetLimits(@), @.timers, date, firing')]
  /\ Top_([Top EXCEPT !.pc = "callout", !.handled = TRUE, !.old = date[t],
                      !.at = now])
  /\ lock' = Free
  /\ UNCHANGED <<now, date, valid, modesOf, call>>

SkipTimer ==
  /\ stack # <<>> /\ Top.pc = "due" /\ Top.due # <<>>
  /\ ~MayFire(Head(Top.due))
  /\ Top_([Top EXCEPT !.due = Tail(@)])
  /\ UNCHANGED <<now, date, valid, firing, modesOf, mode, lock, call>>

\* The callout returns; a timer that does not repeat is invalidated.
CalloutReturns ==
  LET t == Head(Top.due) IN
  /\ stack # <<>> /\ Top.pc = "callout" /\ call[LoopThread].op = "none"
  /\ Top_([Top EXCEPT !.pc = "returned"])
  /\ IF Interval[t] = 0 /\ t \in valid THEN BeginInvalidate(LoopThread, t)
                                       ELSE UNCHANGED <<valid, call>>
  /\ UNCHANGED <<now, date, firing, modesOf, mode, lock>>

\* The date after old that is on the timer's grid and in the future.
NextDate(t, old) ==
  IF LastDate - Interval[t] <= old THEN LastDate
  ELSE old + Interval[t] * (1 + (now - old) \div Interval[t])

\* Mutant: the deadlines are not computed again.
KeepLaterDate(t) == UNCHANGED <<date, mode>>

\* The date was set to a later one during the callout: honor it.
HonorLaterDate(t) ==
  /\ mode' = [mode EXCEPT ![Top.mode] = ArmNext(@, @.timers, date, firing')]
  /\ UNCHANGED date

Repeat(t) ==
  LET dates == [date EXCEPT ![t] = NextDate(t, Top.old)] IN
  /\ date' = dates
  /\ RepositionIn(modesOf[t], t, dates, firing')

\* The rest of __CFRunLoopDoTimer.
EndTimer ==
  LET t == Head(Top.due) IN
  /\ stack # <<>> /\ Top.pc = "returned" /\ call[LoopThread].op = "none"
  /\ lock = Free /\ lock' = LoopThread
  /\ firing' = firing \ {t}
  /\ \/ t \notin valid /\ UNCHANGED <<date, mode>>
     \/ t \in valid /\ Top.old < date[t] /\ HonorLaterDate(t)
     \/ t \in valid /\ date[t] <= Top.old /\ Repeat(t)
  /\ Top_([Top EXCEPT !.pc = "due", !.due = Tail(@), !.old = 0, !.at = 0])
  /\ UNCHANGED <<now, valid, modesOf, call>>

\* __CFRunLoopRun arms the next timer if none was handled, "because we
\* apparently fired early".
ArmAgain(M) ==
  [ArmNext(M, M.timers, date, firing)
     EXCEPT !.spent = ~(ToSet(M.timers) \subseteq valid)]

TimersDone ==
  /\ stack # <<>> /\ Top.pc = "due" /\ Top.due = <<>>
  /\ mode' = IF Top.handled THEN mode
             ELSE [mode EXCEPT ![Top.mode] = ArmAgain(@)]
  /\ Top_([Top EXCEPT !.pc = "wait", !.handled = FALSE])
  /\ lock' = Free
  /\ UNCHANGED <<now, date, valid, firing, modesOf, call>>

-----------------------------------------------------------------------------
(* The kernel and the clock.                                                *)

KernelFires(m) ==
  /\ mode[m].armed # Disarmed
  /\ mode[m].armed.soft <= now + Early
  /\ mode' = [mode EXCEPT ![m].armed = Disarmed, ![m].ready = TRUE]
  /\ UNCHANGED <<now, date, valid, firing, modesOf, lock, stack, call>>

Tick ==
  /\ now < MaxTime
  /\ now' = now + 1
  /\ UNCHANGED <<date, valid, firing, modesOf, mode, lock, stack, call>>

-----------------------------------------------------------------------------
Begin(c) ==
  \/ \E t \in Timers, m \in Modes : AddTimer(c, t, m) \/ RemoveTimer(c, t, m)
  \/ \E t \in Timers : AddToCommonModes(c, t) \/ TimerInvalidate(c, t)
  \/ \E t \in Timers, d \in 0..MaxTime : SetNextFireDate(c, t, d)

Continue(c) ==
  \/ \E m \in Modes : AddToMode(c, m)
  \/ SetDate(c) \/ LeaveModes(c)

LoopStep ==
  \/ Receive \/ CollectDue \/ FireTimer \/ SkipTimer
  \/ CalloutReturns \/ EndTimer \/ TimersDone

Next ==
  \/ \E c \in Callers : Begin(c) \/ Continue(c)
  \/ LoopStep \/ RunReturns
  \/ \E m \in Modes : Run(m) \/ KernelFires(m)
  \/ Tick

Spec == Init /\ [][Next]_vars

FairSpec ==
  /\ Spec
  /\ SF_vars(LoopStep)
  /\ \A c \in Callers : SF_vars(Continue(c))
  /\ \A m \in Modes : WF_vars(KernelFires(m))
-----------------------------------------------------------------------------
(* Properties.                                                              *)

\* Every variable keeps its type; an array holds a timer at most once.
TypeOK ==
  /\ now \in 0..MaxTime
  /\ date \in [Timers -> Dates]
  /\ valid \subseteq Timers /\ firing \subseteq Timers
  /\ modesOf \in [Timers -> SUBSET DOMAIN mode]
  /\ mode \in [DOMAIN mode -> Mode]
  /\ lock \in Callers \cup {Free}
  /\ Len(stack) <= MaxDepth /\ \A i \in DOMAIN stack : stack[i] \in Frame
  /\ call \in [Callers -> Call]

\* "The fire date of the first timer in our sorted list of timers"
\* (__CFArmNextTimerInMode): each array is in the order of fire dates, which
\* the search and the scan rely on, and has the timers that are in the mode.
ArraysSorted ==
  /\ TypeOK
  /\ \A m \in DOMAIN mode : LET s == mode[m].timers IN
       /\ \A i, j \in DOMAIN s : i < j => date[s[i]] <= date[s[j]]
       /\ \A t \in Timers : t \in ToSet(s) <=> m \in modesOf[t]

\* The loop's thread has the mode's event and has yet to look for due timers.
Serving(m) ==
  stack # <<>> /\ Top.mode = m /\ Top.pc \in {"woken", "due"}

\* The last event of m met an invalid timer, and nothing was armed since.
Spent(m) == mode[m].spent /\ mode[m].armed = Disarmed

\* __CFArmNextTimerInMode and its callers: for every timer of a mode that can
\* fire there is an event, or one that comes before the timer's hard deadline,
\* so that a run of the mode does not sleep past it.  (A timer invalidated
\* but still in the array is counted as if it could fire.  If it was there
\* when the mode's event came, the deadlines of that event may be remembered
\* as if they were still armed.)
EveryTimerArmed ==
  \A m \in DOMAIN mode :
    ToSet(mode[m].timers) \subseteq valid /\ ~Serving(m) /\ ~Spent(m) =>
      \A t \in ToSet(mode[m].timers) \ firing :
        mode[m].ready \/ mode[m].armed.hard <= Hard(t, date)

\* __CFRunLoopDoTimer: nested runs and lists of due timers that have changed
\* since notwithstanding, a timer is called at or after its fire date, and not
\* from within its own callout.
FiresInTurn ==
  LET Calling(i) == stack[i].pc \in {"callout", "returned"} IN
  /\ \A i \in DOMAIN stack : Calling(i) => stack[i].old <= stack[i].at
  /\ \A i, j \in DOMAIN stack :
       Calling(i) /\ Calling(j) /\ Head(stack[i].due) = Head(stack[j].due)
         => i = j

\* A due timer of the mode that the outermost run is in does not stay due for
\* ever: it is called, moved or removed, or the run ends.
DueTimerFires ==
  \A t \in Timers, m \in Modes :
    LET Due == /\ stack # <<>> /\ Head(stack).mode = m
               /\ Has(mode[m], t) /\ t \in valid \ firing /\ date[t] <= now
               /\ ToSet(mode[m].timers) \subseteq valid /\ ~Spent(m)
    IN  Due ~> ~Due
=============================================================================
