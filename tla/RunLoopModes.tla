---------------------------- MODULE RunLoopModes ----------------------------
(***************************************************************************)
(* Membership of version 0 sources in the modes of run loops: adding and    *)
(* removing, by mode or in the common modes, new common modes, and          *)
(* invalidation, by threads that race.  A source is told of each change by  *)
(* its schedule and cancel callouts.                                        *)
(*                                                                          *)
(* The run loop lock is recursive.  A named add or remove holds it for one  *)
(* step and calls out after dropping it; the common-mode operations and     *)
(* invalidation hold it while they add or remove one mode after another,    *)
(* callouts included.  The callouts take a lock of the client's (guard),    *)
(* under which other threads ask the loop questions.                        *)
(***************************************************************************)
EXTENDS Integers, FiniteSets

CONSTANTS Threads, Loops, Modes, Sources,
          Common,       \* the common modes at the start
          Ops           \* the operations that clients use

Operations == {"add", "remove", "addCommon", "removeCommon", "commonMode",
               "removeAll", "invalidate", "query"}
Free == "free"

ASSUME ModesAssumption ==
  /\ Free \notin Threads
  /\ Threads # {} /\ Loops # {} /\ Modes # {} /\ Sources # {}
  /\ IsFiniteSet(Threads) /\ IsFiniteSet(Modes)
  /\ Common \subseteq Modes
  /\ Ops \subseteq Operations

VARIABLES valid,        \* sources that have not been invalidated
          members,      \* members[l][m]: the sources of mode m of loop l
          commonModes,  \* the modes of each loop that are common
          commonItems,  \* the sources of each loop's common modes
          runLoops,     \* runLoops[s][l]: the bag of loops of a source
          lock,         \* the owner of each run loop lock
          guard,        \* the owner of the lock each client source has
          work,         \* what each thread is doing
          told,         \* history: schedule less cancel callouts
          late,         \* history: sources inserted although invalid
          taken         \* history: <<source, loop, mode>> since a removal

vars == <<valid, members, commonModes, commonItems, runLoops, lock, guard,
          work, told, late, taken>>
sets == <<members, commonModes, commonItems, runLoops, late, taken>>

Pairs == Sources \X Modes

Work ==
  [pc : {"idle", "enter", "next", "insert", "callout", "calling", "loops",
         "query"},
   adds : BOOLEAN,              \* adding or removing
   loop : Loops,
   source : Sources, mode : Modes,
   held : BOOLEAN,              \* the outer call holds the loop lock
   todo : SUBSET Pairs,         \* inner calls to make
   common : BOOLEAN,            \* then remove it from the common items too
   loops : SUBSET Loops]        \* loops still to be left by an invalid source

Idle == [pc |-> "idle", adds |-> FALSE, loop |-> CHOOSE l \in Loops : TRUE,
         source |-> CHOOSE s \in Sources : TRUE,
         mode |-> CHOOSE m \in Modes : TRUE,
         held |-> FALSE, todo |-> {}, common |-> FALSE, loops |-> {}]

Now(t, w)   == work' = [work EXCEPT ![t] = w]
Resting(t)  == work[t].pc = "idle" /\ \A s \in Sources : guard[s] # t
CanLock(t, l) == lock[l] \in {Free, t}

Init ==
  /\ valid = Sources
  /\ members = [l \in Loops |-> [m \in Modes |-> {}]]
  /\ commonModes = [l \in Loops |-> Common]
  /\ commonItems = [l \in Loops |-> {}]
  /\ runLoops = [s \in Sources |-> [l \in Loops |-> 0]]
  /\ lock = [l \in Loops |-> Free]
  /\ guard = [s \in Sources |-> Free]
  /\ work = [t \in Threads |-> Idle]
  /\ told = [s \in Sources |-> [l \in Loops |-> [m \in Modes |-> 0]]]
  /\ late = {}
  /\ taken = {}

-----------------------------------------------------------------------------
(* The calls, up to the point where they need the loop lock.                *)

\* CFRunLoopAddSource looks at the valid bit before it takes any lock.
AddSource(t, l, s, m) ==
  /\ "add" \in Ops /\ Resting(t)
  /\ s \in valid
  /\ Now(t, [Idle EXCEPT !.pc = "insert", !.adds = TRUE, !.loop = l,
                         !.source = s, !.mode = m])
  /\ UNCHANGED <<sets, valid, lock, guard, told>>

AddToCommonModes(t, l, s) ==
  /\ "addCommon" \in Ops /\ Resting(t)
  /\ s \in valid
  /\ Now(t, [Idle EXCEPT !.pc = "enter", !.adds = TRUE, !.loop = l,
                         !.source = s])
  /\ UNCHANGED <<sets, valid, lock, guard, told>>

RemoveSource(t, l, s, m) ==
  /\ "remove" \in Ops /\ Resting(t)
  /\ Now(t, [Idle EXCEPT !.pc = "next", !.loop = l, !.todo = {<<s, m>>}])
  /\ UNCHANGED <<sets, valid, lock, guard, told>>

\* What CFRunLoopSourceInvalidate does under the source's lock.
SourceInvalidate(t, s) ==
  /\ "invalidate" \in Ops /\ Resting(t)
  /\ s \in valid
  /\ valid' = valid \ {s}
  /\ runLoops' = [runLoops EXCEPT ![s] = [l \in Loops |-> 0]]
  /\ Now(t, [Idle EXCEPT !.pc = "loops", !.source = s,
                         !.loops = {l \in Loops : runLoops[s][l] > 0}])
  /\ UNCHANGED <<members, commonModes, commonItems, late, taken, lock, guard,
                 told>>

-----------------------------------------------------------------------------
(* The operations that keep the loop lock for several inner calls.          *)

Hold(t, l) == lock[l] = Free /\ lock' = [lock EXCEPT ![l] = t]

EnterCommon(t) ==
  LET w == work[t] IN
  /\ w.pc = "enter"
  /\ Hold(t, w.loop)
  /\ commonItems' = [commonItems EXCEPT ![w.loop] = @ \cup {w.source}]
  /\ late' = IF w.source \in valid THEN late ELSE late \cup {w.source}
  /\ Now(t, [w EXCEPT !.pc = "next", !.held = TRUE,
                      !.todo = {w.source} \X commonModes[w.loop]])
  /\ UNCHANGED <<members, commonModes, runLoops, taken, valid, guard, told>>

RemoveFromCommonModes(t, l, s) ==
  /\ "removeCommon" \in Ops /\ Resting(t)
  /\ Hold(t, l)
  /\ Now(t, [Idle EXCEPT !.pc = "next", !.loop = l, !.source = s,
                         !.held = TRUE, !.common = TRUE])
  /\ UNCHANGED <<sets, valid, guard, told>>

\* Mutant: the items the common modes have are not added to the new one.
AddModeOnly(t, l, m) ==
  /\ "commonMode" \in Ops /\ Resting(t)
  /\ lock[l] = Free /\ m \notin commonModes[l]
  /\ commonModes' = [commonModes EXCEPT ![l] = @ \cup {m}]
  /\ UNCHANGED <<members, commonItems, runLoops, late, taken, valid, lock, guard,
                 work, told>>

AddCommonMode(t, l, m) ==
  /\ "commonMode" \in Ops /\ Resting(t)
  /\ Hold(t, l)
  /\ m \notin commonModes[l]
  /\ commonModes' = [commonModes EXCEPT ![l] = @ \cup {m}]
  /\ Now(t, [Idle EXCEPT !.pc = "next", !.adds = TRUE, !.loop = l,
                         !.held = TRUE, !.todo = commonItems[l] \X {m}])
  /\ UNCHANGED <<members, commonItems, runLoops, late, taken, valid, guard,
                 told>>

\* __CFRunLoopRemoveAllSources for one mode.
RemoveAllSources(t, l, m) ==
  /\ "removeAll" \in Ops /\ Resting(t)
  /\ Hold(t, l)
  /\ Now(t, [Idle EXCEPT !.pc = "next", !.loop = l, !.held = TRUE,
                         !.todo = members[l][m] \X {m}])
  /\ UNCHANGED <<sets, valid, guard, told>>

\* Mutant: only the common modes are visited.
LeaveCommon(t, l) ==
  LET w == work[t] IN
  /\ w.pc = "loops" /\ l \in w.loops
  /\ Hold(t, l)
  /\ Now(t, [w EXCEPT !.pc = "next", !.loop = l, !.held = TRUE,
                      !.loops = @ \ {l}, !.common = TRUE])
  /\ UNCHANGED <<sets, valid, guard, told>>

\* __CFRunLoopSourceRemoveFromRunLoop, for a loop of an invalid source.
LeaveLoop(t, l) ==
  LET w == work[t] IN
  /\ w.pc = "loops" /\ l \in w.loops
  /\ Hold(t, l)
  /\ Now(t, [w EXCEPT !.pc = "next", !.loop = l, !.held = TRUE,
                      !.loops = @ \ {l}, !.common = TRUE,
                      !.todo = {w.source} \X Modes])
  /\ UNCHANGED <<sets, valid, guard, told>>

LeftLoops(t) ==
  /\ work[t].pc = "loops" /\ work[t].loops = {}
  /\ Now(t, Idle)
  /\ UNCHANGED <<sets, valid, lock, guard, told>>

\* The common items, after the modes named one by one.
RemoveCommonItem(t) ==
  LET w == work[t] IN
  /\ w.pc = "next" /\ w.todo = {} /\ w.common
  /\ commonItems' = [commonItems EXCEPT ![w.loop] = @ \ {w.source}]
  /\ Now(t, [w EXCEPT !.common = FALSE,
                      !.todo = IF w.source \in commonItems[w.loop]
                                 THEN {w.source} \X commonModes[w.loop]
                                 ELSE {}])
  /\ UNCHANGED <<members, commonModes, runLoops, late, taken, valid, lock,
                 guard, told>>

Return(t) ==
  LET w == work[t] IN
  /\ w.pc = "next" /\ w.todo = {} /\ ~w.common
  /\ lock' = IF w.held THEN [lock EXCEPT ![w.loop] = Free] ELSE lock
  /\ Now(t, IF w.loops = {} THEN Idle
                            ELSE [w EXCEPT !.pc = "loops", !.held = FALSE])
  /\ UNCHANGED <<sets, valid, guard, told>>

-----------------------------------------------------------------------------
(* One source and one mode.                                                 *)

\* An inner CFRunLoopAddSource returns at once for an invalid source.
InnerAdd(t, s, m) ==
  LET w == work[t] IN
  /\ w.pc = "next" /\ w.adds /\ <<s, m>> \in w.todo
  /\ Now(t, [w EXCEPT !.pc = IF s \in valid THEN "insert" ELSE "next",
                      !.todo = @ \ {<<s, m>>}, !.source = s, !.mode = m])
  /\ UNCHANGED <<sets, valid, lock, guard, told>>

PutInMode(s, l, m) ==
  /\ members' = [members EXCEPT ![l][m] = @ \cup {s}]
  /\ runLoops' = [runLoops EXCEPT ![s][l] = @ + 1]
  /\ late' = IF s \in valid THEN late ELSE late \cup {s}
  /\ taken' = taken \ {<<s, l, m>>}

\* Mutant: a member is added again.
InsertAgain(t) ==
  LET w == work[t] IN
  /\ w.pc = "insert" /\ CanLock(t, w.loop)
  /\ PutInMode(w.source, w.loop, w.mode)
  /\ Now(t, [w EXCEPT !.pc = "callout"])
  /\ UNCHANGED <<commonModes, commonItems, valid, lock, guard, told>>

\* Insert it and call out, unless it is a member already.
Insert(t) ==
  LET w == work[t] IN
  /\ w.pc = "insert"
  /\ CanLock(t, w.loop)
  /\ IF w.source \in members[w.loop][w.mode]
       THEN Now(t, [w EXCEPT !.pc = "next"])
            /\ UNCHANGED <<members, runLoops, late, taken>>
       ELSE PutInMode(w.source, w.loop, w.mode)
            /\ Now(t, [w EXCEPT !.pc = "callout"])
  /\ UNCHANGED <<commonModes, commonItems, valid, lock, guard, told>>

\* Take it out of the bag and call out, if it is a member.
Remove(t, s, m) ==
  LET w == work[t]
      l == w.loop
  IN
  /\ w.pc = "next" /\ ~w.adds /\ <<s, m>> \in w.todo
  /\ CanLock(t, l)
  /\ members' = [members EXCEPT ![l][m] = @ \ {s}]
  /\ runLoops' = IF s \in members[l][m] /\ runLoops[s][l] > 0
                   THEN [runLoops EXCEPT ![s][l] = @ - 1] ELSE runLoops
  /\ taken' = IF s \in members[l][m] THEN taken \cup {<<s, l, m>>}
                                      ELSE taken
  /\ Now(t, [w EXCEPT !.pc = IF s \in members[l][m] THEN "callout" ELSE "next",
                      !.todo = @ \ {<<s, m>>}, !.source = s, !.mode = m])
  /\ UNCHANGED <<commonModes, commonItems, late, valid, lock, guard, told>>

\* The schedule or cancel callout; the source takes its own lock in it.
BeginCallout(t) ==
  LET w == work[t] IN
  /\ w.pc = "callout"
  /\ guard[w.source] = Free
  /\ guard' = [guard EXCEPT ![w.source] = t]
  /\ told' = [told EXCEPT ![w.source][w.loop][w.mode] =
                            IF w.adds THEN @ + 1 ELSE @ - 1]
  /\ Now(t, [w EXCEPT !.pc = "calling"])
  /\ UNCHANGED <<sets, valid, lock>>

EndCallout(t) ==
  LET w == work[t] IN
  /\ w.pc = "calling"
  /\ guard' = [guard EXCEPT ![w.source] = Free]
  /\ Now(t, [w EXCEPT !.pc = "next"])
  /\ UNCHANGED <<sets, valid, lock, told>>

-----------------------------------------------------------------------------
(* A client that holds its source's lock and asks the loop about it.        *)

TakeGuard(t, s, l) ==
  /\ "query" \in Ops /\ Resting(t)
  /\ guard[s] = Free
  /\ guard' = [guard EXCEPT ![s] = t]
  /\ Now(t, [Idle EXCEPT !.pc = "query", !.loop = l, !.source = s])
  /\ UNCHANGED <<sets, valid, lock, told>>

\* CFRunLoopContainsSource
ContainsSource(t) ==
  LET w == work[t] IN
  /\ w.pc = "query"
  /\ lock[w.loop] = Free
  /\ guard' = [guard EXCEPT ![w.source] = Free]
  /\ Now(t, Idle)
  /\ UNCHANGED <<sets, valid, lock, told>>

-----------------------------------------------------------------------------
Call(t) ==
  \/ \E l \in Loops, s \in Sources, m \in Modes :
       AddSource(t, l, s, m) \/ RemoveSource(t, l, s, m)
  \/ \E l \in Loops, s \in Sources :
       AddToCommonModes(t, l, s) \/ RemoveFromCommonModes(t, l, s)
  \/ \E l \in Loops, m \in Modes :
       AddCommonMode(t, l, m) \/ RemoveAllSources(t, l, m)
  \/ \E s \in Sources : SourceInvalidate(t, s)
  \/ \E s \in Sources, l \in Loops : TakeGuard(t, s, l)

Continue(t) ==
  \/ EnterCommon(t) \/ RemoveCommonItem(t) \/ Return(t)
  \/ \E l \in Loops : LeaveLoop(t, l)
  \/ LeftLoops(t)
  \/ \E s \in Sources, m \in Modes : InnerAdd(t, s, m) \/ Remove(t, s, m)
  \/ Insert(t) \/ BeginCallout(t) \/ EndCallout(t)
  \/ ContainsSource(t)

Next == \E t \in Threads : Call(t) \/ Continue(t)

Spec == Init /\ [][Next]_vars
-----------------------------------------------------------------------------
(* Properties.                                                              *)

\* Every variable keeps its type; a source's bag counts a loop no more often
\* than the loop has modes.
TypeOK ==
  /\ valid \subseteq Sources
  /\ members \in [Loops -> [Modes -> SUBSET Sources]]
  /\ commonModes \in [Loops -> SUBSET Modes]
  /\ commonItems \in [Loops -> SUBSET Sources]
  /\ runLoops \in [Sources -> [Loops -> 0..Cardinality(Modes)]]
  /\ lock \in [Loops -> Threads \cup {Free}]
  /\ guard \in [Sources -> Threads \cup {Free}]
  /\ work \in [Threads -> Work]
  /\ told \in [Sources -> [Loops -> [Modes -> Int]]]
  /\ late \subseteq Sources
  /\ taken \subseteq Sources \X Loops \X Modes

\* CFRunLoopAddSource and CFRunLoopRemoveSource call out after unlocking:
\* when no callout is under way, a source has been told to schedule once more
\* than to cancel exactly in the modes it is in, in whatever order they came.
CalloutsBalance ==
  \A s \in Sources, l \in Loops, m \in Modes :
    (\A t \in Threads : ~(/\ work[t].pc = "callout" /\ work[t].source = s
                          /\ work[t].loop = l /\ work[t].mode = m))
      => told[s][l][m] = IF s \in members[l][m] THEN 1 ELSE 0

\* CFRunLoopSourceInvalidate finds the modes through _runLoops: the bag of a
\* valid source counts its modes in each loop.
BagCountsModes ==
  \A s \in valid, l \in Loops :
    runLoops[s][l] = Cardinality({m \in Modes : s \in members[l][m]})

\* An invalidated source has left every mode when CFRunLoopSourceInvalidate
\* returns, unless an add that saw it valid inserted it afterwards.
InvalidLeaves ==
  \A s \in Sources \ (valid \cup late) :
    (\A t \in Threads : ~(/\ work[t].source = s
                          /\ work[t].pc = "loops" \/ work[t].held))
      => \A l \in Loops, m \in Modes : s \notin members[l][m]

\* A valid source of the common modes is in each of them whenever the loop is
\* unlocked, unless it has been removed from that mode since it was put there.
CommonItemsEverywhere ==
  \A l \in Loops : lock[l] = Free =>
    \A s \in commonItems[l] \cap valid, m \in commonModes[l] :
      s \in members[l][m] \/ <<s, l, m>> \in taken

\* The comments in CFRunLoopAddSource and CFRunLoopRemoveSource: callouts are
\* made after unlocking the run loop, to avoid a deadlock with a thread that
\* holds the source's lock and waits for the run loop lock.
NoDeadlyEmbrace ==
  \A t, u \in Threads :
    ~(/\ work[t].pc = "callout" /\ lock[work[t].loop] = t
      /\ guard[work[t].source] = u
      /\ work[u].pc = "query" /\ work[u].loop = work[t].loop)
=============================================================================
