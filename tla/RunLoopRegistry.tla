-------------------------- MODULE RunLoopRegistry --------------------------
(* The registry of run loops: a dictionary from threads to loops under one  *)
(* lock, the loop that each thread remembers in its thread-specific data    *)
(* (CFPlatform.c), and the finalizer that takes the loop of an exiting      *)
(* thread out again.  Pthreads calls the destructors of a thread in several *)
(* passes, so that destructors can still use what others are about to       *)
(* destroy; the finalizer counts passes to be among the last.               *)
(* A critical section of loopsLock that releases no loop is one step.  What *)
(* loops contain is left out, and with it what the finalizer does to them.  *)
EXTENDS Naturals, FiniteSets

CONSTANTS Pthreads,      \* values of pthread_t
          Main,         \* the main thread
          Loops,        \* memory for run loops
          NoLoop,
          Iterations    \* PTHREAD_DESTRUCTOR_ITERATIONS

ASSUME RegistryAssumption ==
  /\ Main \in Pthreads /\ NoLoop \notin Loops \cup Pthreads
  /\ IsFiniteSet(Pthreads)      \* a process has finitely many threads
  /\ Iterations \in Nat /\ Iterations > 2

VARIABLES
  made,         \* __CFRunLoops is set
  runLoops,     \* the loop it holds for each thread
  loopsLock,    \* the thread that is inside and releases or retains a loop
  rc,           \* reference count of each loop, 0 when it is free or freed now
  tsd,          \* each thread's table of thread-specific data
  call,         \* the call into the registry that each thread is in
  life,         \* where each thread is in its life
  told,         \* history: the loops that were given out as that of a thread
  missed        \* history: threads whose finalizer will not run, or has run
                \* already, for a loop of theirs

registryVars == <<made, runLoops, loopsLock, rc, tsd, call, life, told, missed>>

\* data[__CFTSDKeyRunLoop], data[__CFTSDKeyRunLoopCntr], destructorCount
TSDTable == [is : {"none", "there", "gone"}, loop : Loops \cup {NoLoop},
             cntr : Nat, count : Nat]
NoTable   == [is |-> "none", loop |-> NoLoop, cntr |-> 0, count |-> 0]
GoneTable == [NoTable EXCEPT !.is = "gone"]

Steps == {"idle", "lookup", "make", "create", "again", "drop", "free",
          "store", "finalize", "unlock", "forget"}
After == {"idle", "lookup", "store", "forget"}
Call == [at : Steps, then : After, about : Pthreads,
         mine : Loops \cup {NoLoop},    \* the reference the call holds
         loop : Loops \cup {NoLoop}]    \* the answer
NoCall == [at |-> "idle", then |-> "idle", about |-> Main, mine |-> NoLoop,
           loop |-> NoLoop]

\* swept: __CFTSDFinalize is due in this pass, running, done, or not needed;
\* entry: whether __CFFinalizeRunLoop has taken the thread's loop out.
ThreadLife == [is : {"running", "exiting", "dead"}, pass : Nat,
               swept : {"due", "running", "done", "free"}, entry : {"kept", "taken"}]
Running == [is |-> "running", pass |-> 0, swept |-> "free", entry |-> "kept"]

RegistryTypeOK ==
  /\ made \in BOOLEAN
  /\ runLoops \in [Pthreads -> Loops \cup {NoLoop}]
  /\ tsd \in [Pthreads -> TSDTable]
  /\ call \in [Pthreads -> Call]
  /\ life \in [Pthreads -> ThreadLife]
  /\ told \in [Pthreads -> SUBSET Loops]

RegistryInit ==
  /\ made = FALSE
  /\ runLoops = [t \in Pthreads |-> NoLoop]
  /\ loopsLock = NoLoop
  /\ rc = [l \in Loops |-> 0]
  /\ tsd = [t \in Pthreads |-> NoTable]
  /\ call = [t \in Pthreads |-> NoCall]
  /\ life = [t \in Pthreads |-> Running]
  /\ told = [t \in Pthreads |-> {}]
  /\ missed = {}

Free(l) == rc[l] = 0 /\ \A t \in Pthreads : call[t].mine # l
\* One of them; which one does not matter.
Fresh   == CHOOSE l \in Loops : Free(l)

SetCall(t, new) == call' = [call EXCEPT ![t] = new]
AtStep(t, place) == call[t].at = place
Unlocked == loopsLock = NoLoop
Tell(t, l) == told' = [told EXCEPT ![t] = @ \cup {l}]

-----------------------------------------------------------------------------
(* CFRunLoopGetCurrent, CFRunLoopGetMain and _CFRunLoopGet0.                *)

CanCall(t) == AtStep(t, "idle") /\ life[t].is # "dead"

\* CFRunLoopGetCurrent: the thread remembers its loop.
Remembered(t) ==
  /\ CanCall(t) /\ tsd[t].loop # NoLoop
  /\ Tell(t, tsd[t].loop)
  /\ missed' = IF life[t].entry = "taken" THEN missed \cup {t} ELSE missed
  /\ UNCHANGED <<made, runLoops, loopsLock, rc, tsd, call, life>>

\* _CFRunLoopGet0: of the calling thread, or of one that is known to run.  A
\* thread that asks anew when it is exiting starts the count over.
Get0(t, u) ==
  /\ CanCall(t)
  /\ IF t = u THEN tsd[t].loop = NoLoop ELSE life[u].is = "running"
  /\ SetCall(t, [NoCall EXCEPT !.at = "lookup", !.about = u])
  /\ missed' = IF life[u].is = "exiting" THEN missed \cup {u} ELSE missed
  /\ UNCHANGED <<made, runLoops, loopsLock, rc, tsd, life, told>>

Lookup(t) ==
  LET found == runLoops[call[t].about] IN
  /\ AtStep(t, "lookup") /\ Unlocked
  /\ SetCall(t, [call[t] EXCEPT
                !.at = CASE ~made -> "make"
                         [] made /\ found = NoLoop -> "create"
                         [] OTHER -> "store",
                !.loop = found])
  /\ UNCHANGED <<made, runLoops, loopsLock, rc, tsd, life, told, missed>>

\* A dictionary with a loop for the main thread is installed by one
\* compare-and-swap; whoever comes second drops both.
Make(t) ==
  /\ AtStep(t, "make") /\ \E l \in Loops : Free(l)
  /\ made' = TRUE
  /\ IF made
     THEN /\ SetCall(t, [call[t] EXCEPT !.at = "free", !.then = "lookup",
                                     !.mine = Fresh])
          /\ UNCHANGED <<runLoops, rc>>
     ELSE /\ runLoops' = [runLoops EXCEPT ![Main] = Fresh]
          /\ rc' = [rc EXCEPT ![Fresh] = 1]
          /\ SetCall(t, [call[t] EXCEPT !.at = "lookup"])
  /\ UNCHANGED <<loopsLock, tsd, life, told, missed>>

\* __CFRunLoopCreate, outside the lock.
CreateLoop(t) ==
  /\ AtStep(t, "create") /\ \E l \in Loops : Free(l)
  /\ rc' = [rc EXCEPT ![Fresh] = 1]
  /\ SetCall(t, [call[t] EXCEPT !.at = "again", !.mine = Fresh])
  /\ UNCHANGED <<made, runLoops, loopsLock, tsd, life, told, missed>>

\* Mutant: no second look.
AgainBlindly(t) ==
  LET c == call[t] IN
  /\ AtStep(t, "again") /\ Unlocked
  /\ runLoops' = [runLoops EXCEPT ![c.about] = c.mine]
  /\ rc' = [rc EXCEPT ![c.mine] = @ + 1]
  /\ SetCall(t, [c EXCEPT !.at = "drop", !.then = "store", !.loop = c.mine])
  /\ UNCHANGED <<made, loopsLock, tsd, life, told, missed>>

\* The second look under the lock.
Again(t) ==
  LET c == call[t]
      found == runLoops[c.about]
  IN
  /\ AtStep(t, "again") /\ Unlocked
  /\ IF found = NoLoop
     THEN /\ runLoops' = [runLoops EXCEPT ![c.about] = c.mine]
          /\ rc' = [rc EXCEPT ![c.mine] = @ + 1]
     ELSE UNCHANGED <<runLoops, rc>>
  /\ SetCall(t, [c EXCEPT !.at = "drop", !.then = "store",
                       !.loop = IF found = NoLoop THEN c.mine ELSE found])
  /\ UNCHANGED <<made, loopsLock, tsd, life, told, missed>>

\* CFRelease
Drop(t) ==
  LET c == call[t]
      last == rc[c.mine] = 1
  IN
  /\ AtStep(t, "drop")
  /\ rc' = [rc EXCEPT ![c.mine] = @ - 1]
  /\ SetCall(t, [c EXCEPT !.at = IF last THEN "free" ELSE c.then,
                       !.mine = IF last THEN c.mine ELSE NoLoop])
  /\ UNCHANGED <<made, runLoops, loopsLock, tsd, life, told, missed>>

\* __CFRunLoopDeallocate looks the main loop up under the lock.
DeallocateLoop(t) ==
  /\ AtStep(t, "free") /\ Unlocked
  /\ SetCall(t, [call[t] EXCEPT !.at = call[t].then, !.mine = NoLoop])
  /\ UNCHANGED <<made, runLoops, loopsLock, rc, tsd, life, told, missed>>

\* Mutant: one pass too many to wait for.
CountAll(table, l) ==
  IF table.is = "gone" THEN table
  ELSE [table EXCEPT !.is = "there", !.loop = l,
                     !.cntr = IF @ = 0 THEN Iterations ELSE @]

\* _CFSetTSD of both slots, with no effect once the table is gone.
Remember(table, l) ==
  IF table.is = "gone" THEN table
  ELSE [table EXCEPT !.is = "there", !.loop = l,
                     !.cntr = IF @ = 0 THEN Iterations - 1 ELSE @]

Store(t) ==
  LET c == call[t] IN
  /\ AtStep(t, "store")
  /\ tsd' = IF c.about = t
            THEN [tsd EXCEPT ![t] = Remember(@, c.loop)] ELSE tsd
  /\ Tell(c.about, c.loop)
  /\ SetCall(t, NoCall)
  /\ UNCHANGED <<made, runLoops, loopsLock, rc, life, missed>>

-----------------------------------------------------------------------------
(* _CFRunLoopSetCurrent, for cooperative threads: the thread takes the main *)
(* loop, or none, in place of its own.                                      *)

\* Others do not use a pthread_t that is about to change its meaning.
NobodyAsksAbout(t) ==
  \A u \in Pthreads \ {t} : ~AtStep(u, "idle") => call[u].about # t

\* Mutant: the current loop is not retained, but released later all the same.
SetCurrentUnretained(t, l) ==
  LET current == tsd[t].loop IN
  /\ CanCall(t) /\ life[t].is = "running" /\ t # Main /\ NobodyAsksAbout(t)
  /\ current # NoLoop /\ l # current /\ Unlocked
  /\ loopsLock' = t
  /\ runLoops' = [runLoops EXCEPT ![t] = l]
  /\ rc' = [x \in Loops |-> (IF x = l THEN rc[x] + 1 ELSE rc[x])
                            - (IF x = runLoops[t] THEN 1 ELSE 0)]
  /\ told' = [told EXCEPT ![t] = {}]
  /\ SetCall(t, [NoCall EXCEPT !.at = "unlock", !.then = "forget", !.about = t,
                          !.mine = current])
  /\ UNCHANGED <<made, tsd, life, missed>>

\* The current loop is retained, so that replacing it does not free it here.
SetCurrent(t, l) ==
  LET current == tsd[t].loop IN
  /\ CanCall(t) /\ life[t].is = "running" /\ t # Main /\ NobodyAsksAbout(t)
  /\ current # NoLoop /\ l # current /\ Unlocked
  /\ loopsLock' = t
  /\ runLoops' = [runLoops EXCEPT ![t] = l]
  /\ rc' = [x \in Loops |-> (IF x = current THEN rc[x] + 1 ELSE rc[x])
                            + (IF x = l THEN 1 ELSE 0)
                            - (IF x = runLoops[t] THEN 1 ELSE 0)]
  /\ told' = [told EXCEPT ![t] = {}]
  /\ SetCall(t, [NoCall EXCEPT !.at = "unlock", !.then = "forget", !.about = t,
                          !.mine = current])
  /\ UNCHANGED <<made, tsd, life, missed>>

Forget(t) ==
  /\ AtStep(t, "forget")
  /\ tsd' = [tsd EXCEPT ![t] = [@ EXCEPT !.loop = NoLoop, !.cntr = 0]]
  /\ SetCall(t, NoCall)
  /\ UNCHANGED <<made, runLoops, loopsLock, rc, life, told, missed>>

Unlock(t) ==
  /\ AtStep(t, "unlock")
  /\ loopsLock' = NoLoop
  /\ SetCall(t, [call[t] EXCEPT !.at = "drop"])
  /\ UNCHANGED <<made, runLoops, rc, tsd, life, told, missed>>

-----------------------------------------------------------------------------
(* The end of a thread.                                                     *)

Due(t) == IF tsd[t].is = "there" THEN "due" ELSE "free"

\* A loop that only others have asked for is not remembered by the thread.
Exit(t) ==
  /\ CanCall(t) /\ life[t].is = "running" /\ t # Main /\ NobodyAsksAbout(t)
  /\ life' = [life EXCEPT ![t] = [@ EXCEPT !.is = "exiting", !.pass = 1,
                                           !.swept = Due(t)]]
  /\ missed' = IF runLoops[t] # NoLoop /\ tsd[t].loop = NoLoop
               THEN missed \cup {t} ELSE missed
  /\ UNCHANGED <<made, runLoops, loopsLock, rc, tsd, call, told>>

\* The slot is cleared before its destructor is called, which sets it anew.
CountDown(n) == IF n > 1 THEN n - 1 ELSE 0

\* __CFTSDFinalize calls __CFFinalizeRunLoop, which counts down first.  Pthreads
\* may or may not get to a table that was made in the same pass.
Sweep(t) ==
  /\ AtStep(t, "idle") /\ life[t].is = "exiting"
  /\ tsd[t].is = "there" /\ life[t].swept \in {"due", "free"}
  /\ life' = [life EXCEPT ![t].swept = "running"]
  /\ tsd' = [tsd EXCEPT ![t].count = @ + 1, ![t].cntr = CountDown(@)]
  /\ IF tsd[t].cntr = 1
     THEN SetCall(t, [NoCall EXCEPT !.at = "finalize", !.about = t])
     ELSE UNCHANGED call
  /\ UNCHANGED <<made, runLoops, loopsLock, rc, told, missed>>

\* Mutant: the loop is not retained while it is taken out.
FinalizeUnretained(t) ==
  LET rl == runLoops[t] IN
  /\ AtStep(t, "finalize") /\ Unlocked
  /\ runLoops' = [runLoops EXCEPT ![t] = NoLoop]
  /\ told' = [told EXCEPT ![t] = {}]
  /\ life' = [life EXCEPT ![t].entry = "taken"]
  /\ IF rl = NoLoop
     THEN SetCall(t, NoCall) /\ UNCHANGED <<rc, loopsLock>>
     ELSE /\ loopsLock' = t
          /\ rc' = [rc EXCEPT ![rl] = @ - 1]
          /\ SetCall(t, [NoCall EXCEPT !.at = "free", !.about = t, !.mine = rl])
  /\ UNCHANGED <<made, tsd, missed>>

\* __CFFinalizeRunLoop retains the loop and takes it out: what the dictionary
\* gives up, the call holds.
Finalize(t) ==
  LET rl == runLoops[t] IN
  /\ AtStep(t, "finalize") /\ Unlocked
  /\ runLoops' = [runLoops EXCEPT ![t] = NoLoop]
  /\ told' = [told EXCEPT ![t] = {}]
  /\ life' = [life EXCEPT ![t].entry = "taken"]
  /\ IF rl = NoLoop
     THEN SetCall(t, NoCall) /\ UNCHANGED loopsLock
     ELSE /\ loopsLock' = t
          /\ SetCall(t, [NoCall EXCEPT !.at = "unlock", !.about = t, !.mine = rl])
  /\ UNCHANGED <<made, rc, tsd, missed>>

\* __CFTSDFinalize has called the destructors of the slots behind that one too;
\* it destroys the table one pass before the last.
EndSweep(t) ==
  /\ AtStep(t, "idle") /\ life[t].is = "exiting" /\ life[t].swept = "running"
  /\ life' = [life EXCEPT ![t].swept = "done"]
  /\ tsd' = IF tsd[t].count = Iterations - 1
            THEN [tsd EXCEPT ![t] = GoneTable] ELSE tsd
  /\ UNCHANGED <<made, runLoops, loopsLock, rc, call, told, missed>>

\* Pthreads starts over, or is done with the thread.
NextPass(t) ==
  /\ AtStep(t, "idle") /\ life[t].is = "exiting"
  /\ life[t].swept \in {"free", "done"}
  /\ \/ /\ life[t].pass < Iterations
        /\ life' = [life EXCEPT ![t] = [@ EXCEPT !.pass = life[t].pass + 1,
                                                 !.swept = Due(t)]]
     \/ /\ life[t].pass = Iterations
        /\ life' = [life EXCEPT ![t].is = "dead"]
  /\ UNCHANGED <<made, runLoops, loopsLock, rc, tsd, call, told, missed>>

\* A new thread is given the same pthread_t.
Start(t) ==
  /\ life[t].is = "dead"
  /\ life' = [life EXCEPT ![t] = Running]
  /\ tsd' = [tsd EXCEPT ![t] = NoTable]
  /\ UNCHANGED <<made, runLoops, loopsLock, rc, call, told, missed>>

RegistryNext == \E t \in Pthreads :
  \/ Remembered(t) \/ \E u \in Pthreads : Get0(t, u)
  \/ Lookup(t) \/ Make(t) \/ CreateLoop(t) \/ Again(t) \/ Drop(t)
  \/ DeallocateLoop(t) \/ Store(t)
  \/ \E l \in {NoLoop, runLoops[Main]} : SetCurrent(t, l)
  \/ Unlock(t) \/ Forget(t)
  \/ Exit(t) \/ Sweep(t) \/ Finalize(t) \/ EndSweep(t) \/ NextPass(t)
  \/ Start(t)

RegistrySpec == RegistryInit /\ [][RegistryNext]_registryVars

-----------------------------------------------------------------------------
\* _CFRunLoopGet0 and the finalizer: whoever asks for the loop of a thread, at
\* whatever moment, is given the one that the registry holds for it: no two
\* callers ever get different loops of one thread.
AnswersAgree ==
  \A t \in Pthreads \ missed : told[t] \subseteq {runLoops[t]}

\* __CFFinalizeRunLoop counts down the passes that are left when the thread
\* ends: it is reached before the table is destroyed, and no thread that is
\* given the pthread_t later inherits the loop of the dead one.
DeadHaveNoLoop ==
  \A t \in Pthreads \ missed : life[t].is = "dead" => runLoops[t] = NoLoop

\* CFRetain and CFRelease of loops: a loop has a reference for every thread that
\* the registry holds it for and for every call that has it in its hands, and
\* nothing else keeps or frees it.
LoopsCounted ==
  \A l \in Loops :
    rc[l] = Cardinality({t \in Pthreads : runLoops[t] = l})
            + Cardinality({t \in Pthreads : call[t].mine = l /\ ~AtStep(t, "free")})

\* "don't release run loops inside the loopsLock, because CFRunLoopDeallocate
\* may end up taking it".
FreedOutsideLock ==
  \A t \in Pthreads : AtStep(t, "free") => loopsLock # t
=============================================================================
