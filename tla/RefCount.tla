------------------------------ MODULE RefCount ------------------------------
(* Reference counts on 64-bit platforms (CFRuntime.c).  The count, the      *)
(* deallocating bit and the deallocated bit share one 64-bit word, and each *)
(* loop reads the word, decides and installs its successor with one         *)
(* compare-and-swap: a pass that fails changes nothing, a pass that takes   *)
(* effect is one step.  Releasing the last reference takes many: the bit is *)
(* set, the class's finalizer runs, the count is read again, and the object *)
(* is freed, or was resurrected meanwhile and the release starts over.      *)
(* Abstracted: garbage collection, classes with counts of their own, static *)
(* instances (count zero, never changed), the width of the count, and the   *)
(* exception for allocators, whose finalizer never resurrects anything.     *)
EXTENDS Naturals, FiniteSets

CONSTANTS Threads, Objects, Refs, None

ASSUME NoneAssumption == None \notin Objects \cup Refs
ASSUME FiniteAssumption == IsFiniteSet(Refs)

VARIABLES
  word,                 \* an object's count and bits ("deallocated": free)
  refs,                 \* the object each reference keeps alive
  work                  \* the release that a thread is in

vars == <<word, refs, work>>

Bits == {"clear", "deallocating", "deallocated"}
Idle == [at |-> "idle", obj |-> None, ref |-> None]
LastSteps == {"finalizing", "finalized", "hammer", "revive"}

TypeOK ==
  /\ word \in [Objects -> [rc : Nat, bits : Bits]]
  /\ refs \in [Refs -> Objects \cup {None}]
  /\ work \in [Threads -> [at : {"idle", "release"} \cup LastSteps,
                           obj : Objects \cup {None},
                           ref : Refs \cup {None}]]

ReferencesTo(o) == {r \in Refs : refs[r] = o}

\* Nobody else is giving reference r up.
Kept(r) == \A t \in Threads : work[t].ref # r

Init ==
  /\ word = [o \in Objects |-> [rc |-> 0, bits |-> "deallocated"]]
  /\ refs = [r \in Refs |-> None]
  /\ work = [t \in Threads |-> Idle]

-----------------------------------------------------------------------------
\* _CFRuntimeCreateInstance: a count of one, for the caller, in memory that may
\* have been another object's.
Create(t, o, r) ==
  /\ work[t].at = "idle" /\ word[o].bits = "deallocated" /\ refs[r] = None
  /\ word' = [word EXCEPT ![o] = [rc |-> 1, bits |-> "clear"]]
  /\ refs' = [refs EXCEPT ![r] = o]
  /\ UNCHANGED work

\* The successful pass of _CFRetain's loop.
Increment(t, o, r) ==
  /\ work[t].at = "idle" /\ refs[r] = None
  /\ word' = [word EXCEPT ![o].rc = @ + 1]
  /\ refs' = [refs EXCEPT ![r] = o]
  /\ UNCHANGED work

\* CFRetain by the owner of a reference.
Retain(t, o, r) ==
  /\ \E q \in ReferencesTo(o) : Kept(q)
  /\ Increment(t, o, r)

\* Mutant: the deallocating bit is not looked at.
TryRetainAlways(t, o, r) ==
  /\ word[o].bits # "deallocated"
  /\ Increment(t, o, r)

\* _CFTryRetain by the owner of a weak reference, which the owner can follow
\* until the object is freed: it fails once the object is deallocating.
TryRetain(t, o, r) ==
  /\ word[o].bits = "clear"
  /\ Increment(t, o, r)

\* CFRetain by someone who has found the object in a table that holds no
\* reference, which its finalizer has not cleaned yet.
RetainFound(t, o, r) ==
  /\ \/ word[o].bits = "clear"
     \/ \E u \in Threads : work[u].at = "finalizing" /\ work[u].obj = o
  /\ Increment(t, o, r)

\* CFRelease is called.
Release(t, o, r) ==
  /\ work[t].at = "idle" /\ refs[r] = o /\ Kept(r)
  /\ work' = [work EXCEPT ![t] = [at |-> "release", obj |-> o, ref |-> r]]
  /\ UNCHANGED <<word, refs>>

\* The successful pass of _CFRelease's loop when others hold the object too.
Decrement(t) ==
  LET o == work[t].obj IN
  /\ work[t].at = "release" /\ word[o].rc > 1
  /\ word' = [word EXCEPT ![o].rc = @ - 1]
  /\ refs' = [refs EXCEPT ![work[t].ref] = None]
  /\ work' = [work EXCEPT ![t] = Idle]

Goto(t, place) == work' = [work EXCEPT ![t].at = place]

SetBits(o, bits) == word' = [word EXCEPT ![o].bits = bits]

\* Mutants: the count is not looked at again when the swap failed; it drops
\* before the finalizer runs.
StartFinalizingStale(t) ==
  /\ work[t].at = "release"
  /\ SetBits(work[t].obj, "deallocating")
  /\ Goto(t, "finalizing")
  /\ UNCHANGED refs
StartFinalizingAtZero(t) ==
  LET o == work[t].obj IN
  /\ work[t].at = "release" /\ word[o].rc = 1
  /\ word' = [word EXCEPT ![o] = [rc |-> 0, bits |-> "deallocating"]]
  /\ Goto(t, "finalizing")
  /\ UNCHANGED refs

\* The last reference: the count stays at one while the finalizer runs.
StartFinalizing(t) ==
  /\ work[t].at = "release" /\ word[work[t].obj].rc = 1
  /\ SetBits(work[t].obj, "deallocating")
  /\ Goto(t, "finalizing")
  /\ UNCHANGED refs

\* The class's finalize takes the object out of its table and returns.
FinalizerEnds(t) ==
  /\ work[t].at = "finalizing"
  /\ Goto(t, "finalized")
  /\ UNCHANGED <<word, refs>>

\* The count is read again.
Reread(t) ==
  /\ work[t].at = "finalized"
  /\ Goto(t, IF word[work[t].obj].rc = 1 THEN "hammer" ELSE "revive")
  /\ UNCHANGED <<word, refs>>

\* "Hammer until it takes": the count drops and the object is freed.
Hammer(t) ==
  LET o == work[t].obj IN
  /\ work[t].at = "hammer"
  /\ word' = [word EXCEPT ![o].rc = @ - 1, ![o].bits = "deallocated"]
  /\ refs' = [refs EXCEPT ![work[t].ref] = None]
  /\ work' = [work EXCEPT ![t] = Idle]

\* The object was resurrected: the bit is dropped, and the release made again.
Revive(t) ==
  /\ work[t].at = "revive"
  /\ SetBits(work[t].obj, "clear")
  /\ Goto(t, "release")
  /\ UNCHANGED refs

\* What a thread that is releasing does next, whatever others do.
Continue(t) == \/ Decrement(t) \/ StartFinalizing(t) \/ FinalizerEnds(t)
               \/ Reread(t) \/ Hammer(t) \/ Revive(t)

Next == \E t \in Threads :
  \/ Continue(t)
  \/ \E o \in Objects, r \in Refs :
       \/ Create(t, o, r) \/ Retain(t, o, r) \/ TryRetain(t, o, r)
       \/ RetainFound(t, o, r) \/ Release(t, o, r)

Spec == Init /\ [][Next]_vars

-----------------------------------------------------------------------------
\* The count in the word is the number of references to the object, those
\* being given up included: no retain or release is ever lost or made twice,
\* although the count is left at one while the finalizer runs.
CountsAreExact == \A o \in Objects : word[o].rc = Cardinality(ReferencesTo(o))

\* An object is in the hands of at most one thread from the moment its
\* deallocating bit is set: no finalizer runs twice at once, none of them after
\* the object is freed.
OneFinalizer == \A o \in Objects :
  LET last == {t \in Threads : work[t].at \in LastSteps /\ work[t].obj = o}
  IN  Cardinality(last) = IF word[o].bits = "deallocating" THEN 1 ELSE 0

Phase == [clear |-> "live", deallocating |-> "finalizing",
          deallocated |-> "free"]

Life == [o \in Objects |-> Phase[word[o].bits]]

C == INSTANCE Counted WITH life <- Life

\* The words and their steps keep what Counted promises of references and
\* objects; above all, no object is freed while there is a reference to it.
KeepsReferences == C!Spec
=============================================================================
