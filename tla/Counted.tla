------------------------------ MODULE Counted ------------------------------
(* What CFRetain, CFRelease and the weak retain promise of an object,       *)
(* whatever the word or the table that holds the count: references keep it  *)
(* alive, the finalizer runs when the last one is given up, an object whose *)
(* finalizer hands out a reference lives on, and only an object without     *)
(* references is freed.                                                     *)
EXTENDS FiniteSets

CONSTANTS Objects,      \* the objects
          Refs,         \* references, each to at most one object at a time
          None          \* no object

VARIABLES life,         \* "free" memory, a "live" object, or "finalizing"
          refs          \* the object each reference keeps alive

vars == <<life, refs>>

ReferencesTo(o) == {r \in Refs : refs[r] = o}

Init ==
  /\ life = [o \in Objects |-> "free"]
  /\ refs = [r \in Refs |-> None]

Create(o, r) ==
  /\ life[o] = "free" /\ refs[r] = None
  /\ life' = [life EXCEPT ![o] = "live"]
  /\ refs' = [refs EXCEPT ![r] = o]

\* From a reference, a weak reference or a table that the finalizer has not
\* left yet.
Retain(o, r) ==
  /\ life[o] \in {"live", "finalizing"} /\ refs[r] = None
  /\ refs' = [refs EXCEPT ![r] = o]
  /\ UNCHANGED life

Release(o, r) ==
  /\ refs[r] = o /\ ReferencesTo(o) # {r}
  /\ refs' = [refs EXCEPT ![r] = None]
  /\ UNCHANGED life

\* The last reference is being given up.
Finalize(o, r) ==
  /\ life[o] = "live" /\ ReferencesTo(o) = {r}
  /\ life' = [life EXCEPT ![o] = "finalizing"]
  /\ UNCHANGED refs

Resurrect(o) ==
  /\ life[o] = "finalizing"
  /\ life' = [life EXCEPT ![o] = "live"]
  /\ UNCHANGED refs

Free(o, r) ==
  /\ life[o] = "finalizing" /\ ReferencesTo(o) = {r}
  /\ life' = [life EXCEPT ![o] = "free"]
  /\ refs' = [refs EXCEPT ![r] = None]

Next == \E o \in Objects :
  \/ Resurrect(o)
  \/ \E r \in Refs : \/ Create(o, r) \/ Retain(o, r) \/ Release(o, r)
                     \/ Finalize(o, r) \/ Free(o, r)

Spec == Init /\ [][Next]_vars
=============================================================================
