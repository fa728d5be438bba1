------------------------------- MODULE UUIDs -------------------------------
(* The table of unique UUIDs (CFUUID.c) over reference counts.  The table   *)
(* holds objects without retaining them.  A lookup and the retain of what   *)
(* it finds happen under one lock, as does the finalizer's removal; every   *)
(* critical section makes a single access to what others touch without the  *)
(* lock (the word of one object), and so is one step.                       *)
EXTENDS RefCount

CONSTANT Bytes          \* the values of a UUID

VARIABLES
  table,                \* _uniquedUUIDs: the object entered for some bytes
  bytes,                \* the bytes of an object
  constant,             \* the objects given out as constants
  pinned                \* the references that came with them, not to release

uuidVars == <<word, refs, work, table, bytes, constant, pinned>>

UUIDTypeOK ==
  /\ TypeOK
  /\ table \in [Bytes -> Objects \cup {None}]
  /\ bytes \in [Objects -> Bytes \cup {None}]
  /\ constant \subseteq Objects
  /\ pinned \subseteq Refs

UUIDInit ==
  /\ Init
  /\ table = [b \in Bytes |-> None]
  /\ bytes = [o \in Objects |-> None]
  /\ constant = {} /\ pinned = {}

\* __CFUUIDCreateWithBytesPrimitive: no object is in the table.
Enter(t, b, o, r) ==
  /\ table[b] = None
  /\ Create(t, o, r)
  /\ table' = [table EXCEPT ![b] = o]
  /\ bytes' = [bytes EXCEPT ![o] = b]

CreateWithBytes(t, b, o, r) ==
  /\ Enter(t, b, o, r)
  /\ UNCHANGED <<constant, pinned>>

\* __CFUUIDCreateWithBytesPrimitive: the object in the table is retained.
FindWithBytes(t, b, r) ==
  /\ table[b] # None
  /\ Increment(t, table[b], r)
  /\ UNCHANGED <<table, bytes, constant, pinned>>

\* CFUUIDGetConstantUUIDWithBytes makes an object and lets nobody release it,
CreateConstant(t, b, o, r) ==
  /\ Enter(t, b, o, r)
  /\ constant' = constant \cup {o}
  /\ pinned' = pinned \cup {r}

\* or returns the object in the table, which it does not retain.
FindConstant(t, b) ==
  /\ work[t].at = "idle" /\ table[b] # None
  /\ constant' = constant \cup {table[b]}
  /\ UNCHANGED <<word, refs, work, table, bytes, pinned>>

\* Mutants: an object that was found meanwhile, or a constant, is left there.
DeallocateUnlessFound(t) ==
  LET o == work[t].obj IN
  /\ FinalizerEnds(t)
  /\ table' = IF word[o].rc = 1 THEN [table EXCEPT ![bytes[o]] = None]
                               ELSE table
  /\ UNCHANGED <<bytes, constant, pinned>>
DeallocateUnlessConstant(t) ==
  LET o == work[t].obj IN
  /\ FinalizerEnds(t)
  /\ table' = IF o \in constant THEN table
                               ELSE [table EXCEPT ![bytes[o]] = None]
  /\ UNCHANGED <<bytes, constant, pinned>>

\* __CFUUIDDeallocate, the finalizer: whatever object has these bytes leaves.
Deallocate(t) ==
  /\ FinalizerEnds(t)
  /\ table' = [table EXCEPT ![bytes[work[t].obj]] = None]
  /\ UNCHANGED <<bytes, constant, pinned>>

Counting(t) ==
  /\ \/ Decrement(t) \/ StartFinalizing(t) \/ Reread(t)
     \/ Hammer(t) \/ Revive(t)
     \/ \E o \in Objects, r \in Refs :
          \/ Retain(t, o, r) \/ TryRetain(t, o, r)
          \/ r \notin pinned /\ Release(t, o, r)
  /\ UNCHANGED <<table, bytes, constant, pinned>>

UUIDNext == \E t \in Threads :
  \/ Counting(t) \/ Deallocate(t)
  \/ \E b \in Bytes :
       \/ FindConstant(t, b)
       \/ \E r \in Refs :
            \/ FindWithBytes(t, b, r)
            \/ \E o \in Objects : CreateWithBytes(t, b, o, r)
                                  \/ CreateConstant(t, b, o, r)

UUIDSpec == UUIDInit /\ [][UUIDNext]_uuidVars

\* A thread inside CFRelease keeps running.
FairUUIDSpec ==
  /\ UUIDSpec
  /\ \A t \in Threads :
       WF_uuidVars(Deallocate(t) \/ (work[t].at # "idle" /\ Counting(t)))

-----------------------------------------------------------------------------
\* The steps over the table are steps of RefCount: what a lookup retains is
\* always an object whose finalizer has not been to the table yet, so that the
\* second read of the count notices every resurrection.
FoundInTime == Spec

\* The table never leads to an object that is freed or that its release is
\* about to free, although it does not retain what it holds, an object may be
\* found while its finalizer waits for the lock, and a second finalizer of a
\* resurrected object removes what an equal object has entered since.
TableIsFresh == \A b \in Bytes, o \in Objects : table[b] = o =>
  /\ bytes[o] = b
  /\ word[o].bits \in {"clear", "deallocating"}
  /\ \A t \in Threads : work[t].obj = o =>
                          work[t].at \notin {"finalized", "hammer", "revive"}

\* Every CFRelease returns: other threads can resurrect the object only as long
\* as it is in the table, which it enters once.
ReleaseReturns == \A t \in Threads : work[t].at # "idle" ~> work[t].at = "idle"

\* CFUUID.h: a UUID given out as a constant is immortal.
ConstantsAreImmortal == \A o \in constant : word[o].bits # "deallocated"
=============================================================================
