---------------------------- MODULE TablesProofs ----------------------------
(* What is proved of the tables beneath the collections and of the objects  *)
(* that tables and their users retain.  For any threads, objects, bytes and *)
(* finite set of references: reference counts (RefCount), and the table of  *)
(* unique UUIDs over them (UUIDs).  For any number of threads and callbacks:*)
(* every index into the shared table of callbacks leads to its callback for *)
(* ever and lies in the table (CallBackPtrs).  For any sizes, hash codes    *)
(* and limits: a hash finds what its calls have put into it, and nothing    *)
(* else (BasicHash).                                                        *)
EXTENDS UUIDs, CallBackPtrs, BasicHash, FiniteSetTheorems,
        WellFoundedInduction, TLAPS

-----------------------------------------------------------------------------
(* Reference counts, and the table over them.                               *)

Releasing(t) == work[t].at # "idle"
Finishing(t) == work[t].at \in LastSteps

\* The count of an object, and none when it is free.
Counts == \A o \in Objects :
  /\ word[o].rc = Cardinality(ReferencesTo(o))
  /\ word[o].bits = "deallocated" => ReferencesTo(o) = {}

\* A thread inside CFRelease still has the reference it gives up, alone.
Working == \A t \in Threads :
  IF Releasing(t)
  THEN /\ work[t].obj \in Objects /\ work[t].ref \in Refs
       /\ refs[work[t].ref] = work[t].obj
       /\ \A u \in Threads \ {t} : Releasing(u) => work[u].ref # work[t].ref
  ELSE work[t].ref = None

\* The deallocating bit is that of one thread, the one that set it.
Deallocating == \A o \in Objects :
  /\ word[o].bits = "deallocating" =>
       \E t \in Threads : Finishing(t) /\ work[t].obj = o
  /\ \A t \in Threads : Finishing(t) /\ work[t].obj = o =>
       /\ word[o].bits = "deallocating"
       /\ \A u \in Threads \ {t} : ~(Finishing(u) /\ work[u].obj = o)

\* Past the second read nobody else can come by the object.
Hammering == \A t \in Threads :
  work[t].at = "hammer" => ReferencesTo(work[t].obj) = {work[t].ref}

IInv == TypeOK /\ Counts /\ Working /\ Deallocating /\ Hammering

-----------------------------------------------------------------------------
LEMMA ReferencesFinite ==
  ASSUME NEW o PROVE /\ IsFiniteSet(ReferencesTo(o))
                     /\ Cardinality(ReferencesTo(o)) \in Nat
  BY FiniteAssumption, FS_Subset, FS_CardinalityType DEF ReferencesTo

\* A new reference to object o counts one more.
LEMMA Gains ==
  ASSUME refs \in [Refs -> Objects \cup {None}], NEW o \in Objects,
         NEW r \in Refs, refs[r] = None, refs' = [refs EXCEPT ![r] = o]
  PROVE  /\ ReferencesTo(o)' = ReferencesTo(o) \cup {r}
         /\ Cardinality(ReferencesTo(o)') = Cardinality(ReferencesTo(o)) + 1
         /\ \A p \in Objects \ {o} : ReferencesTo(p)' = ReferencesTo(p)
<1>1. /\ ReferencesTo(o)' = ReferencesTo(o) \cup {r}
      /\ r \notin ReferencesTo(o)
  BY NoneAssumption DEF ReferencesTo
<1>2. Cardinality(ReferencesTo(o) \cup {r}) = Cardinality(ReferencesTo(o)) + 1
  BY <1>1, ReferencesFinite, FS_AddElement
<1>3. \A p \in Objects \ {o} : ReferencesTo(p)' = ReferencesTo(p)
  BY NoneAssumption DEF ReferencesTo
<1> QED
  BY <1>1, <1>2, <1>3

\* A reference to object o given up counts one less.
LEMMA Loses ==
  ASSUME refs \in [Refs -> Objects \cup {None}], NEW o \in Objects,
         NEW r \in Refs, refs[r] = o, refs' = [refs EXCEPT ![r] = None]
  PROVE  /\ ReferencesTo(o)' = ReferencesTo(o) \ {r}
         /\ r \in ReferencesTo(o)
         /\ Cardinality(ReferencesTo(o)') = Cardinality(ReferencesTo(o)) - 1
         /\ \A p \in Objects \ {o} : ReferencesTo(p)' = ReferencesTo(p)
<1>1. /\ ReferencesTo(o)' = ReferencesTo(o) \ {r}
      /\ r \in ReferencesTo(o)
  BY NoneAssumption DEF ReferencesTo
<1>2. Cardinality(ReferencesTo(o) \ {r}) = Cardinality(ReferencesTo(o)) - 1
  BY <1>1, ReferencesFinite, FS_RemoveElement
<1>3. \A p \in Objects \ {o} : ReferencesTo(p)' = ReferencesTo(p)
  BY NoneAssumption DEF ReferencesTo
<1> QED
  BY <1>1, <1>2, <1>3

\* With a count of one, a reference is the only one.
LEMMA OnlyOne ==
  ASSUME Counts, NEW o \in Objects, word[o].rc = 1,
         NEW r \in ReferencesTo(o)
  PROVE  ReferencesTo(o) = {r}
<1>1. Cardinality(ReferencesTo(o)) = 1
  BY DEF Counts
<1>2. PICK q : ReferencesTo(o) = {q}
  BY <1>1, ReferencesFinite, FS_Singleton
<1> QED
  BY <1>2

-----------------------------------------------------------------------------
(* The steps.                                                               *)

LEMMA InitHolds == Init => IInv
<1> SUFFICES ASSUME Init PROVE IInv
  OBVIOUS
<1>1. \A o \in Objects : ReferencesTo(o) = {}
  BY NoneAssumption DEF Init, ReferencesTo
<1> QED
  BY <1>1, FS_EmptySet
  DEF Init, IInv, TypeOK, Counts, Working, Deallocating, Hammering, Idle,
      Bits, Releasing, Finishing, LastSteps

\* A new reference is never to an object that its release is about to free.
LEMMA MayRetain ==
  ASSUME IInv, NEW t \in Threads, NEW o \in Objects, NEW r \in Refs,
         Retain(t, o, r) \/ TryRetain(t, o, r) \/ RetainFound(t, o, r)
  PROVE  /\ Increment(t, o, r)
         /\ word[o].bits # "deallocated"
         /\ \A u \in Threads : work[u].at = "hammer" => work[u].obj # o
<1>1. CASE Retain(t, o, r)
  <2>1. PICK q \in ReferencesTo(o) : Kept(q)
    BY <1>1 DEF Retain
  <2>2. ASSUME NEW u \in Threads, work[u].at = "hammer", work[u].obj = o
        PROVE  FALSE
    BY <2>1, <2>2 DEF IInv, Hammering, Kept
  <2> QED
    BY <1>1, <2>1, <2>2 DEF Retain, IInv, Counts
<1>2. CASE TryRetain(t, o, r)
  BY <1>2 DEF TryRetain, IInv, Deallocating, Finishing, LastSteps
<1>3. CASE RetainFound(t, o, r)
  <2>1. CASE word[o].bits = "clear"
    BY <1>3, <2>1
    DEF RetainFound, IInv, Deallocating, Finishing, LastSteps
  <2>2. CASE \E u \in Threads : work[u].at = "finalizing" /\ work[u].obj = o
    <3>1. PICK u \in Threads : work[u].at = "finalizing" /\ work[u].obj = o
      BY <2>2
    <3>2. Finishing(u) /\ word[o].bits = "deallocating"
      BY <3>1 DEF IInv, Deallocating, Finishing, LastSteps
    <3>3. \A v \in Threads : work[v].at = "hammer" => work[v].obj # o
      BY <3>1, <3>2 DEF IInv, Deallocating, Finishing, LastSteps
    <3> QED
      BY <1>3, <3>2, <3>3 DEF RetainFound
  <2> QED
    BY <1>3, <2>1, <2>2 DEF RetainFound
<1> QED
  BY <1>1, <1>2, <1>3

LEMMA CreateStep ==
  ASSUME IInv, NEW t \in Threads, NEW o \in Objects, NEW r \in Refs,
         Create(t, o, r)
  PROVE  IInv'
<1> USE DEF Create
<1>1. TypeOK'
  BY DEF IInv, TypeOK, Bits
<1>2. /\ ReferencesTo(o)' = ReferencesTo(o) \cup {r}
      /\ Cardinality(ReferencesTo(o)') = Cardinality(ReferencesTo(o)) + 1
      /\ \A p \in Objects \ {o} : ReferencesTo(p)' = ReferencesTo(p)
  BY Gains DEF IInv, TypeOK
<1>3. ReferencesTo(o) = {} /\ Cardinality(ReferencesTo(o)) = 0
  BY FS_EmptySet DEF IInv, Counts
<1>4. Counts'
  <2>1. /\ word'[o].rc = 1 /\ word'[o].bits = "clear"
        /\ \A p \in Objects \ {o} : word'[p] = word[p]
    BY DEF IInv, TypeOK
  <2>2. Cardinality(ReferencesTo(o)') = 1
    BY <1>2, <1>3
  <2>3. ASSUME NEW p \in Objects \ {o}
        PROVE  /\ word'[p].rc = Cardinality(ReferencesTo(p)')
               /\ word'[p].bits = "deallocated" => ReferencesTo(p)' = {}
    BY <1>2, <2>1 DEF IInv, Counts
  <2> QED
    BY <2>1, <2>2, <2>3 DEF Counts
<1>5. Working'
  BY NoneAssumption DEF IInv, TypeOK, Working, Releasing
<1>6. \A u \in Threads : Finishing(u) => work[u].obj # o
  BY DEF IInv, Deallocating
<1>7. Deallocating'
  BY <1>6 DEF IInv, TypeOK, Deallocating, Finishing
<1>8. Hammering'
  BY <1>2, <1>6 DEF IInv, Hammering, Finishing, LastSteps, Working, Releasing
<1> QED
  BY <1>1, <1>4, <1>5, <1>7, <1>8 DEF IInv

LEMMA RetainStep ==
  ASSUME IInv, NEW t \in Threads, NEW o \in Objects, NEW r \in Refs,
         Retain(t, o, r) \/ TryRetain(t, o, r) \/ RetainFound(t, o, r)
  PROVE  IInv'
<1>0. /\ Increment(t, o, r)
      /\ word[o].bits # "deallocated"
      /\ \A u \in Threads : work[u].at = "hammer" => work[u].obj # o
  BY MayRetain
<1> USE <1>0 DEF Increment
<1>1. TypeOK'
  BY DEF IInv, TypeOK, Bits
<1>2. /\ ReferencesTo(o)' = ReferencesTo(o) \cup {r}
      /\ Cardinality(ReferencesTo(o)') = Cardinality(ReferencesTo(o)) + 1
      /\ \A p \in Objects \ {o} : ReferencesTo(p)' = ReferencesTo(p)
  BY Gains DEF IInv, TypeOK
<1>4. Counts'
  <2>1. /\ word'[o].rc = word[o].rc + 1 /\ word'[o].bits = word[o].bits
        /\ \A p \in Objects \ {o} : word'[p] = word[p]
    BY DEF IInv, TypeOK
  <2> QED
    BY <1>0, <1>2, <2>1 DEF IInv, Counts
<1>5. Working'
  BY NoneAssumption DEF IInv, TypeOK, Working, Releasing
<1>6. \A p \in Objects : word'[p].bits = word[p].bits
  BY DEF IInv, TypeOK
<1>7. Deallocating'
  BY <1>6 DEF IInv, Deallocating, Finishing
<1>8. Hammering'
  BY <1>2 DEF IInv, Hammering, Working, Releasing
<1> QED
  BY <1>1, <1>4, <1>5, <1>7, <1>8 DEF IInv

LEMMA ReleaseStep ==
  ASSUME IInv, NEW t \in Threads, NEW o \in Objects, NEW r \in Refs,
         Release(t, o, r)
  PROVE  IInv'
<1> USE DEF Release
<1>1. TypeOK'
  BY DEF IInv, TypeOK, LastSteps
<1>2. /\ work'[t] = [at |-> "release", obj |-> o, ref |-> r]
      /\ \A u \in Threads \ {t} : work'[u] = work[u]
      /\ \A p \in Objects : ReferencesTo(p)' = ReferencesTo(p)
  BY DEF IInv, TypeOK, ReferencesTo
<1>3. Counts'
  BY <1>2 DEF IInv, Counts
<1>4. Working'
  BY <1>2 DEF IInv, Working, Releasing, Kept
<1>5. \A u \in Threads : Finishing(u)' = Finishing(u)
  BY <1>2 DEF Finishing, LastSteps
<1>6. \A u \in Threads : Finishing(u) => work'[u] = work[u]
  BY <1>2 DEF Finishing, LastSteps
<1>7. Deallocating'
  BY <1>5, <1>6 DEF IInv, Deallocating
<1>8. Hammering'
  BY <1>2 DEF IInv, Hammering, Working, Releasing
<1> QED
  BY <1>1, <1>3, <1>4, <1>7, <1>8 DEF IInv

\* A step of thread t's release, which starts at some place.
LEMMA Moves ==
  ASSUME IInv, NEW t \in Threads, NEW place \in {"release"} \cup LastSteps,
         Releasing(t), Goto(t, place), UNCHANGED refs
  PROVE  /\ work' \in [Threads -> [at : {"idle", "release"} \cup LastSteps,
                                   obj : Objects \cup {None},
                                   ref : Refs \cup {None}]]
         /\ work'[t].at = place
         /\ work'[t].obj = work[t].obj /\ work'[t].ref = work[t].ref
         /\ \A u \in Threads \ {t} : work'[u] = work[u]
         /\ \A o : ReferencesTo(o)' = ReferencesTo(o)
         /\ Working'
<1>1. /\ work' \in [Threads -> [at : {"idle", "release"} \cup LastSteps,
                                obj : Objects \cup {None},
                                ref : Refs \cup {None}]]
      /\ work'[t].at = place
      /\ work'[t].obj = work[t].obj /\ work'[t].ref = work[t].ref
      /\ \A u \in Threads \ {t} : work'[u] = work[u]
      /\ \A o : ReferencesTo(o)' = ReferencesTo(o)
  BY DEF IInv, TypeOK, Goto, ReferencesTo
<1>2. place # "idle"
  BY DEF LastSteps
<1>3. Working'
  BY <1>1, <1>2 DEF IInv, Working, Releasing
<1> QED
  BY <1>1, <1>3

\* The reference of a thread inside CFRelease.
LEMMA HoldsOne ==
  ASSUME IInv, NEW t \in Threads, Releasing(t)
  PROVE  /\ work[t].obj \in Objects /\ work[t].ref \in Refs
         /\ work[t].ref \in ReferencesTo(work[t].obj)
         /\ word[work[t].obj].bits # "deallocated"
         /\ \A u \in Threads \ {t} :
              Releasing(u) => work[u].ref # work[t].ref
  BY DEF IInv, Working, Counts, ReferencesTo

LEMMA StartStep ==
  ASSUME IInv, NEW t \in Threads, StartFinalizing(t) PROVE IInv'
<1> DEFINE o == work[t].obj
<1> USE DEF StartFinalizing, SetBits
<1>0. Releasing(t) /\ "finalizing" \in {"release"} \cup LastSteps
  BY DEF Releasing, LastSteps
<1>1. /\ o \in Objects /\ work[t].ref \in ReferencesTo(o)
      /\ \A u \in Threads \ {t} : Releasing(u) => work[u].ref # work[t].ref
  BY <1>0, HoldsOne
<1>2. /\ work'[t].at = "finalizing" /\ work'[t].obj = o
      /\ \A u \in Threads \ {t} : work'[u] = work[u]
      /\ \A p : ReferencesTo(p)' = ReferencesTo(p)
      /\ Working'
  BY <1>0, Moves
<1>3. /\ word'[o].rc = word[o].rc /\ word'[o].bits = "deallocating"
      /\ \A p \in Objects \ {o} : word'[p] = word[p]
  BY <1>1 DEF IInv, TypeOK
<1>4. ReferencesTo(o) = {work[t].ref}
  BY <1>1, OnlyOne DEF IInv
<1>5. \A u \in Threads \ {t} : Releasing(u) => work[u].obj # o
  BY <1>1, <1>4, HoldsOne
<1>6. TypeOK'
  BY <1>0, <1>1, Moves DEF IInv, TypeOK, Bits
<1>7. Counts'
  BY <1>2, <1>3 DEF IInv, Counts
<1>8. Deallocating'
  <2>1. \A u \in Threads \ {t} : Finishing(u) => work[u].obj # o
    BY <1>5 DEF Finishing, Releasing, LastSteps
  <2>2. Finishing(t)' /\ ~Finishing(t)
    BY <1>2 DEF Finishing, LastSteps
  <2>3. \A u \in Threads \ {t} : Finishing(u)' = Finishing(u)
    BY <1>2 DEF Finishing
  <2> QED
    BY <1>1, <1>2, <1>3, <2>1, <2>2, <2>3 DEF IInv, Deallocating
<1>9. Hammering'
  BY <1>2 DEF IInv, Hammering
<1> QED
  BY <1>2, <1>6, <1>7, <1>8, <1>9 DEF IInv

LEMMA FinalizerStep ==
  ASSUME IInv, NEW t \in Threads, FinalizerEnds(t) \/ Reread(t)
  PROVE  IInv'
<1> DEFINE o == work[t].obj
           place == work'[t].at
<1> USE DEF FinalizerEnds, Reread
<1>0. /\ Releasing(t) /\ Finishing(t)
      /\ \E q \in {"finalized", "hammer", "revive"} :
           /\ Goto(t, q)
           /\ q = "hammer" => word[o].rc = 1
      /\ UNCHANGED <<word, refs>>
  BY DEF Releasing, Finishing, LastSteps
<1>1. PICK q \in {"finalized", "hammer", "revive"} :
         Goto(t, q) /\ (q = "hammer" => word[o].rc = 1)
  BY <1>0
<1>2. q \in {"release"} \cup LastSteps
  BY DEF LastSteps
<1>3. /\ work'[t].at = q /\ work'[t].obj = o /\ work'[t].ref = work[t].ref
      /\ \A u \in Threads \ {t} : work'[u] = work[u]
      /\ \A p : ReferencesTo(p)' = ReferencesTo(p)
      /\ Working'
  BY <1>0, <1>1, <1>2, Moves
<1>4. TypeOK'
  BY <1>0, <1>1, <1>2, Moves DEF IInv, TypeOK
<1>5. Counts'
  BY <1>0, <1>3 DEF IInv, Counts
<1>6. Deallocating'
  <2>1. \A u \in Threads : Finishing(u)' = Finishing(u)
    BY <1>0, <1>3 DEF Finishing, LastSteps
  <2>2. \A u \in Threads : work'[u].obj = work[u].obj
    BY <1>3
  <2> QED
    BY <1>0, <2>1, <2>2 DEF IInv, Deallocating
<1>7. Hammering'
  <2>1. q = "hammer" => ReferencesTo(o) = {work[t].ref}
    BY <1>0, <1>1, HoldsOne, OnlyOne DEF IInv
  <2> QED
    BY <1>3, <2>1 DEF IInv, Hammering
<1> QED
  BY <1>3, <1>4, <1>5, <1>6, <1>7 DEF IInv

LEMMA ReviveStep ==
  ASSUME IInv, NEW t \in Threads, Revive(t) PROVE IInv'
<1> DEFINE o == work[t].obj
<1> USE DEF Revive, SetBits
<1>0. Releasing(t) /\ Finishing(t)
  BY DEF Releasing, Finishing, LastSteps
<1>1. /\ o \in Objects /\ word[o].bits = "deallocating"
      /\ \A u \in Threads \ {t} : ~(Finishing(u) /\ work[u].obj = o)
  BY <1>0, HoldsOne DEF IInv, Deallocating
<1>2. /\ work'[t].at = "release" /\ work'[t].obj = o
      /\ \A u \in Threads \ {t} : work'[u] = work[u]
      /\ \A p : ReferencesTo(p)' = ReferencesTo(p)
      /\ Working'
  BY <1>0, Moves
<1>3. /\ word'[o].rc = word[o].rc /\ word'[o].bits = "clear"
      /\ \A p \in Objects \ {o} : word'[p] = word[p]
  BY <1>1 DEF IInv, TypeOK
<1>4. TypeOK'
  BY <1>0, <1>1, Moves DEF IInv, TypeOK, Bits
<1>5. Counts'
  BY <1>2, <1>3 DEF IInv, Counts
<1>6. Deallocating'
  <2>1. ~Finishing(t)'
    BY <1>2 DEF Finishing, LastSteps
  <2>2. \A u \in Threads \ {t} : Finishing(u)' = Finishing(u)
    BY <1>2 DEF Finishing
  <2> QED
    BY <1>0, <1>1, <1>2, <1>3, <2>1, <2>2 DEF IInv, Deallocating
<1>7. Hammering'
  BY <1>2 DEF IInv, Hammering
<1> QED
  BY <1>2, <1>4, <1>5, <1>6, <1>7 DEF IInv

\* The end of a release: one reference less.
LEMMA EndStep ==
  ASSUME IInv, NEW t \in Threads, Decrement(t) \/ Hammer(t)
  PROVE  IInv'
<1> SUFFICES ASSUME NEW o, o = work[t].obj PROVE IInv'
  OBVIOUS
<1>0. /\ Releasing(t)
      /\ refs' = [refs EXCEPT ![work[t].ref] = None]
      /\ work' = [work EXCEPT ![t] = Idle]
  BY DEF Decrement, Hammer, Releasing
<1>1. /\ o \in Objects /\ work[t].ref \in Refs
      /\ work[t].ref \in ReferencesTo(o) /\ refs[work[t].ref] = o
      /\ \A u \in Threads \ {t} : Releasing(u) => work[u].ref # work[t].ref
      /\ word[o].bits # "deallocated"
  BY <1>0, HoldsOne DEF ReferencesTo
<1>2. /\ ReferencesTo(o)' = ReferencesTo(o) \ {work[t].ref}
      /\ Cardinality(ReferencesTo(o)') = Cardinality(ReferencesTo(o)) - 1
      /\ \A p \in Objects \ {o} : ReferencesTo(p)' = ReferencesTo(p)
  BY <1>0, <1>1, Loses DEF IInv, TypeOK
<1>3. /\ work'[t] = Idle /\ \A u \in Threads \ {t} : work'[u] = work[u]
      /\ ~Releasing(t)' /\ ~Finishing(t)'
      /\ \A u \in Threads \ {t} : Releasing(u)' = Releasing(u)
                                  /\ Finishing(u)' = Finishing(u)
  BY <1>0 DEF IInv, TypeOK, Idle, Releasing, Finishing, LastSteps
<1>4. /\ word'[o].rc = word[o].rc - 1 /\ word[o].rc \in Nat
      /\ \A p \in Objects \ {o} : word'[p] = word[p]
      /\ word'[o].bits = IF work[t].at = "hammer" THEN "deallocated"
                                                  ELSE word[o].bits
      /\ DOMAIN word' = Objects
  BY <1>1 DEF IInv, TypeOK, Decrement, Hammer
<1>5. word[o].rc = Cardinality(ReferencesTo(o)) /\ word[o].rc # 0
  BY <1>1, ReferencesFinite, FS_EmptySet DEF IInv, Counts
<1>6. TypeOK'
  <2>1. work' \in [Threads -> [at : {"idle", "release"} \cup LastSteps,
                              obj : Objects \cup {None},
                              ref : Refs \cup {None}]]
    BY <1>0 DEF IInv, TypeOK, Idle
  <2>2. refs' \in [Refs -> Objects \cup {None}]
    BY <1>0 DEF IInv, TypeOK
  <2>3. word[o].rc - 1 \in Nat
    BY <1>4, <1>5
  <2>4. word' \in [Objects -> [rc : Nat, bits : Bits]]
    BY <1>1, <2>3 DEF IInv, TypeOK, Decrement, Hammer, Bits
  <2> QED
    BY <2>1, <2>2, <2>4 DEF TypeOK
<1>7. work[t].at = "hammer" => ReferencesTo(o)' = {}
  BY <1>2 DEF IInv, Hammering
<1>8. Counts'
  <2>1. ASSUME NEW p \in Objects \ {o}
        PROVE  /\ word'[p].rc = Cardinality(ReferencesTo(p)')
               /\ word'[p].bits = "deallocated" => ReferencesTo(p)' = {}
    BY <1>2, <1>4 DEF IInv, Counts
  <2>2. word'[o].rc = Cardinality(ReferencesTo(o)')
    BY <1>2, <1>4, <1>5
  <2>3. word'[o].bits = "deallocated" => ReferencesTo(o)' = {}
    BY <1>1, <1>4, <1>7
  <2> QED
    BY <2>1, <2>2, <2>3 DEF Counts
<1>9. Working'
  <2>1. \A u \in Threads \ {t} :
          Releasing(u) => refs'[work[u].ref] = refs[work[u].ref]
    BY <1>0, <1>1, HoldsOne DEF IInv, TypeOK
  <2>2. work'[t].ref = None
    BY <1>3 DEF Idle
  <2> QED
    BY <1>3, <2>1, <2>2 DEF IInv, Working
<1>10. Deallocating'
  <2>1. CASE work[t].at = "hammer"
    <3>1. Finishing(t)
      BY <2>1 DEF Finishing, LastSteps
    <3>2. \A u \in Threads \ {t} : ~(Finishing(u) /\ work[u].obj = o)
      BY <1>1, <3>1 DEF IInv, Deallocating
    <3>3. word'[o].bits = "deallocated"
      BY <1>4, <2>1
    <3> QED
      BY <1>3, <1>4, <3>2, <3>3 DEF IInv, Deallocating
  <2>2. CASE work[t].at # "hammer"
    <3>1. work[t].at = "release" /\ ~Finishing(t)
      BY <2>2 DEF Decrement, Hammer, Finishing, LastSteps
    <3>2. \A p \in Objects : word'[p].bits = word[p].bits
      BY <1>4, <2>2
    <3> QED
      BY <1>3, <3>1, <3>2 DEF IInv, Deallocating
  <2> QED
    BY <2>1, <2>2
<1>11. Hammering'
  <2>1. ASSUME NEW u \in Threads \ {t}, work[u].at = "hammer"
        PROVE  ReferencesTo(work[u].obj)' = {work[u].ref}
    <3>1. Releasing(u) /\ ReferencesTo(work[u].obj) = {work[u].ref}
      BY <2>1 DEF IInv, Hammering, Releasing
    <3>2. work[u].obj # o /\ work[u].obj \in Objects
      BY <1>1, <3>1, HoldsOne
    <3>3. ReferencesTo(work[u].obj) = {r \in Refs : refs'[r] = work[u].obj}
      BY <1>2, <3>2 DEF ReferencesTo
    <3> QED
      BY <1>3, <3>1, <3>3 DEF ReferencesTo
  <2>2. work'[t].at # "hammer"
    BY <1>3 DEF Idle
  <2> QED
    BY <1>3, <2>1, <2>2 DEF Hammering
<1> QED
  BY <1>6, <1>8, <1>9, <1>10, <1>11 DEF IInv

LEMMA NextStep == IInv /\ [Next]_vars => IInv'
<1> SUFFICES ASSUME IInv, [Next]_vars PROVE IInv'
  OBVIOUS
<1>1. CASE UNCHANGED vars
  <2>1. \A o : ReferencesTo(o)' = ReferencesTo(o)
    BY <1>1 DEF vars, ReferencesTo
  <2>2. TypeOK' /\ Counts' /\ Hammering'
    BY <1>1, <2>1 DEF vars, IInv, TypeOK, Counts, Hammering
  <2>3. Working' /\ Deallocating'
    BY <1>1 DEF vars, IInv, Working, Deallocating, Releasing, Finishing
  <2> QED
    BY <2>2, <2>3 DEF IInv
<1>2. CASE Next
  <2>1. PICK t \in Threads :
          \/ Continue(t)
          \/ \E o \in Objects, r \in Refs :
               \/ Create(t, o, r) \/ Retain(t, o, r) \/ TryRetain(t, o, r)
               \/ RetainFound(t, o, r) \/ Release(t, o, r)
    BY <1>2 DEF Next
  <2>2. CASE Continue(t)
    BY <2>2, EndStep, StartStep, FinalizerStep, ReviveStep DEF Continue
  <2>3. CASE \E o \in Objects, r \in Refs :
               \/ Create(t, o, r) \/ Retain(t, o, r) \/ TryRetain(t, o, r)
               \/ RetainFound(t, o, r) \/ Release(t, o, r)
    BY <2>3, CreateStep, RetainStep, ReleaseStep
  <2> QED
    BY <2>1, <2>2, <2>3
<1> QED
  BY <1>1, <1>2

LEMMA Invariant == Spec => []IInv
  BY InitHolds, NextStep, PTL DEF Spec

-----------------------------------------------------------------------------
\* RefCount.CountsAreExact, for any threads, objects and finite set of
\* references: the count is the number of references (_CFRetain, _CFRelease).
THEOREM CountsAlwaysExact == Spec => []CountsAreExact
<1>1. IInv => CountsAreExact
  BY DEF IInv, Counts, CountsAreExact
<1> QED
  BY <1>1, Invariant, PTL

\* RefCount.OneFinalizer: no two threads are past setting the deallocating bit
\* of one object (_CFRelease).
THEOREM OneFinalizerAlways == Spec => []OneFinalizer
<1>1. ASSUME IInv, NEW o \in Objects
      PROVE  Cardinality({t \in Threads :
                            work[t].at \in LastSteps /\ work[t].obj = o})
               = IF word[o].bits = "deallocating" THEN 1 ELSE 0
  <2> DEFINE last == {t \in Threads : work[t].at \in LastSteps
                                      /\ work[t].obj = o}
  <2>1. CASE word[o].bits = "deallocating"
    <3>1. PICK t \in Threads : Finishing(t) /\ work[t].obj = o
      BY <1>1, <2>1 DEF IInv, Deallocating
    <3>2. last = {t}
      BY <1>1, <3>1 DEF IInv, Deallocating, Finishing
    <3> QED
      BY <2>1, <3>2, FS_Singleton
  <2>2. CASE word[o].bits # "deallocating"
    <3>1. last = {}
      BY <1>1, <2>2 DEF IInv, Deallocating, Finishing
    <3> QED
      BY <2>2, <3>1, FS_EmptySet
  <2> QED
    BY <2>1, <2>2
<1>2. IInv => OneFinalizer
  BY <1>1 DEF OneFinalizer
<1> QED
  BY <1>2, Invariant, PTL

-----------------------------------------------------------------------------
(* The refinement.                                                          *)

LEMMA LifeIs ==
  ASSUME TypeOK, NEW o \in Objects
  PROVE  /\ word[o].bits = "clear" => Life[o] = "live"
         /\ word[o].bits = "deallocating" => Life[o] = "finalizing"
         /\ word[o].bits = "deallocated" => Life[o] = "free"
  BY DEF Life, Phase

LEMMA SameReferences == ASSUME NEW o PROVE C!ReferencesTo(o) = ReferencesTo(o)
  BY DEF C!ReferencesTo, ReferencesTo

LEMMA InitMaps == Init => C!Init
  BY DEF Init, Life, Phase, C!Init

\* A step that changes no bits maps to a step that changes no life.
LEMMA LifeStays ==
  ASSUME \A o \in Objects : word'[o].bits = word[o].bits
  PROVE  Life' = Life
  BY DEF Life

LEMMA LifeChanges ==
  ASSUME NEW o \in Objects, NEW bits \in Bits,
         word'[o].bits = bits,
         \A p \in Objects \ {o} : word'[p].bits = word[p].bits
  PROVE  Life' = [Life EXCEPT ![o] = Phase[bits]]
  BY DEF Life

LEMMA StepMaps ==
  ASSUME IInv, IInv', [Next]_vars PROVE [C!Next]_C!vars
<1> USE SameReferences
<1>1. CASE UNCHANGED vars
  BY <1>1 DEF vars, Life, C!vars
<1>2. ASSUME NEW t \in Threads, NEW o \in Objects, NEW r \in Refs,
             Create(t, o, r)
      PROVE  C!Create(o, r)
  <2>1. word'[o].bits = "clear"
        /\ \A p \in Objects \ {o} : word'[p].bits = word[p].bits
    BY <1>2 DEF Create, IInv, TypeOK
  <2>2. Life' = [Life EXCEPT ![o] = "live"]
    BY <2>1, LifeChanges DEF Bits, Phase
  <2> QED
    BY <1>2, <2>2, LifeIs DEF Create, C!Create, IInv
<1>3. ASSUME NEW t \in Threads, NEW o \in Objects, NEW r \in Refs,
             Retain(t, o, r) \/ TryRetain(t, o, r) \/ RetainFound(t, o, r)
      PROVE  C!Retain(o, r)
  <2>1. Increment(t, o, r) /\ word[o].bits \in {"clear", "deallocating"}
    BY <1>3, MayRetain DEF IInv, TypeOK, Bits
  <2>2. Life' = Life
    BY <2>1, LifeStays DEF Increment, IInv, TypeOK
  <2> QED
    BY <2>1, <2>2, LifeIs DEF Increment, C!Retain, IInv
<1>4. ASSUME NEW t \in Threads, Continue(t)
      PROVE  \/ UNCHANGED C!vars
             \/ C!Next
  <2> SUFFICES ASSUME NEW o, o = work[t].obj, NEW r, r = work[t].ref
               PROVE  UNCHANGED C!vars \/ C!Next
    OBVIOUS
  <2>0. Releasing(t)
    BY <1>4 DEF Continue, Decrement, StartFinalizing, FinalizerEnds, Reread,
                Hammer, Revive, Releasing
  <2>1. /\ o \in Objects /\ r \in Refs /\ r \in ReferencesTo(o)
        /\ refs[r] = o /\ word[o].bits # "deallocated"
        /\ Finishing(t) => word[o].bits = "deallocating"
    BY <2>0, HoldsOne DEF ReferencesTo, IInv, Deallocating
  <2>2. CASE Decrement(t)
    <3>1. ReferencesTo(o) # {r}
      <4>1. Cardinality({r}) = 1
        BY FS_Singleton
      <4>2. word[o].rc = Cardinality(ReferencesTo(o)) /\ word[o].rc > 1
        BY <2>1, <2>2 DEF Decrement, IInv, Counts
      <4> QED
        BY <4>1, <4>2
    <3>2. Life' = Life
      BY <2>1, <2>2, LifeStays DEF Decrement, IInv, TypeOK
    <3> QED
      BY <2>1, <2>2, <3>1, <3>2 DEF Decrement, C!Release, C!Next
  <2>3. CASE StartFinalizing(t)
    <3>1. ReferencesTo(o) = {r}
      BY <2>1, <2>3, OnlyOne DEF StartFinalizing, IInv
    <3>2. word[o].bits = "clear"
      <4>1. SUFFICES ASSUME word[o].bits = "deallocating" PROVE FALSE
        BY <2>1 DEF IInv, TypeOK, Bits
      <4>2. PICK u \in Threads : Finishing(u) /\ work[u].obj = o
        BY <2>1, <4>1 DEF IInv, Deallocating
      <4>3. u # t
        BY <2>3, <4>2 DEF StartFinalizing, Finishing, LastSteps
      <4>4. Releasing(u)
        BY <4>2 DEF Finishing, Releasing, LastSteps
      <4> QED
        BY <2>0, <3>1, <4>2, <4>3, <4>4, HoldsOne
    <3>3. word'[o].bits = "deallocating"
          /\ \A p \in Objects \ {o} : word'[p].bits = word[p].bits
      BY <2>1, <2>3 DEF StartFinalizing, SetBits, IInv, TypeOK
    <3>4. Life' = [Life EXCEPT ![o] = "finalizing"]
      BY <2>1, <3>3, LifeChanges DEF Bits, Phase
    <3>5. C!Finalize(o, r)
      BY <2>1, <2>3, <3>1, <3>2, <3>4, LifeIs
      DEF StartFinalizing, C!Finalize, IInv
    <3> QED
      BY <2>1, <3>5 DEF C!Next
  <2>4. CASE FinalizerEnds(t) \/ Reread(t)
    BY <2>4, LifeStays DEF FinalizerEnds, Reread, C!vars
  <2>5. CASE Hammer(t)
    <3>1. ReferencesTo(o) = {r} /\ word[o].bits = "deallocating"
      BY <2>1, <2>5 DEF Hammer, IInv, Hammering, Finishing, LastSteps
    <3>2. word'[o].bits = "deallocated"
          /\ \A p \in Objects \ {o} : word'[p].bits = word[p].bits
      BY <2>1, <2>5 DEF Hammer, IInv, TypeOK
    <3>3. Life' = [Life EXCEPT ![o] = "free"]
      BY <2>1, <3>2, LifeChanges DEF Bits, Phase
    <3>4. C!Free(o, r)
      BY <2>1, <2>5, <3>1, <3>3, LifeIs DEF Hammer, C!Free, IInv
    <3> QED
      BY <2>1, <3>4 DEF C!Next
  <2>6. CASE Revive(t)
    <3>1. word[o].bits = "deallocating"
      BY <2>1, <2>6 DEF Revive, Finishing, LastSteps
    <3>2. word'[o].bits = "clear"
          /\ \A p \in Objects \ {o} : word'[p].bits = word[p].bits
      BY <2>1, <2>6 DEF Revive, SetBits, IInv, TypeOK
    <3>3. Life' = [Life EXCEPT ![o] = "live"]
      BY <2>1, <3>2, LifeChanges DEF Bits, Phase
    <3>4. C!Resurrect(o)
      BY <2>1, <2>6, <3>1, <3>3, LifeIs DEF Revive, C!Resurrect, IInv
    <3> QED
      BY <2>1, <3>4 DEF C!Next
  <2> QED
    BY <1>4, <2>2, <2>3, <2>4, <2>5, <2>6 DEF Continue
<1>5. ASSUME NEW t \in Threads, NEW o \in Objects, NEW r \in Refs,
             Release(t, o, r)
      PROVE  UNCHANGED C!vars
  BY <1>5 DEF Release, Life, C!vars
<1>6. CASE Next
  BY <1>2, <1>3, <1>4, <1>5, <1>6 DEF Next, C!Next
<1> QED
  BY <1>1, <1>6

\* RefCount.KeepsReferences: words, bits and the steps of a release implement
\* Counted, so that no object is freed while it is referenced.
THEOREM ReferencesKept == Spec => KeepsReferences
<1>1. Spec => C!Init
  BY InitMaps DEF Spec
<1>2. Spec => [][C!Next]_C!vars
  BY Invariant, StepMaps, PTL DEF Spec
<1> QED
  BY <1>1, <1>2, PTL DEF KeepsReferences, C!Spec
-----------------------------------------------------------------------------
(* The table of unique UUIDs.                                               *)

UUIDTypes == /\ table \in [Bytes -> Objects \cup {None}]
             /\ bytes \in [Objects -> Bytes \cup {None}]

UUIDInv == IInv /\ UUIDTypes /\ TableIsFresh

\* What is in the table may be retained.
LEMMA FindsInTime ==
  ASSUME UUIDInv, NEW t \in Threads, NEW b \in Bytes, NEW r \in Refs,
         FindWithBytes(t, b, r)
  PROVE  table[b] \in Objects /\ RetainFound(t, table[b], r)
<1> SUFFICES ASSUME NEW o, o = table[b]
             PROVE  o \in Objects /\ RetainFound(t, o, r)
  OBVIOUS
<1>1. o \in Objects /\ Increment(t, o, r)
  BY DEF FindWithBytes, UUIDInv, UUIDTypes
<1>2. CASE word[o].bits = "clear"
  BY <1>1, <1>2 DEF RetainFound
<1>3. CASE word[o].bits = "deallocating"
  <2>1. PICK u \in Threads : Finishing(u) /\ work[u].obj = o
    BY <1>1, <1>3 DEF UUIDInv, IInv, Deallocating
  <2>2. work[u].at = "finalizing"
    BY <1>1, <2>1 DEF UUIDInv, TableIsFresh, Finishing, LastSteps
  <2> QED
    BY <1>1, <2>1, <2>2 DEF RetainFound
<1> QED
  BY <1>1, <1>2, <1>3 DEF UUIDInv, TableIsFresh

LEMMA StepImplements ==
  ASSUME UUIDInv, [UUIDNext]_uuidVars PROVE [Next]_vars
<1>1. ASSUME NEW t \in Threads, Counting(t) PROVE Next
  BY <1>1 DEF Counting, Next, Continue
<1>2. ASSUME NEW t \in Threads, Deallocate(t) PROVE Next
  BY <1>2 DEF Deallocate, Next, Continue
<1>3. ASSUME NEW t \in Threads, NEW b \in Bytes, NEW r \in Refs,
             FindWithBytes(t, b, r)
      PROVE  Next
  BY <1>3, FindsInTime DEF Next
<1>4. ASSUME NEW t \in Threads, NEW b \in Bytes, FindConstant(t, b)
      PROVE  UNCHANGED vars
  BY <1>4 DEF FindConstant, vars
<1>5. ASSUME NEW t \in Threads, NEW b \in Bytes, NEW o \in Objects,
             NEW r \in Refs,
             CreateWithBytes(t, b, o, r) \/ CreateConstant(t, b, o, r)
      PROVE  Next
  BY <1>5 DEF CreateWithBytes, CreateConstant, Enter, Next
<1>6. CASE UNCHANGED uuidVars
  BY <1>6 DEF uuidVars, vars
<1> QED
  BY <1>1, <1>2, <1>3, <1>4, <1>5, <1>6 DEF UUIDNext

LEMMA TableStep ==
  ASSUME UUIDInv, IInv', [UUIDNext]_uuidVars
  PROVE  UUIDTypes' /\ TableIsFresh'
<1>1. CASE UNCHANGED uuidVars
  BY <1>1 DEF uuidVars, UUIDInv, UUIDTypes, TableIsFresh
<1>2. ASSUME NEW t \in Threads, NEW b \in Bytes, NEW o \in Objects,
             NEW r \in Refs, Enter(t, b, o, r)
      PROVE  UUIDTypes' /\ TableIsFresh'
  <2> USE <1>2 DEF Enter, Create
  <2>1. UUIDTypes'
    BY DEF UUIDInv, UUIDTypes
  <2>2. \A c \in Bytes : table[c] # o
    BY DEF UUIDInv, TableIsFresh
  <2>3. word'[o].bits = "clear"
        /\ \A p \in Objects \ {o} : word'[p] = word[p] /\ bytes'[p] = bytes[p]
    BY DEF UUIDInv, UUIDTypes, IInv, TypeOK
  <2>4. \A u \in Threads : Finishing(u) => work[u].obj # o
    BY DEF UUIDInv, IInv, Deallocating
  <2>5. /\ bytes'[o] = b
        /\ \A c \in Bytes : table'[c] = IF c = b THEN o ELSE table[c]
    BY DEF UUIDInv, UUIDTypes
  <2> QED
    BY <2>1, <2>2, <2>3, <2>4, <2>5
    DEF UUIDInv, TableIsFresh, Finishing, LastSteps
<1>3. ASSUME NEW t \in Threads, FinalizerEnds(t), Deallocate(t)
      PROVE  UUIDTypes' /\ TableIsFresh'
  <2> SUFFICES ASSUME NEW o, o = work[t].obj
               PROVE  UUIDTypes' /\ TableIsFresh'
    OBVIOUS
  <2>1. o \in Objects /\ Releasing(t) /\ Finishing(t)
    BY <1>3, HoldsOne DEF FinalizerEnds, Releasing, Finishing, LastSteps, UUIDInv
  <2>2. UUIDTypes'
    BY <1>3 DEF Deallocate, UUIDInv, UUIDTypes
  <2>3. \A c \in Bytes : table'[c] = IF c = bytes[o] THEN None ELSE table[c]
    BY <1>3 DEF Deallocate, UUIDInv, UUIDTypes
  <2>4. /\ work'[t].obj = o /\ UNCHANGED <<word, bytes>>
        /\ \A u \in Threads \ {t} : work'[u] = work[u]
    BY <1>3 DEF FinalizerEnds, Goto, Deallocate, UUIDInv, IInv, TypeOK
  <2> QED
    BY <2>1, <2>2, <2>3, <2>4, NoneAssumption DEF UUIDInv, TableIsFresh
<1>4. ASSUME NEW t \in Threads, Hammer(t), UNCHANGED <<table, bytes>>
      PROVE  UUIDTypes' /\ TableIsFresh'
  <2> SUFFICES ASSUME NEW o, o = work[t].obj
               PROVE  UUIDTypes' /\ TableIsFresh'
    OBVIOUS
  <2>1. \A c \in Bytes : table[c] # o
    BY <1>4, HoldsOne DEF Hammer, UUIDInv, TableIsFresh, Releasing
  <2>2. \A p \in Objects \ {o} : word'[p] = word[p]
    BY <1>4 DEF Hammer, UUIDInv, IInv, TypeOK
  <2>3. /\ work'[t] = Idle
        /\ \A u \in Threads \ {t} : work'[u] = work[u]
    BY <1>4 DEF Hammer, UUIDInv, IInv, TypeOK
  <2> QED
    BY <1>4, <2>1, <2>2, <2>3 DEF UUIDInv, UUIDTypes, TableIsFresh, Idle
<1>5. ASSUME NEW t \in Threads, NEW b, Goto(t, b), Releasing(t),
             UNCHANGED <<table, bytes>>,
             b \in {"finalized", "hammer", "revive"} =>
               work[t].at \in {"finalized", "hammer", "revive"},
             \A o \in Objects : word'[o].bits \in {"clear", "deallocating"}
                                \/ word'[o].bits = word[o].bits
      PROVE  UUIDTypes' /\ TableIsFresh'
  <2>1. /\ work'[t].obj = work[t].obj /\ work'[t].at = b
        /\ \A u \in Threads \ {t} : work'[u] = work[u]
    BY <1>5 DEF Goto, UUIDInv, IInv, TypeOK
  <2> QED
    BY <1>5, <2>1 DEF UUIDInv, UUIDTypes, TableIsFresh
<1>6. ASSUME NEW t \in Threads,
             StartFinalizing(t) \/ Reread(t) \/ Revive(t),
             UNCHANGED <<table, bytes>>
      PROVE  UUIDTypes' /\ TableIsFresh'
  <2>1. Releasing(t)
    BY <1>6 DEF StartFinalizing, Reread, Revive, Releasing
  <2>2. \A o \in Objects : word'[o].bits \in {"clear", "deallocating"}
                           \/ word'[o].bits = word[o].bits
    BY <1>6, <2>1, HoldsOne
    DEF StartFinalizing, Reread, Revive, SetBits, UUIDInv, IInv, TypeOK
  <2> QED
    BY <1>5, <1>6, <2>1, <2>2 DEF StartFinalizing, Reread, Revive
<1>7. ASSUME NEW t \in Threads, UNCHANGED <<table, bytes>>,
             \A o \in Objects : word'[o].bits = word[o].bits,
             \A u \in Threads : work'[u] = work[u]
                                \/ work'[u].at \in {"idle", "release"}
      PROVE  UUIDTypes' /\ TableIsFresh'
  BY <1>7 DEF UUIDInv, UUIDTypes, TableIsFresh
<1>8. ASSUME NEW t \in Threads, UNCHANGED <<table, bytes>>,
             \/ Decrement(t)
             \/ \E o \in Objects, r \in Refs :
                  Increment(t, o, r) \/ Release(t, o, r)
      PROVE  UUIDTypes' /\ TableIsFresh'
  <2>1. \A o \in Objects : word'[o].bits = word[o].bits
    BY <1>8 DEF Decrement, Increment, Release, UUIDInv, IInv, TypeOK
  <2>2. \A u \in Threads : work'[u] = work[u]
                           \/ work'[u].at \in {"idle", "release"}
    BY <1>8 DEF Decrement, Increment, Release, UUIDInv, IInv, TypeOK, Idle
  <2> QED
    BY <1>7, <1>8, <2>1, <2>2
<1>9. ASSUME NEW t \in Threads, Counting(t)
      PROVE  UUIDTypes' /\ TableIsFresh'
  BY <1>4, <1>6, <1>8, <1>9 DEF Counting, Retain, TryRetain
<1>10. ASSUME NEW t \in Threads, NEW b \in Bytes, NEW r \in Refs,
              FindWithBytes(t, b, r)
       PROVE  UUIDTypes' /\ TableIsFresh'
  BY <1>8, <1>10, FindsInTime DEF FindWithBytes, RetainFound
<1>11. ASSUME NEW t \in Threads, NEW b \in Bytes, FindConstant(t, b)
       PROVE  UUIDTypes' /\ TableIsFresh'
  BY <1>11 DEF FindConstant, UUIDInv, UUIDTypes, TableIsFresh
<1> QED
  BY <1>1, <1>2, <1>3, <1>9, <1>10, <1>11
  DEF UUIDNext, Deallocate, CreateWithBytes, CreateConstant

LEMMA UUIDInvariant == UUIDSpec => []UUIDInv
<1>1. UUIDInit => UUIDInv
  BY InitHolds, NoneAssumption
  DEF UUIDInit, UUIDInv, UUIDTypes, TableIsFresh
<1>2. UUIDInv /\ [UUIDNext]_uuidVars => UUIDInv'
  BY StepImplements, NextStep, TableStep DEF UUIDInv
<1> QED
  BY <1>1, <1>2, PTL DEF UUIDSpec

\* UUIDs.FoundInTime: the table's lookups retain only objects that may be
\* retained, so that all that is proved of RefCount holds with the table.
THEOREM TableImplements == UUIDSpec => FoundInTime
<1>1. UUIDInit => Init
  BY DEF UUIDInit
<1>2. UUIDInv /\ [UUIDNext]_uuidVars => [Next]_vars
  BY StepImplements
<1> QED
  BY <1>1, <1>2, UUIDInvariant, PTL DEF UUIDSpec, Spec, FoundInTime

\* UUIDs.TableIsFresh: no entry leads to a freed object.
THEOREM TableAlwaysFresh == UUIDSpec => []TableIsFresh
<1>1. UUIDInv => TableIsFresh
  BY DEF UUIDInv
<1> QED
  BY <1>1, UUIDInvariant, PTL

-----------------------------------------------------------------------------
(* The table of callbacks.                                                  *)

\* The calls that may still take an entry.
Past == {c \in Callers : SearchAt(c, "increment")}

\* Every one of them has room.
Room == ptrsCount + Cardinality(Past) <= Limit + Cardinality(Callers)

\* An entry that is taken is its taker's alone, counted, and still NULL.
Taken ==
  /\ \A entry \in given : entry[2] < ptrsCount
  /\ \A c \in Callers : SearchAt(c, "write") =>
       /\ search[c].idx \in 1 .. ptrsCount - 1
       /\ ptrs[search[c].idx] = Null
       /\ \A entry \in given : entry[2] # search[c].idx
       /\ \A d \in Callers \ {c} :
            SearchAt(d, "write") => search[d].idx # search[c].idx

\* NULL is found in the first entry, so that nobody finds it in one that is
\* about to be written.
NullIsFirst ==
  /\ ptrsCount > 0 /\ ptrs[0] = Null
  /\ \A i \in DOMAIN ptrs : i >= ptrsCount => ptrs[i] = Null
  /\ \A c \in Callers : search[c].ptr = Null =>
       search[c].idx = 0 /\ (SearchAt(c, "look") \/ SearchAt(c, "out"))

PtrsInv == PtrsTypeOK /\ Room /\ Taken /\ NullIsFirst /\ LeadsToPtr

LEMMA PastFinite == \A S \in SUBSET Callers :
  IsFiniteSet(S) /\ Cardinality(S) \in Nat
                 /\ Cardinality(S) <= Cardinality(Callers)
BY FS_Subset, FS_CardinalityType, CallBackPtrsAssumption

LEMMA PtrsInitInv == PtrsInit => PtrsInv
<1> SUFFICES ASSUME PtrsInit PROVE PtrsInv
  OBVIOUS
<1> USE DEF PtrsInit
<1>1. PtrsTypeOK
  BY CallBackPtrsAssumption DEF PtrsTypeOK, Search, Out
<1>2. Past = {}
  BY DEF Past, SearchAt, Out
<1>3. Cardinality(Past) = 0
  BY <1>2, FS_EmptySet
<1>4. Room
  BY <1>3, PastFinite, CallBackPtrsAssumption, FS_CardinalityType DEF Room
<1>5. Taken /\ NullIsFirst /\ LeadsToPtr
  BY CallBackPtrsAssumption, FS_CardinalityType
     DEF Taken, NullIsFirst, SearchAt, Out, LeadsToPtr
<1> QED
  BY <1>1, <1>4, <1>5 DEF PtrsInv

\* A step that takes no entry and leaves nobody past the check whom it has not
\* found there keeps the room.
LEMMA RoomKept ==
  ASSUME Room, PtrsTypeOK, ptrsCount' = ptrsCount, Past' \subseteq Past
  PROVE  Room'
<1>1. Past \subseteq Callers
  BY DEF Past
<1>2. Cardinality(Past') <= Cardinality(Past)
  BY <1>1, PastFinite, FS_Subset
<1>3. Cardinality(Past') \in Nat /\ Cardinality(Past) \in Nat
      /\ Cardinality(Callers) \in Nat
  BY <1>1, PastFinite, FS_Subset
<1> QED
  BY <1>2, <1>3, CallBackPtrsAssumption DEF Room, PtrsTypeOK

LEMMA CallKeeps ==
  ASSUME PtrsInv, NEW c \in Callers, NEW p \in Callbacks, CallGetPtrIndex(c, p)
  PROVE  PtrsInv'
<1> USE DEF PtrsInv, CallGetPtrIndex, PtrsTypeOK, Search, SearchAt
<1>1. PtrsTypeOK'
  OBVIOUS
<1>2. Past' \subseteq Past
  BY DEF Past
<1>3. Room'
  BY <1>2, RoomKept
<1>4. Taken' /\ NullIsFirst' /\ LeadsToPtr'
  BY DEF Taken, NullIsFirst, LeadsToPtr
<1> QED
  BY <1>1, <1>3, <1>4

LEMMA LookKeeps ==
  ASSUME PtrsInv, NEW c \in Callers, Look(c)
  PROVE  PtrsInv'
<1> USE DEF PtrsInv, PtrsTypeOK, Search, SearchAt
<1>1. /\ UNCHANGED <<ptrs, ptrsCount>>
      /\ \E s \in Search : /\ search' = [search EXCEPT ![c] = s]
                           /\ s.at \notin {"increment", "write"}
      /\ \/ given' = given
         \/ /\ given' = given \cup {<<search[c].ptr, search[c].idx>>}
            /\ search[c].idx < ptrsCount
            /\ ptrs[search[c].idx] = search[c].ptr
  <2>1. CASE search[c].idx >= ptrsCount /\ Proceed(c, "check") /\ UNCHANGED given
    <3>1. [search[c] EXCEPT !.at = "check"] \in Search
      OBVIOUS
    <3> QED
      BY <2>1, <3>1 DEF Look, Proceed
  <2>2. CASE /\ search[c].idx < ptrsCount /\ ptrs[search[c].idx] = search[c].ptr
             /\ Answer(c)
    <3>1. Out \in Search /\ Out.at = "out"
      BY CallBackPtrsAssumption DEF Out
    <3> QED
      BY <2>2, <3>1 DEF Look, Answer
  <2>3. CASE search' = [search EXCEPT ![c].idx = @ + 1] /\ UNCHANGED given
    <3>1. /\ [search[c] EXCEPT !.idx = @ + 1] \in Search
          /\ [search[c] EXCEPT !.idx = @ + 1].at = "look"
      BY DEF Look
    <3> QED
      BY <2>3, <3>1 DEF Look
  <2> QED
    BY <2>1, <2>2, <2>3 DEF Look
<1>2. PtrsTypeOK'
  BY <1>1
<1>3. Past' \subseteq Past
  BY <1>1 DEF Past
<1>4. Room'
  BY <1>1, <1>3, RoomKept
<1>5. \A d \in Callers : search'[d].at = "write" => search'[d] = search[d]
  BY <1>1
<1>6. LeadsToPtr'
  BY <1>1 DEF LeadsToPtr
<1>7. NullIsFirst'
  <2>1. \A d \in Callers \ {c} : search'[d] = search[d]
    BY <1>1
  <2>2. search'[c].ptr = Null =>
          /\ search'[c].idx = 0
          /\ search'[c].at \in {"look", "out"}
    <3>1. CASE Answer(c)
      BY <3>1 DEF Answer, Out
    <3>2. CASE ~Answer(c)
      <4>1. search[c].ptr = Null => search[c].idx < ptrsCount
                                    /\ ptrs[search[c].idx] = search[c].ptr
        BY DEF NullIsFirst
      <4> QED
        BY <3>2, <4>1 DEF Look, Proceed
    <3> QED
      BY <3>1, <3>2
  <2> QED
    BY <1>1, <2>1, <2>2 DEF NullIsFirst
<1>8. Taken'
  <2>1. given' # given => \A d \in Callers : search[d].at = "write" =>
          search[d].idx # search[c].idx
    <3> SUFFICES ASSUME given' # given, NEW d \in Callers, search[d].at = "write",
                        search[d].idx = search[c].idx
                 PROVE  FALSE
      OBVIOUS
    <3>1. ptrs[search[c].idx] = search[c].ptr
      BY <1>1
    <3>2. search[c].ptr = Null /\ search[c].idx # 0
      BY <3>1 DEF Taken
    <3> QED
      BY <3>2 DEF NullIsFirst
  <2>2. \A entry \in given' : entry[2] < ptrsCount
    BY <1>1 DEF Taken
  <2>3. \A d \in Callers : search'[d].at = "write" =>
          \A entry \in given' : entry[2] # search[d].idx
    BY <1>1, <1>5, <2>1 DEF Taken
  <2> QED
    BY <1>1, <1>5, <2>2, <2>3 DEF Taken
<1> QED
  BY <1>2, <1>4, <1>6, <1>7, <1>8

LEMMA CheckKeeps ==
  ASSUME PtrsInv, NEW c \in Callers, Check(c)
  PROVE  PtrsInv'
<1> USE DEF PtrsInv, PtrsTypeOK, Search, SearchAt
<1>1. /\ UNCHANGED <<ptrs, ptrsCount, given>>
      /\ SearchAt(c, "check")
      /\ \/ search' = [search EXCEPT ![c] = Out]
         \/ /\ ptrsCount <= Limit
            /\ search' = [search EXCEPT ![c].at = "increment"]
  BY CallBackPtrsAssumption DEF Check, Proceed
<1>2. PtrsTypeOK'
  <2>1. Out \in Search
    BY CallBackPtrsAssumption DEF Out
  <2>2. [search[c] EXCEPT !.at = "increment"] \in Search
    OBVIOUS
  <2> QED
    BY <1>1, <2>1, <2>2
<1>3. Taken' /\ NullIsFirst' /\ LeadsToPtr'
  <2>1. Out.at = "out" /\ Out.idx = 0
    BY DEF Out
  <2>2. \A d \in Callers : search'[d].at = "write" => search'[d] = search[d]
    BY <1>1, <2>1
  <2>3. Taken'
    BY <1>1, <2>2 DEF Taken
  <2>4. NullIsFirst'
    BY <1>1, <2>1 DEF NullIsFirst
  <2> QED
    BY <1>1, <2>3, <2>4 DEF LeadsToPtr
<1>4. Room'
  <2>1. CASE search' = [search EXCEPT ![c] = Out]
    <3>1. Past' \subseteq Past
      BY <2>1 DEF Past, Out
    <3> QED
      BY <1>1, <3>1, RoomKept
  <2>2. CASE ptrsCount <= Limit
    <3>1. Past' \subseteq Callers
      BY DEF Past
    <3>2. Cardinality(Past') <= Cardinality(Callers) /\ Cardinality(Past') \in Nat
          /\ Cardinality(Callers) \in Nat
      BY <3>1, PastFinite, CallBackPtrsAssumption, FS_CardinalityType
    <3> QED
      BY <1>1, <2>2, <3>2, CallBackPtrsAssumption DEF Room
  <2> QED
    BY <1>1, <2>1, <2>2
<1> QED
  BY <1>2, <1>3, <1>4

LEMMA IncrementKeeps ==
  ASSUME PtrsInv, NEW c \in Callers, Increment32(c)
  PROVE  PtrsInv'
<1> USE DEF PtrsInv, PtrsTypeOK, Search, SearchAt
<1>1. /\ UNCHANGED <<ptrs, given>> /\ ptrsCount' = ptrsCount + 1
      /\ search[c].at = "increment"
      /\ search' = [search EXCEPT ![c] = [search[c] EXCEPT !.at = "write",
                                                          !.idx = ptrsCount]]
  BY DEF Increment32
<1>2. PtrsTypeOK'
  <2>1. [search[c] EXCEPT !.at = "write", !.idx = ptrsCount] \in Search
    OBVIOUS
  <2> QED
    BY <1>1, <2>1
<1>3. Past' = Past \ {c} /\ c \in Past /\ Past \subseteq Callers
  BY <1>1 DEF Past
<1>4. /\ Cardinality(Past') = Cardinality(Past) - 1
      /\ Cardinality(Past) \in Nat /\ Cardinality(Callers) \in Nat
  BY <1>3, PastFinite, FS_RemoveElement, CallBackPtrsAssumption, FS_CardinalityType
<1>5. Room'
  BY <1>1, <1>4, CallBackPtrsAssumption DEF Room
<1>6. ptrsCount \in DOMAIN ptrs
  <2>1. Cardinality(Past) > 0
    BY <1>3, PastFinite, FS_EmptySet
  <2> QED
    BY <1>4, <2>1, CallBackPtrsAssumption DEF Room
<1>7. NullIsFirst'
  BY <1>1 DEF NullIsFirst
<1>8. Taken'
  BY <1>1, <1>6 DEF Taken, NullIsFirst
<1>9. LeadsToPtr'
  BY <1>1 DEF LeadsToPtr
<1> QED
  BY <1>2, <1>5, <1>7, <1>8, <1>9

LEMMA WriteKeeps ==
  ASSUME PtrsInv, NEW c \in Callers, WritePtr(c)
  PROVE  PtrsInv'
<1> USE DEF PtrsInv, PtrsTypeOK, Search, SearchAt
<1>1. /\ search[c].at = "write" /\ ptrsCount' = ptrsCount
      /\ ptrs' = [ptrs EXCEPT ![search[c].idx] = search[c].ptr]
      /\ search' = [search EXCEPT ![c] = Out]
      /\ given' = given \cup {<<search[c].ptr, search[c].idx>>}
  BY DEF WritePtr, Answer
<1>2. PtrsTypeOK'
  <2>1. Out \in Search
    BY CallBackPtrsAssumption DEF Out
  <2>2. <<search[c].ptr, search[c].idx>> \in Callbacks \X Nat
    OBVIOUS
  <2>3. ptrs' \in [0 .. Size - 1 -> Callbacks]
    BY <1>1
  <2>4. search' \in [Callers -> Search]
    BY <1>1, <2>1
  <2>5. given' \subseteq Callbacks \X Nat
    BY <1>1, <2>2
  <2> QED
    BY <1>1, <2>3, <2>4, <2>5
<1>3. Past' \subseteq Past
  BY <1>1 DEF Past, Out
<1>4. Room'
  BY <1>1, <1>3, RoomKept
<1>5. search[c].idx \in 1 .. ptrsCount - 1
  BY <1>1 DEF Taken
<1>6. NullIsFirst'
  BY <1>1, <1>5 DEF NullIsFirst, Out
<1>7. Taken'
  BY <1>1, <1>5 DEF Taken, Out
<1>8. LeadsToPtr'
  BY <1>1 DEF LeadsToPtr, Taken
<1> QED
  BY <1>2, <1>4, <1>6, <1>7, <1>8

LEMMA PtrsStep == PtrsInv /\ [PtrsNext]_ptrsVars => PtrsInv'
<1>1. ASSUME PtrsInv, UNCHANGED ptrsVars PROVE PtrsInv'
  BY <1>1 DEF PtrsInv, PtrsTypeOK, Room, Past, Taken, NullIsFirst, LeadsToPtr,
              SearchAt, ptrsVars
<1> QED
  BY <1>1, CallKeeps, LookKeeps, CheckKeeps, IncrementKeeps, WriteKeeps
     DEF PtrsNext

LEMMA PtrsAlwaysInv == PtrsSpec => []PtrsInv
  BY PtrsInitInv, PtrsStep, PTL DEF PtrsSpec

\* CFBasicHashGetPtrIndex: the room behind the limit is enough as long as it is
\* for one entry of each thread.
LEMMA InvIndexInTable == PtrsInv => IndexInTable
<1> SUFFICES ASSUME PtrsInv PROVE IndexInTable
  OBVIOUS
<1>1. Cardinality(Past) \in Nat /\ Cardinality(Callers) \in Nat
  BY PastFinite, CallBackPtrsAssumption, FS_CardinalityType DEF Past
<1> QED
  BY <1>1, CallBackPtrsAssumption
     DEF PtrsInv, PtrsTypeOK, Room, Taken, IndexInTable

\* CFBasicHashGetPtrIndex: no index lies outside the table, and no thread
\* overwrites the entry that another has been given, however many enter
\* callbacks at once.
THEOREM IndexesLeadToPtrs == PtrsSpec => []IndexLeadsToPtr
<1>1. PtrsInv => IndexLeadsToPtr
  BY InvIndexInTable DEF PtrsInv, IndexLeadsToPtr
<1> QED
  BY <1>1, PtrsAlwaysInv, PTL

-----------------------------------------------------------------------------
(* The hash.  First numbers: least elements, induction over an interval.    *)

LEMMA LeastExists ==
  ASSUME NEW S \in SUBSET Nat, S # {}
  PROVE  LeastOf(S) \in S /\ \A j \in S : LeastOf(S) <= j
<1>1. PICK x \in S : \A y \in S : ~(<<y, x>> \in OpToRel(<, Nat))
  BY NatLessThanWellFounded, WFMin
<1>2. \A y \in S : ~(y < x)
  BY <1>1 DEF OpToRel
<1>3. \A y \in S : x <= y
  BY <1>2
<1> QED
  BY <1>3 DEF LeastOf

\* Induction from 0 up to n: what holds of 0, and of k + 1 if of k, holds of
\* all; the property is given as the set of the numbers that have it.
LEMMA UpTo ==
  ASSUME NEW n \in Nat, NEW S, 0 \in S,
         \A k \in 0 .. n - 1 : k \in S => k + 1 \in S
  PROVE  \A k \in 0 .. n : k \in S
<1> DEFINE Rest == {k \in 0 .. n : k \notin S}
<1>1. SUFFICES ASSUME Rest # {} PROVE FALSE
  OBVIOUS
<1>2. Rest \in SUBSET Nat
  OBVIOUS
<1>3. PICK k \in Rest : \A j \in Rest : k <= j
  BY <1>1, <1>2, LeastExists
<1>4. k \in 0 .. n /\ k \notin S /\ k # 0
  OBVIOUS
<1>5. k - 1 \in 0 .. n - 1
  BY <1>4
<1>6. k - 1 \notin Rest
  BY <1>3, <1>4
<1>7. k - 1 \in S
  BY <1>5, <1>6
<1> QED
  BY <1>4, <1>5, <1>7

-----------------------------------------------------------------------------
(* Tables.                                                                  *)

Fields == {"idx", "used", "deleted", "width", "buckets", "counts", "fast", "counted"}
IsTable(t) == DOMAIN t = Fields /\ t = [field \in Fields |-> t[field]]

\* No key is in two buckets, every key is found on the way of its probes, and
\* counts are kept for what is there.
Distinct(t) == \A i, j \in Occupied(t) :
  KeyOf[t.buckets[i]] = KeyOf[t.buckets[j]] => i = j

Reached(t) == \A k \in Keys, n \in Indexes(t) :
  Holds(t, Probe(t, k, n), k) =>
    \A m \in 0 .. n - 1 : t.buckets[Probe(t, k, m)] # Empty

CountsKept(t) == t.counted =>
  \A i \in Indexes(t) : IF i \in Occupied(t) THEN t.counts[i] > 0
                                             ELSE t.counts[i] = 0

Stored(t) ==
  /\ t.idx \in 0 .. LastIndex
  /\ t.buckets \in [Indexes(t) -> Contents]
  /\ t.counts \in [Indexes(t) -> Nat]

Layout(t) == Stored(t) /\ Distinct(t) /\ Reached(t) /\ CountsKept(t)

LEMMA Sizes ==
  ASSUME NEW t, t.idx \in 0 .. LastIndex
  PROVE  /\ NumBuckets(t) \in Nat /\ Capacity(t) \in Nat
         /\ Capacity(t) <= NumBuckets(t)
         /\ \A n \in Indexes(t) : n \in Nat /\ n < NumBuckets(t)
BY HashAssumption DEF NumBuckets, Capacity, Indexes

\* The probes for a key visit every bucket once.
LEMMA ProbesVisitAll ==
  ASSUME NEW t, t.idx \in 0 .. LastIndex, NEW k \in Keys
  PROVE  /\ \A n \in Indexes(t) : Probe(t, k, n) \in Indexes(t)
         /\ \A n, m \in Indexes(t) : Probe(t, k, n) = Probe(t, k, m) => n = m
         /\ \A i \in Indexes(t) : \E n \in Indexes(t) : Probe(t, k, n) = i
<1> DEFINE N == NumBuckets(t)
           h == HashCode[k] % N
           P(n) == IF h + n < N THEN h + n ELSE (h + n) - N
<1>1. N \in Nat
  BY Sizes
<1>2. CASE N = 0
  BY <1>2 DEF Indexes
<1>3. CASE N # 0
  <2>1. HashCode[k] \in Nat
    BY HashAssumption
  <2>2. h \in 0 .. N - 1
    BY <1>1, <1>3, <2>1
  <2>3. \A n : Probe(t, k, n) = P(n)
    BY DEF Probe
  <2>4. Indexes(t) = 0 .. N - 1
    BY DEF Indexes
  <2> HIDE DEF N, h
  <2>5. \A n \in 0 .. N - 1 : P(n) \in 0 .. N - 1
    BY <1>1, <2>2
  <2>6. \A n, m \in 0 .. N - 1 : P(n) = P(m) => n = m
    BY <1>1, <2>2
  <2>7. ASSUME NEW i \in 0 .. N - 1 PROVE \E n \in 0 .. N - 1 : P(n) = i
    <3>1. CASE i >= h
      <4>1. i - h \in 0 .. N - 1 /\ P(i - h) = i
        BY <1>1, <2>2, <3>1
      <4> QED
        BY <4>1
    <3>2. CASE i < h
      <4>1. (i - h) + N \in 0 .. N - 1 /\ P((i - h) + N) = i
        BY <1>1, <2>2, <3>2
      <4> QED
        BY <4>1
    <3> QED
      BY <1>1, <2>2, <3>1, <3>2
  <2> HIDE DEF P
  <2> QED
    BY <2>3, <2>4, <2>5, <2>6, <2>7
<1> QED
  BY <1>2, <1>3

LEMMA EarlierProbes ==
  ASSUME NEW t, t.idx \in 0 .. LastIndex, NEW k \in Keys, NEW n \in Indexes(t),
         NEW m \in 0 .. n - 1
  PROVE  /\ m \in Indexes(t) /\ m < n /\ n \in Nat
         /\ Probe(t, k, m) \in Indexes(t) /\ Probe(t, k, n) \in Indexes(t)
<1>1. m \in Indexes(t) /\ m < n /\ n \in Nat
  BY Sizes DEF Indexes
<1> QED
  BY <1>1, ProbesVisitAll

-----------------------------------------------------------------------------
(* Searching.                                                               *)

LEMMA Found ==
  ASSUME NEW t, Layout(t), NEW i \in Indexes(t), NEW k \in Keys, Holds(t, i, k)
  PROVE  FindBucket(t, k) = [idx |-> i, count |-> SlotCount(t, i)]
<1> DEFINE ends == {n \in Indexes(t) : \/ t.buckets[Probe(t, k, n)] = Empty
                                       \/ Holds(t, Probe(t, k, n), k)}
<1>1. t.idx \in 0 .. LastIndex /\ \A n \in Indexes(t) : n \in Nat
  BY Sizes DEF Layout, Stored
<1>2. PICK n \in Indexes(t) : Probe(t, k, n) = i
  BY <1>1, ProbesVisitAll
<1>3. n \in ends /\ ends \in SUBSET Nat
  BY <1>1, <1>2
<1> DEFINE m == LeastOf(ends)
<1>4. m \in ends /\ \A j \in ends : m <= j
  <2> HIDE DEF ends
  <2> QED
    BY <1>3, LeastExists
<1> HIDE DEF m
<1>5. m \in Indexes(t) /\ m <= n
  BY <1>3, <1>4
<1>6. m = n
  <2>1. SUFFICES ASSUME m < n PROVE FALSE
    BY <1>1, <1>5
  <2>2. m \in 0 .. n - 1
    BY <1>1, <1>5, <2>1
  <2>3. t.buckets[Probe(t, k, m)] # Empty
    BY <1>2, <2>2 DEF Layout, Reached
  <2>4. Holds(t, Probe(t, k, m), k)
    BY <1>4, <2>3
  <2>5. Probe(t, k, m) \in Indexes(t)
    BY <1>1, <1>5, ProbesVisitAll
  <2>6. Probe(t, k, m) = i
    BY <2>4, <2>5 DEF Layout, Distinct, Occupied, Holds
  <2> QED
    BY <1>1, <1>2, <1>5, <2>1, <2>6, ProbesVisitAll
<1>7. ends # {} /\ Holds(t, Probe(t, k, LeastOf(ends)), k)
      /\ Probe(t, k, LeastOf(ends)) = i
  BY <1>2, <1>4, <1>6 DEF m
<1> QED
  BY <1>7 DEF FindBucket

\* Absent(t, k): no bucket holds the key.
Absent(t, k) == \A i \in Occupied(t) : KeyOf[t.buckets[i]] # k

\* A place for a key: a bucket without an entry, no empty one before it.
IsPlace(t, k, i) ==
  /\ i \in Indexes(t) /\ t.buckets[i] \in {Empty, Deleted}
  /\ \A n \in Indexes(t) : Probe(t, k, n) = i =>
       \A m \in 0 .. n - 1 : t.buckets[Probe(t, k, m)] # Empty

LEMMA PlaceFound ==
  ASSUME NEW t, Layout(t), NEW k \in Keys, Absent(t, k)
  PROVE  LET b == FindBucket(t, k) IN
         /\ b.count = 0
         /\ \/ IsPlace(t, k, b.idx)
            \/ b.idx = NotFound /\ Occupied(t) = Indexes(t)
<1> DEFINE ends == {n \in Indexes(t) : \/ t.buckets[Probe(t, k, n)] = Empty
                                       \/ Holds(t, Probe(t, k, n), k)}
           marks == {n \in Indexes(t) : /\ t.buckets[Probe(t, k, n)] = Deleted
                                        /\ \A m \in ends : n < m}
           all == marks \cup ends
<1>1. t.idx \in 0 .. LastIndex /\ \A n \in Indexes(t) : n \in Nat
  BY Sizes DEF Layout, Stored
<1>2. \A n \in Indexes(t) : Probe(t, k, n) \in Indexes(t)
  BY <1>1, ProbesVisitAll
<1>3. \A n \in Indexes(t) : ~Holds(t, Probe(t, k, n), k)
  BY <1>2 DEF Absent, Holds, Occupied
<1>4. \A n \in ends : t.buckets[Probe(t, k, n)] = Empty
  BY <1>3
<1>5. ends \in SUBSET Nat /\ all \in SUBSET Nat
  BY <1>1
<1>6. ~(ends # {} /\ Holds(t, Probe(t, k, LeastOf(ends)), k))
  <2> SUFFICES ASSUME ends # {} PROVE ~Holds(t, Probe(t, k, LeastOf(ends)), k)
    OBVIOUS
  <2>1. LeastOf(ends) \in ends
    <3> HIDE DEF ends
    <3> QED
      BY <1>5, LeastExists
  <2> QED
    BY <1>3, <2>1
<1>7. FindBucket(t, k) = [idx |-> IF all = {} THEN NotFound
                                  ELSE Probe(t, k, LeastOf(all)),
                          count |-> 0]
  BY <1>6 DEF FindBucket
<1>8. CASE all = {}
  <2>1. Occupied(t) = Indexes(t)
    <3> SUFFICES ASSUME NEW i \in Indexes(t) PROVE t.buckets[i] \in Entries
      BY DEF Occupied
    <3>1. PICK n \in Indexes(t) : Probe(t, k, n) = i
      BY <1>1, ProbesVisitAll
    <3>2. t.buckets[i] # Empty
      BY <1>8, <3>1
    <3>3. t.buckets[i] # Deleted
      BY <1>8, <3>1
    <3> QED
      BY <3>2, <3>3 DEF Layout, Stored, Contents
  <2> QED
    BY <1>7, <1>8, <2>1
<1>9. CASE all # {}
  <2> DEFINE n == LeastOf(all)
             i == Probe(t, k, n)
  <2>1. n \in all /\ \A j \in all : n <= j
    <3> HIDE DEF all
    <3> QED
      BY <1>5, <1>9, LeastExists
  <2> HIDE DEF n
  <2>2. n \in Indexes(t) /\ i \in Indexes(t)
    BY <1>2, <2>1
  <2>3. t.buckets[i] \in {Empty, Deleted}
    BY <1>4, <2>1
  <2>4. \A m \in 0 .. n - 1 : t.buckets[Probe(t, k, m)] # Empty
    <3> SUFFICES ASSUME NEW m \in 0 .. n - 1, t.buckets[Probe(t, k, m)] = Empty
                 PROVE  FALSE
      OBVIOUS
    <3>1. m \in Indexes(t) /\ m < n /\ n \in Nat
      BY <1>1, <2>2, EarlierProbes
    <3>2. m \in all
      BY <3>1
    <3> QED
      BY <2>1, <3>1, <3>2
  <2>5. \A j \in Indexes(t) : Probe(t, k, j) = i => j = n
    BY <1>1, <2>2, ProbesVisitAll
  <2>6. IsPlace(t, k, i)
    BY <2>2, <2>3, <2>4, <2>5 DEF IsPlace
  <2>7. FindBucket(t, k) = [idx |-> i, count |-> 0]
    BY <1>7, <1>9 DEF n
  <2> QED
    BY <2>6, <2>7
<1> QED
  BY <1>8, <1>9

LEMMA EmptyFound ==
  ASSUME NEW t, Layout(t), NEW k \in Keys,
         \E i \in Indexes(t) : t.buckets[i] = Empty
  PROVE  IsPlace(t, k, FindEmpty(t, k)) /\ t.buckets[FindEmpty(t, k)] = Empty
<1> DEFINE S == {n \in Indexes(t) : t.buckets[Probe(t, k, n)] = Empty}
           n == LeastOf(S)
           i == Probe(t, k, n)
<1>1. t.idx \in 0 .. LastIndex /\ \A j \in Indexes(t) : j \in Nat
  BY Sizes DEF Layout, Stored
<1>2. S \in SUBSET Nat /\ S # {}
  BY <1>1, ProbesVisitAll
<1>3. n \in S /\ \A j \in S : n <= j
  <2> HIDE DEF S
  <2> QED
    BY <1>2, LeastExists
<1> HIDE DEF n
<1>4. n \in Indexes(t) /\ i \in Indexes(t) /\ t.buckets[i] = Empty
  BY <1>1, <1>3, ProbesVisitAll
<1>5. \A m \in 0 .. n - 1 : t.buckets[Probe(t, k, m)] # Empty
  <2> SUFFICES ASSUME NEW m \in 0 .. n - 1, t.buckets[Probe(t, k, m)] = Empty
               PROVE  FALSE
    OBVIOUS
  <2>1. m \in Indexes(t) /\ m < n /\ n \in Nat
    BY <1>1, <1>4, EarlierProbes
  <2> QED
    BY <1>3, <2>1
<1>6. \A j \in Indexes(t) : Probe(t, k, j) = i => j = n
  BY <1>1, <1>4, ProbesVisitAll
<1>7. IsPlace(t, k, i) /\ t.buckets[i] = Empty
  BY <1>4, <1>5, <1>6 DEF IsPlace
<1> QED
  BY <1>7 DEF FindEmpty, n

-----------------------------------------------------------------------------
(* Changing one bucket.                                                     *)

\* What the table holds, and how often.
Holdings(t) == {<<t.buckets[i], SlotCount(t, i)>> : i \in Occupied(t)}
Others(t, i) == {<<t.buckets[j], SlotCount(t, j)>> : j \in Occupied(t) \ {i}}
With(H, e, count) == H \cup {<<e, count>>}

\* u is t with bucket i filled anew.
IsPut(t, u, i, x, c) ==
  /\ u.idx = t.idx /\ u.counted = t.counted
  /\ u.buckets = [t.buckets EXCEPT ![i] = x]
  /\ u.counts = [t.counts EXCEPT ![i] = c]

LEMMA EntriesAreContents ==
  /\ \A e \in Entries : e \in Contents /\ e # Empty /\ e # Deleted /\ KeyOf[e] \in Keys
  /\ Empty \in Contents /\ Deleted \in Contents /\ Empty # Deleted
  /\ Empty \notin Entries /\ Deleted \notin Entries
BY HashAssumption DEF Contents, Keys

LEMMA SameProbes ==
  ASSUME NEW t, NEW u, u.idx = t.idx
  PROVE  /\ NumBuckets(u) = NumBuckets(t) /\ Indexes(u) = Indexes(t)
         /\ Capacity(u) = Capacity(t)
         /\ \A k, n : Probe(u, k, n) = Probe(t, k, n)
BY DEF NumBuckets, Indexes, Capacity, Probe

LEMMA PutStored ==
  ASSUME NEW t, Stored(t), NEW i \in Indexes(t), NEW x \in Contents,
         NEW c \in Nat, NEW u, IsPut(t, u, i, x, c)
  PROVE  /\ Stored(u) /\ Indexes(u) = Indexes(t)
         /\ \A j \in Indexes(t) : /\ u.buckets[j] = IF j = i THEN x ELSE t.buckets[j]
                                  /\ u.counts[j] = IF j = i THEN c ELSE t.counts[j]
         /\ \A k, n : Probe(u, k, n) = Probe(t, k, n)
<1>1. Indexes(u) = Indexes(t) /\ \A k, n : Probe(u, k, n) = Probe(t, k, n)
  BY SameProbes DEF IsPut
<1> QED
  BY <1>1 DEF Stored, IsPut

Filled(t, u, i, e, c) ==
  /\ Layout(u) /\ Indexes(u) = Indexes(t)
  /\ Occupied(u) = Occupied(t) \cup {i} /\ i \notin Occupied(t)
  /\ Marked(u) = Marked(t) \ {i}
  /\ Holdings(u) = With(Holdings(t), e, IF t.counted THEN c ELSE 1)

LEMMA Placed ==
  ASSUME NEW t, Layout(t), NEW e \in Entries, Absent(t, KeyOf[e]),
         NEW i, IsPlace(t, KeyOf[e], i), NEW c \in Nat, t.counted => c > 0,
         NEW u, IsPut(t, u, i, e, c)
  PROVE  Filled(t, u, i, e, c)
<1> USE EntriesAreContents
<1>1. Stored(t) /\ i \in Indexes(t) /\ t.buckets[i] \in {Empty, Deleted}
  BY DEF Layout, IsPlace
<1>2. /\ Stored(u) /\ Indexes(u) = Indexes(t)
      /\ \A j \in Indexes(t) : /\ u.buckets[j] = IF j = i THEN e ELSE t.buckets[j]
                               /\ u.counts[j] = IF j = i THEN c ELSE t.counts[j]
      /\ \A k, n : Probe(u, k, n) = Probe(t, k, n)
  BY <1>1, PutStored
<1>3. Occupied(u) = Occupied(t) \cup {i} /\ i \notin Occupied(t)
  BY <1>1, <1>2 DEF Occupied
<1>4. Marked(u) = Marked(t) \ {i}
  BY <1>1, <1>2 DEF Marked
<1>5. \A j \in Occupied(t) : j \in Indexes(t) /\ j # i /\ u.buckets[j] = t.buckets[j]
                             /\ u.counts[j] = t.counts[j]
  BY <1>2, <1>3 DEF Occupied
<1>6. u.buckets[i] = e /\ u.counts[i] = c
  BY <1>1, <1>2
<1>7. Distinct(u)
  <2> SUFFICES ASSUME NEW j \in Occupied(u), NEW l \in Occupied(u),
                      KeyOf[u.buckets[j]] = KeyOf[u.buckets[l]]
               PROVE  j = l
    BY DEF Distinct
  <2>1. CASE j = i /\ l # i
    BY <1>3, <1>5, <1>6, <2>1 DEF Absent
  <2>2. CASE j # i /\ l = i
    BY <1>3, <1>5, <1>6, <2>2 DEF Absent
  <2>3. CASE j # i /\ l # i
    BY <1>3, <1>5, <2>3 DEF Layout, Distinct
  <2> QED
    BY <2>1, <2>2, <2>3
<1>8. Reached(u)
  <2> SUFFICES ASSUME NEW k \in Keys, NEW n \in Indexes(t),
                      Holds(u, Probe(t, k, n), k), NEW m \in 0 .. n - 1
               PROVE  u.buckets[Probe(t, k, m)] # Empty
    BY <1>2 DEF Reached
  <2>1. Probe(t, k, n) \in Indexes(t) /\ Probe(t, k, m) \in Indexes(t)
    BY <1>1, EarlierProbes DEF Stored
  <2>2. t.buckets[Probe(t, k, m)] # Empty
    <3>1. CASE Probe(t, k, n) = i
      <4>1. k = KeyOf[e]
        BY <1>6, <3>1 DEF Holds
      <4> QED
        BY <3>1, <4>1 DEF IsPlace
    <3>2. CASE Probe(t, k, n) # i
      <4>1. Holds(t, Probe(t, k, n), k)
        BY <1>2, <2>1, <3>2 DEF Holds
      <4> QED
        BY <4>1 DEF Layout, Reached
    <3> QED
      BY <3>1, <3>2
  <2> QED
    BY <1>2, <2>1, <2>2
<1>9. CountsKept(u)
  BY <1>2, <1>3, <1>6 DEF CountsKept, Layout, IsPut
<1>10. Holdings(u) = With(Holdings(t), e, IF t.counted THEN c ELSE 1)
  <2>1. \A j \in Occupied(t) : SlotCount(u, j) = SlotCount(t, j)
    BY <1>5 DEF SlotCount, IsPut
  <2>2. SlotCount(u, i) = IF t.counted THEN c ELSE 1
    BY <1>6 DEF SlotCount, IsPut
  <2> QED
    BY <1>3, <1>5, <1>6, <2>1, <2>2 DEF Holdings, With
<1> QED
  BY <1>2, <1>3, <1>4, <1>7, <1>8, <1>9, <1>10 DEF Layout, Filled

LEMMA MarkedOff ==
  ASSUME NEW t, Layout(t), NEW i \in Occupied(t),
         NEW u, IsPut(t, u, i, Deleted, 0)
  PROVE  /\ Layout(u) /\ Indexes(u) = Indexes(t)
         /\ Occupied(u) = Occupied(t) \ {i}
         /\ Marked(u) = Marked(t) \cup {i} /\ i \notin Marked(t)
         /\ Holdings(u) = Others(t, i)
<1> USE EntriesAreContents
<1>1. Stored(t) /\ i \in Indexes(t) /\ t.buckets[i] \in Entries
  BY DEF Layout, Occupied
<1>2. /\ Stored(u) /\ Indexes(u) = Indexes(t)
      /\ \A j \in Indexes(t) : /\ u.buckets[j] = IF j = i THEN Deleted ELSE t.buckets[j]
                               /\ u.counts[j] = IF j = i THEN 0 ELSE t.counts[j]
      /\ \A k, n : Probe(u, k, n) = Probe(t, k, n)
  BY <1>1, PutStored
<1>3. Occupied(u) = Occupied(t) \ {i}
  BY <1>1, <1>2 DEF Occupied
<1>4. Marked(u) = Marked(t) \cup {i} /\ i \notin Marked(t)
  BY <1>1, <1>2 DEF Marked
<1>5. \A j \in Occupied(u) : j \in Indexes(t) /\ j # i /\ u.buckets[j] = t.buckets[j]
                             /\ u.counts[j] = t.counts[j]
  BY <1>2, <1>3 DEF Occupied
<1>6. Distinct(u)
  BY <1>3, <1>5 DEF Layout, Distinct
<1>7. Reached(u)
  <2> SUFFICES ASSUME NEW k \in Keys, NEW n \in Indexes(t),
                      Holds(u, Probe(t, k, n), k), NEW m \in 0 .. n - 1
               PROVE  u.buckets[Probe(t, k, m)] # Empty
    BY <1>2 DEF Reached
  <2>1. Probe(t, k, n) \in Indexes(t) /\ Probe(t, k, m) \in Indexes(t)
    BY <1>1, EarlierProbes DEF Stored
  <2>2. Holds(t, Probe(t, k, n), k)
    BY <1>2, <2>1 DEF Holds
  <2>3. t.buckets[Probe(t, k, m)] # Empty
    BY <2>2 DEF Layout, Reached
  <2> QED
    BY <1>2, <2>1, <2>3
<1>8. CountsKept(u)
  BY <1>2, <1>3 DEF CountsKept, Layout, IsPut
<1>9. Holdings(u) = Others(t, i)
  <2>1. \A j \in Occupied(u) : SlotCount(u, j) = SlotCount(t, j)
    BY <1>5 DEF SlotCount, IsPut
  <2> QED
    BY <1>3, <1>5, <2>1 DEF Holdings, Others
<1> QED
  BY <1>2, <1>3, <1>4, <1>6, <1>7, <1>8, <1>9 DEF Layout

\* An equal entry in the place of an entry, or another count of it.
LEMMA Exchanged ==
  ASSUME NEW t, Layout(t), NEW i \in Occupied(t), NEW e \in Entries,
         KeyOf[e] = KeyOf[t.buckets[i]], NEW c \in Nat, t.counted => c > 0,
         NEW u, IsPut(t, u, i, e, c)
  PROVE  /\ Layout(u) /\ Indexes(u) = Indexes(t)
         /\ Occupied(u) = Occupied(t) /\ Marked(u) = Marked(t)
         /\ Holdings(u) = With(Others(t, i), e, IF t.counted THEN c ELSE 1)
<1> USE EntriesAreContents
<1>1. Stored(t) /\ i \in Indexes(t) /\ t.buckets[i] \in Entries
  BY DEF Layout, Occupied
<1>2. /\ Stored(u) /\ Indexes(u) = Indexes(t)
      /\ \A j \in Indexes(t) : /\ u.buckets[j] = IF j = i THEN e ELSE t.buckets[j]
                               /\ u.counts[j] = IF j = i THEN c ELSE t.counts[j]
      /\ \A k, n : Probe(u, k, n) = Probe(t, k, n)
  BY <1>1, PutStored
<1>3. Occupied(u) = Occupied(t)
  BY <1>1, <1>2 DEF Occupied
<1>4. Marked(u) = Marked(t)
  BY <1>1, <1>2 DEF Marked
<1>5. \A j \in Occupied(t) \ {i} : j \in Indexes(t) /\ u.buckets[j] = t.buckets[j]
                             /\ u.counts[j] = t.counts[j]
  BY <1>2 DEF Occupied
<1>6. u.buckets[i] = e /\ u.counts[i] = c
  BY <1>1, <1>2
<1>7. \A j \in Occupied(t) : KeyOf[u.buckets[j]] = KeyOf[t.buckets[j]]
  BY <1>5, <1>6
<1>8. Distinct(u)
  BY <1>3, <1>7 DEF Layout, Distinct
<1>9. Reached(u)
  <2> SUFFICES ASSUME NEW k \in Keys, NEW n \in Indexes(t),
                      Holds(u, Probe(t, k, n), k), NEW m \in 0 .. n - 1
               PROVE  u.buckets[Probe(t, k, m)] # Empty
    BY <1>2 DEF Reached
  <2>1. Probe(t, k, n) \in Indexes(t) /\ Probe(t, k, m) \in Indexes(t)
    BY <1>1, EarlierProbes DEF Stored
  <2>2. Holds(t, Probe(t, k, n), k)
    BY <1>1, <1>2, <1>6, <2>1 DEF Holds
  <2>3. t.buckets[Probe(t, k, m)] # Empty
    BY <2>2 DEF Layout, Reached
  <2> QED
    BY <1>2, <2>1, <2>3
<1>10. CountsKept(u)
  BY <1>2, <1>3 DEF CountsKept, Layout, IsPut
<1>11. Holdings(u) = With(Others(t, i), e, IF t.counted THEN c ELSE 1)
  <2>1. \A j \in Occupied(t) \ {i} : SlotCount(u, j) = SlotCount(t, j)
    BY <1>5 DEF SlotCount, IsPut
  <2>2. SlotCount(u, i) = IF t.counted THEN c ELSE 1
    BY <1>6 DEF SlotCount, IsPut
  <2>3. Holdings(u) = {<<u.buckets[j], SlotCount(u, j)>> : j \in Occupied(t) \ {i}}
                        \cup {<<u.buckets[i], SlotCount(u, i)>>}
    BY <1>3 DEF Holdings
  <2> QED
    BY <1>5, <1>6, <2>1, <2>2, <2>3 DEF Others, With
<1> QED
  BY <1>2, <1>3, <1>4, <1>8, <1>9, <1>10, <1>11 DEF Layout

-----------------------------------------------------------------------------
(* Hashing anew.                                                            *)

LEMMA Finite ==
  ASSUME NEW t, Stored(t)
  PROVE  /\ IsFiniteSet(Occupied(t)) /\ IsFiniteSet(Marked(t))
         /\ Cardinality(Occupied(t)) \in Nat /\ Cardinality(Marked(t)) \in Nat
         /\ NumBuckets(t) \in Nat
         /\ Cardinality(Occupied(t)) <= NumBuckets(t)
         /\ Cardinality(Occupied(t)) = NumBuckets(t) => Occupied(t) = Indexes(t)
<1>1. NumBuckets(t) \in Nat
  BY Sizes DEF Stored
<1>2. IsFiniteSet(Indexes(t)) /\ Cardinality(Indexes(t)) = NumBuckets(t)
  <2>1. /\ IsFiniteSet(0 .. NumBuckets(t) - 1)
        /\ Cardinality(0 .. NumBuckets(t) - 1) =
             IF 0 > NumBuckets(t) - 1 THEN 0 ELSE (NumBuckets(t) - 1) - 0 + 1
    BY <1>1, FS_Interval
  <2> QED
    BY <1>1, <2>1 DEF Indexes
<1>3. Occupied(t) \in SUBSET Indexes(t) /\ Marked(t) \in SUBSET Indexes(t)
  BY DEF Occupied, Marked
<1>4. /\ IsFiniteSet(Occupied(t)) /\ Cardinality(Occupied(t)) <= NumBuckets(t)
      /\ Cardinality(Occupied(t)) = NumBuckets(t) => Occupied(t) = Indexes(t)
  BY <1>2, <1>3, FS_Subset
<1>5. IsFiniteSet(Marked(t))
  BY <1>2, <1>3, FS_Subset
<1> QED
  BY <1>1, <1>4, <1>5, FS_CardinalityType

LEMMA NotFull ==
  ASSUME NEW t, Stored(t), Cardinality(Occupied(t)) < NumBuckets(t)
  PROVE  Occupied(t) # Indexes(t)
<1> SUFFICES ASSUME Occupied(t) = Indexes(t) PROVE FALSE
  OBVIOUS
<1>1. NumBuckets(t) \in Nat
  BY Finite
<1>2. Cardinality(0 .. NumBuckets(t) - 1) =
        IF 0 > NumBuckets(t) - 1 THEN 0 ELSE (NumBuckets(t) - 1) - 0 + 1
  BY <1>1, FS_Interval
<1> QED
  BY <1>1, <1>2 DEF Indexes

LEMMA EmptyExists ==
  ASSUME NEW t, Stored(t), Marked(t) = {}, Cardinality(Occupied(t)) < NumBuckets(t)
  PROVE  \E i \in Indexes(t) : t.buckets[i] = Empty
<1>1. Occupied(t) # Indexes(t)
  BY NotFull
<1>2. PICK i \in Indexes(t) : t.buckets[i] \notin Entries
  BY <1>1 DEF Occupied
<1>3. t.buckets[i] # Deleted
  BY DEF Marked
<1> QED
  BY <1>2, <1>3 DEF Stored, Contents

LEMMA Numbers == \A idx \in 0 .. LastIndex : TableSizes[idx] \in Nat
BY HashAssumption

LEMMA BareTable ==
  ASSUME NEW t, IsTable(t), NEW idx \in 0 .. LastIndex
  PROVE  LET u == Bare(t, idx) IN
         /\ IsTable(u) /\ u.idx = idx /\ u.used = t.used /\ u.deleted = 0
         /\ u.width = t.width /\ u.fast = t.fast /\ u.counted = t.counted
         /\ Layout(u) /\ Occupied(u) = {} /\ Marked(u) = {}
<1> DEFINE u == Bare(t, idx)
<1>1. /\ IsTable(u) /\ u.idx = idx /\ u.used = t.used /\ u.deleted = 0
      /\ u.width = t.width /\ u.fast = t.fast /\ u.counted = t.counted
      /\ u.buckets = [i \in 0 .. TableSizes[idx] - 1 |-> Empty]
      /\ u.counts = [i \in 0 .. TableSizes[idx] - 1 |-> 0]
  BY DEF IsTable, Fields, Bare
<1> HIDE DEF u
<1>2. Indexes(u) = 0 .. TableSizes[idx] - 1
  BY <1>1 DEF Indexes, NumBuckets
<1>3. /\ Stored(u)
      /\ \A i \in Indexes(u) : u.buckets[i] = Empty /\ u.counts[i] = 0
  BY <1>1, <1>2, EntriesAreContents DEF Stored
<1>4. Occupied(u) = {} /\ Marked(u) = {}
  BY <1>3, EntriesAreContents DEF Occupied, Marked
<1>5. Distinct(u) /\ CountsKept(u)
  BY <1>3, <1>4 DEF Distinct, CountsKept
<1>6. Reached(u)
  <2> SUFFICES ASSUME NEW k \in Keys, NEW n \in Indexes(u) PROVE ~Holds(u, Probe(u, k, n), k)
    BY DEF Reached
  <2>1. Probe(u, k, n) \in Indexes(u)
    BY <1>3, ProbesVisitAll DEF Stored
  <2> QED
    BY <1>3, <2>1, EntriesAreContents DEF Holds
<1>7. Layout(u)
  BY <1>3, <1>5, <1>6 DEF Layout
<1> QED
  BY <1>1, <1>4, <1>7 DEF u

Before(t, n) == {i \in Occupied(t) : i < n}

\* What the buckets before n have brought to the new table.
Moved(t, idx, n, new) ==
  /\ IsTable(new) /\ new.idx = idx /\ new.used = t.used /\ new.deleted = 0
  /\ new.width = t.width /\ new.fast = t.fast /\ new.counted = t.counted
  /\ Layout(new) /\ Marked(new) = {}
  /\ Cardinality(Occupied(new)) = Cardinality(Before(t, n))
  /\ Holdings(new) = {<<t.buckets[i], SlotCount(t, i)>> : i \in Before(t, n)}

LEMMA PutAtIs ==
  ASSUME NEW t, IsTable(t), NEW i, NEW x, NEW c
  PROVE  LET u == PutAt(t, i, x, c) IN
         /\ IsTable(u) /\ u.used = t.used /\ u.deleted = t.deleted
         /\ u.width = t.width /\ u.fast = t.fast /\ IsPut(t, u, i, x, c)
BY DEF IsTable, Fields, PutAt, IsPut

LEMMA OneMoreMoved ==
  ASSUME NEW t, Layout(t), NEW idx \in 0 .. LastIndex,
         Cardinality(Occupied(t)) <= TableSizes[idx],
         NEW n \in Indexes(t), NEW new, Moved(t, idx, n, new)
  PROVE  Moved(t, idx, n + 1, Move(t, n, new))
<1>1. /\ Stored(t) /\ n \in Nat /\ \A i \in Occupied(t) : i \in Nat
  BY Sizes DEF Layout, Stored, Occupied
<1>2. CASE t.buckets[n] \notin Entries
  <2>1. \A i \in Occupied(t) : i # n
    BY <1>2 DEF Occupied
  <2>2. \A i \in Occupied(t) : i < n + 1 <=> i < n
    BY <1>1, <2>1
  <2>3. Before(t, n + 1) = Before(t, n)
    BY <2>2 DEF Before
  <2>4. Move(t, n, new) = new
    BY <1>2 DEF Move
  <2> QED
    BY <2>3, <2>4 DEF Moved
<1>3. CASE t.buckets[n] \in Entries
  <2> DEFINE e == t.buckets[n]
             k == KeyOf[e]
             i == FindEmpty(new, k)
             u == PutAt(new, i, e, t.counts[n])
  <2>1. Before(t, n + 1) = Before(t, n) \cup {n} /\ n \notin Before(t, n)
    <3>1. \A j \in Occupied(t) : j < n + 1 <=> j < n \/ j = n
      BY <1>1
    <3>2. n \in Occupied(t) /\ ~(n < n)
      BY <1>1, <1>3 DEF Occupied
    <3> QED
      BY <3>1, <3>2 DEF Before
  <2>2. n \in Occupied(t) /\ k \in Keys /\ t.counts[n] \in Nat
    BY <1>1, <1>3, EntriesAreContents DEF Occupied, Stored
  <2>3. /\ IsFiniteSet(Before(t, n))
        /\ Cardinality(Before(t, n + 1)) = Cardinality(Before(t, n)) + 1
        /\ Cardinality(Before(t, n)) \in Nat
        /\ Cardinality(Before(t, n)) < TableSizes[idx]
    <3>1. IsFiniteSet(Occupied(t)) /\ Cardinality(Occupied(t)) \in Nat
      BY <1>1, Finite
    <3>2. Before(t, n) \in SUBSET Occupied(t) /\ Before(t, n + 1) \in SUBSET Occupied(t)
      BY DEF Before
    <3>3. IsFiniteSet(Before(t, n)) /\ Cardinality(Before(t, n)) \in Nat
      BY <3>1, <3>2, FS_Subset, FS_CardinalityType
    <3>4. Cardinality(Before(t, n + 1)) <= Cardinality(Occupied(t))
      BY <3>1, <3>2, FS_Subset
    <3>5. Cardinality(Before(t, n + 1)) = Cardinality(Before(t, n)) + 1
      BY <2>1, <3>3, FS_AddElement
    <3> QED
      BY <3>1, <3>3, <3>4, <3>5, Numbers
  <2>4. Stored(new) /\ NumBuckets(new) = TableSizes[idx]
    BY DEF Moved, Layout, NumBuckets
  <2>5. \E j \in Indexes(new) : new.buckets[j] = Empty
    BY <2>3, <2>4, EmptyExists DEF Moved
  <2>6. IsPlace(new, k, i)
    BY <2>2, <2>5, EmptyFound DEF Moved
  <2>7. Absent(new, k)
    <3> SUFFICES ASSUME NEW j \in Occupied(new), KeyOf[new.buckets[j]] = k PROVE FALSE
      BY DEF Absent
    <3>1. <<new.buckets[j], SlotCount(new, j)>> \in Holdings(new)
      BY DEF Holdings
    <3>2. PICK l \in Before(t, n) : new.buckets[j] = t.buckets[l]
      BY <3>1 DEF Moved
    <3>3. l \in Occupied(t) /\ l # n
      BY <2>1 DEF Before
    <3> QED
      BY <2>2, <3>2, <3>3 DEF Layout, Distinct
  <2>8. /\ IsTable(u) /\ u.used = new.used /\ u.deleted = new.deleted
        /\ u.width = new.width /\ u.fast = new.fast /\ IsPut(new, u, i, e, t.counts[n])
    BY PutAtIs DEF Moved
  <2>9. new.counted => t.counts[n] > 0
    BY <2>2 DEF Moved, Layout, CountsKept
  <2>10. Move(t, n, new) = u
    BY <1>3 DEF Move
  <2> HIDE DEF u, i
  <2>11. /\ Layout(u) /\ Occupied(u) = Occupied(new) \cup {i} /\ i \notin Occupied(new)
         /\ Marked(u) = Marked(new) \ {i}
         /\ Holdings(u) = With(Holdings(new), e, IF new.counted THEN t.counts[n] ELSE 1)
    <3>1. Layout(new)
      BY DEF Moved
    <3> HIDE DEF k, e
    <3>2. e \in Entries /\ k = KeyOf[e] /\ t.counts[n] \in Nat
      BY <1>3, <2>2 DEF e, k
    <3>3. Absent(new, KeyOf[e]) /\ IsPlace(new, KeyOf[e], i)
      BY <2>6, <2>7, <3>2
    <3> DEFINE c == t.counts[n]
    <3>4. IsPut(new, u, i, e, c) /\ c \in Nat /\ (new.counted => c > 0)
      BY <2>8, <2>9, <3>2
    <3> HIDE DEF c
    <3>5. Filled(new, u, i, e, c)
      BY <3>1, <3>2, <3>3, <3>4, Placed
    <3> QED
      BY <3>5 DEF c, Filled
  <2>12. Cardinality(Occupied(u)) = Cardinality(Before(t, n + 1))
    <3>1. IsFiniteSet(Occupied(new)) /\ Cardinality(Occupied(new)) = Cardinality(Before(t, n))
      BY <2>4, Finite DEF Moved
    <3>2. Cardinality(Occupied(u)) = Cardinality(Occupied(new)) + 1
      BY <2>11, <3>1, FS_AddElement
    <3> QED
      BY <2>3, <3>1, <3>2
  <2>13. Holdings(u) = {<<t.buckets[l], SlotCount(t, l)>> : l \in Before(t, n + 1)}
    <3>1. Holdings(new) = {<<t.buckets[l], SlotCount(t, l)>> : l \in Before(t, n)}
      BY DEF Moved
    <3>2. SlotCount(t, n) = IF new.counted THEN t.counts[n] ELSE 1
      BY DEF Moved, SlotCount
    <3> QED
      BY <2>1, <2>11, <3>1, <3>2 DEF With
  <2>14. u.idx = idx /\ u.counted = t.counted /\ u.used = t.used /\ u.deleted = 0
         /\ u.width = t.width /\ u.fast = t.fast
    BY <2>8 DEF Moved, IsPut
  <2>15. Marked(u) = {}
    BY <2>11 DEF Moved
  <2> QED
    BY <2>8, <2>10, <2>11, <2>12, <2>13, <2>14, <2>15 DEF Moved
<1> QED
  BY <1>2, <1>3

\* The recursion of the loop has a solution, and so its equations hold.
LEMMA LoopUnrolled ==
  ASSUME NEW t, NEW idx, NumBuckets(t) \in Nat
  PROVE  \E moved : /\ MoveAll(t, idx) = moved[NumBuckets(t)]
                    /\ moved[0] = Bare(t, idx)
                    /\ \A i \in 0 .. NumBuckets(t) - 1 : moved[i + 1] = Move(t, i, moved[i])
<1> DEFINE N == NumBuckets(t)
           B == Bare(t, idx)
           Upto(f, n) == f = [i \in 0 .. n |-> IF i = 0 THEN B ELSE Move(t, i - 1, f[i - 1])]
           S == {n \in 0 .. N : \E f : Upto(f, n)}
<1>1. 0 \in S
  <2> DEFINE g == [i \in 0 .. 0 |-> B]
  <2>1. g = [i \in 0 .. 0 |-> IF i = 0 THEN B ELSE Move(t, i - 1, g[i - 1])]
    OBVIOUS
  <2> HIDE DEF g
  <2>2. Upto(g, 0)
    BY <2>1
  <2>3. 0 \in 0 .. N
    OBVIOUS
  <2> QED
    BY <2>2, <2>3
<1>2. ASSUME NEW n \in 0 .. N - 1, n \in S PROVE n + 1 \in S
  <2>1. PICK f : Upto(f, n)
    BY <1>2
  <2> DEFINE g == [i \in 0 .. n + 1 |-> IF i = n + 1 THEN Move(t, n, f[n]) ELSE f[i]]
  <2>2. \A i \in 0 .. n : f[i] = IF i = 0 THEN B ELSE Move(t, i - 1, f[i - 1])
    BY <2>1
  <2>3. \A i \in 0 .. n : g[i] = f[i]
    OBVIOUS
  <2>4. ASSUME NEW i \in 0 .. n + 1
        PROVE  g[i] = IF i = 0 THEN B ELSE Move(t, i - 1, g[i - 1])
    <3>1. CASE i = n + 1
      <4>1. g[n] = f[n] /\ i # 0 /\ i - 1 = n
        BY <2>3, <3>1
      <4>2. g[i] = Move(t, n, f[n])
        BY <3>1
      <4> HIDE DEF g
      <4> QED
        BY <4>1, <4>2
    <3>2. CASE i = 0
      <4>1. g[0] = f[0]
        BY <2>3
      <4> HIDE DEF g
      <4> QED
        BY <2>2, <3>2, <4>1
    <3>3. CASE i \in 1 .. n
      <4>1. g[i] = f[i] /\ g[i - 1] = f[i - 1] /\ i \in 0 .. n /\ i # 0
        BY <2>3, <3>3
      <4> HIDE DEF g
      <4> QED
        BY <2>2, <4>1
    <3> QED
      BY <3>1, <3>2, <3>3
  <2>5. Upto(g, n + 1)
    <3> DEFINE h == [i \in 0 .. n + 1 |-> IF i = 0 THEN B ELSE Move(t, i - 1, g[i - 1])]
    <3>1. DOMAIN g = 0 .. n + 1 /\ g = [i \in 0 .. n + 1 |-> g[i]]
      OBVIOUS
    <3> HIDE DEF g
    <3>2. g = h
      BY <2>4, <3>1
    <3> QED
      BY <3>2
  <2> HIDE DEF g
  <2>6. n + 1 \in 0 .. N
    OBVIOUS
  <2> QED
    BY <2>5, <2>6
<1>3. \E f : Upto(f, N)
  <2> HIDE DEF S, N
  <2>1. N \in S
    BY <1>1, <1>2, UpTo DEF N
  <2> QED
    BY <2>1 DEF S
<1> DEFINE moved == CHOOSE f : Upto(f, N)
<1>4. Upto(moved, N)
  BY <1>3
<1>5. MoveAll(t, idx) = moved[N]
  BY DEF MoveAll
<1> HIDE DEF moved
<1>6. moved[0] = Bare(t, idx)
  BY <1>4
<1>7. ASSUME NEW i \in 0 .. N - 1 PROVE moved[i + 1] = Move(t, i, moved[i])
  <2>1. i + 1 \in 0 .. N /\ i + 1 # 0 /\ (i + 1) - 1 = i
    OBVIOUS
  <2> QED
    BY <1>4, <2>1
<1> QED
  BY <1>5, <1>6, <1>7

\* The new table has the index that was asked for, no marks, and what the old
\* one held.
LEMMA AllMoved ==
  ASSUME NEW t, IsTable(t), Layout(t), NEW idx \in 0 .. LastIndex,
         Cardinality(Occupied(t)) <= TableSizes[idx]
  PROVE  LET new == MoveAll(t, idx) IN
         /\ IsTable(new) /\ new.idx = idx /\ new.used = t.used /\ new.deleted = 0
         /\ new.width = t.width /\ new.fast = t.fast /\ new.counted = t.counted
         /\ Layout(new) /\ Marked(new) = {}
         /\ Cardinality(Occupied(new)) = Cardinality(Occupied(t))
         /\ Holdings(new) = Holdings(t)
<1> DEFINE N == NumBuckets(t)
<1>1. N \in Nat /\ \A i \in Occupied(t) : i \in 0 .. N - 1
  BY Sizes DEF Layout, Stored, Occupied, Indexes
<1>2. PICK moved : /\ MoveAll(t, idx) = moved[N]
                   /\ moved[0] = Bare(t, idx)
                   /\ \A i \in 0 .. N - 1 : moved[i + 1] = Move(t, i, moved[i])
  BY <1>1, LoopUnrolled
<1> DEFINE S == {n \in 0 .. N : Moved(t, idx, n, moved[n])}
<1>3. 0 \in S
  <2>1. Before(t, 0) = {}
    BY <1>1 DEF Before
  <2>2. /\ IsTable(moved[0]) /\ moved[0].idx = idx /\ moved[0].used = t.used
        /\ moved[0].deleted = 0
        /\ moved[0].width = t.width /\ moved[0].fast = t.fast
        /\ moved[0].counted = t.counted
        /\ Layout(moved[0]) /\ Occupied(moved[0]) = {} /\ Marked(moved[0]) = {}
    BY <1>2, BareTable
  <2>3. Holdings(moved[0]) = {}
    BY <2>2 DEF Holdings
  <2>4. Moved(t, idx, 0, moved[0])
    BY <2>1, <2>2, <2>3 DEF Moved
  <2> QED
    BY <1>1, <2>4
<1>4. ASSUME NEW n \in 0 .. N - 1, n \in S PROVE n + 1 \in S
  <2>1. n \in Indexes(t)
    BY DEF Indexes
  <2>2. Moved(t, idx, n + 1, moved[n + 1])
    BY <1>2, <1>4, <2>1, OneMoreMoved
  <2> QED
    BY <1>1, <2>2
<1>5. Moved(t, idx, N, moved[N])
  <2> HIDE DEF S
  <2>1. N \in S
    BY <1>1, <1>3, <1>4, UpTo
  <2> QED
    BY <2>1 DEF S
<1>6. Before(t, N) = Occupied(t)
  BY <1>1 DEF Before
<1> QED
  BY <1>2, <1>5, <1>6 DEF Moved, Holdings

-----------------------------------------------------------------------------
(* Numbers of buckets, keys and entries.                                    *)

LEMMA OneToOne ==
  ASSUME NEW S, NEW T, IsFiniteSet(S), NEW f \in [S -> T],
         \A a, b \in S : f[a] = f[b] => a = b, \A c \in T : \E a \in S : f[a] = c
  PROVE  IsFiniteSet(T) /\ Cardinality(T) = Cardinality(S)
<1>1. f \in Injection(S, T) /\ f \in Surjection(S, T)
  BY DEF Injection, Surjection, IsInjective
<1>2. ExistsBijection(S, T)
  BY <1>1 DEF ExistsBijection, Bijection
<1> QED
  BY <1>2, FS_Bijection

LEMMA OneToSome ==
  ASSUME NEW S, NEW T, IsFiniteSet(T), NEW f \in [S -> T],
         \A a, b \in S : f[a] = f[b] => a = b
  PROVE  IsFiniteSet(S) /\ Cardinality(S) <= Cardinality(T)
<1>1. f \in Injection(S, T)
  BY DEF Injection, IsInjective
<1> QED
  BY <1>1, FS_Injection

LEMMA KeysFinite == IsFiniteSet(Keys) /\ Cardinality(Keys) \in Nat
<1> DEFINE f == [e \in Entries |-> KeyOf[e]]
<1>1. f \in Surjection(Entries, Keys)
  BY DEF Surjection, Keys
<1>2. IsFiniteSet(Keys)
  BY <1>1, FS_Surjection, HashAssumption
<1> QED
  BY <1>2, FS_CardinalityType

LEMMA EntriesIn ==
  ASSUME NEW t, Layout(t)
  PROVE  \A i \in Occupied(t) :
           /\ i \in Indexes(t) /\ t.buckets[i] \in Entries
           /\ KeyOf[t.buckets[i]] \in Keys /\ SlotCount(t, i) \in Nat
           /\ SlotCount(t, i) > 0
           /\ Holds(t, i, KeyOf[t.buckets[i]])
BY EntriesAreContents DEF Occupied, Layout, Stored, SlotCount, CountsKept, Holds

\* There are no more buckets in use than keys that are not absent.
LEMMA RoomForKeys ==
  ASSUME NEW t, Layout(t), NEW K \in SUBSET Keys, \A k \in Keys \ K : Absent(t, k)
  PROVE  Cardinality(Occupied(t)) <= Cardinality(K)
<1> DEFINE f == [i \in Occupied(t) |-> KeyOf[t.buckets[i]]]
<1>1. \A i \in Occupied(t) : KeyOf[t.buckets[i]] \in K
  BY EntriesIn DEF Absent
<1>2. f \in [Occupied(t) -> K]
  BY <1>1
<1>3. \A a, b \in Occupied(t) : f[a] = f[b] => a = b
  BY DEF Layout, Distinct
<1>4. IsFiniteSet(K)
  BY KeysFinite, FS_Subset
<1> HIDE DEF f
<1> QED
  BY <1>2, <1>3, <1>4, OneToSome

LEMMA AbsentFits ==
  ASSUME NEW t, Layout(t), NEW k \in Keys, Absent(t, k)
  PROVE  Cardinality(Occupied(t)) + 1 <= Cardinality(Keys)
<1>1. Cardinality(Occupied(t)) <= Cardinality(Keys \ {k})
  BY RoomForKeys
<1>2. Cardinality(Keys \ {k}) = Cardinality(Keys) - 1
  BY KeysFinite, FS_RemoveElement
<1>3. Cardinality(Occupied(t)) \in Nat
  BY Finite DEF Layout
<1> QED
  BY <1>1, <1>2, <1>3, KeysFinite

LEMMA FitIndex ==
  ASSUME NEW n \in Nat, n <= Cardinality(Keys)
  PROVE  LET fit == IndexForCapacity(n) IN
         /\ fit \in 0 .. LastIndex /\ fit + 1 \in 0 .. LastIndex
         /\ n <= TableCapacities[fit] /\ n <= TableCapacities[fit + 1]
<1> DEFINE S == {i \in DOMAIN TableCapacities : n <= TableCapacities[i]}
           fit == LeastOf(S)
<1>1. /\ LastIndex \in Nat /\ DOMAIN TableCapacities = 0 .. LastIndex
      /\ \A i \in 0 .. LastIndex : TableCapacities[i] \in Nat
      /\ \A i, j \in 0 .. LastIndex : i <= j => TableCapacities[i] <= TableCapacities[j]
  BY HashAssumption
<1>2. PICK l \in 0 .. LastIndex - 1 : Cardinality(Keys) <= TableCapacities[l]
  BY HashAssumption
<1>3. l \in S /\ S \in SUBSET Nat
  BY <1>1, <1>2, KeysFinite
<1>4. fit \in S /\ fit <= l
  <2> HIDE DEF S
  <2> QED
    BY <1>3, LeastExists
<1>5. fit = IndexForCapacity(n)
  BY DEF IndexForCapacity
<1> HIDE DEF fit
<1>6. fit \in 0 .. LastIndex /\ n <= TableCapacities[fit] /\ fit + 1 \in 0 .. LastIndex
  BY <1>1, <1>2, <1>4
<1>7. TableCapacities[fit] <= TableCapacities[fit + 1]
  BY <1>1, <1>6
<1>8. n <= TableCapacities[fit + 1]
  BY <1>1, <1>6, <1>7
<1> QED
  BY <1>5, <1>6, <1>8

-----------------------------------------------------------------------------
(* The operations on a table.                                               *)

\* The marks are not part of it: while an entry goes they may be one too many.
Sound(t) ==
  /\ IsTable(t) /\ t.fast \in BOOLEAN /\ t.counted \in BOOLEAN
  /\ Layout(t) /\ t.used = Cardinality(Occupied(t)) /\ t.used <= Capacity(t)

MarksCounted(t) == t.deleted = Cardinality(Marked(t)) /\ t.deleted < DeletedLimit

TableOK(t) == Sound(t) /\ MarksCounted(t)

SameContents(t, u) ==
  /\ u.used = t.used /\ u.fast = t.fast /\ u.counted = t.counted
  /\ Holdings(u) = Holdings(t)

LEMMA Rehashed ==
  ASSUME NEW t, Sound(t), NEW n \in Int, n > 0 => t.used + n <= Cardinality(Keys)
  PROVE  LET new == Rehash(t, n) IN
         /\ TableOK(new) /\ Marked(new) = {} /\ SameContents(t, new)
         /\ n > 0 => t.used + n <= Capacity(new)
<1> DEFINE items == IF n < 0 THEN 0 ELSE n
           fit == IndexForCapacity(t.used + items)
           idx == IF n = 0 THEN t.idx ELSE IF items = 1 /\ t.fast THEN fit + 1 ELSE fit
           new == MoveAll(t, idx)
<1>1. /\ IsTable(t) /\ Layout(t) /\ Stored(t) /\ t.idx \in 0 .. LastIndex
      /\ t.used = Cardinality(Occupied(t)) /\ t.used <= Capacity(t)
  BY DEF Sound, Layout, Stored
<1>2. t.used \in Nat
  BY <1>1, Finite
<1>3. t.used <= Cardinality(Keys)
  BY <1>1, RoomForKeys
<1>4. /\ idx \in 0 .. LastIndex
      /\ t.used + items <= TableCapacities[idx] /\ items \in Nat /\ (n > 0 => items = n)
  <2>1. CASE n = 0
    BY <1>1, <1>2, <2>1 DEF Capacity
  <2>2. CASE n # 0
    <3>1. t.used + items \in Nat /\ t.used + items <= Cardinality(Keys)
      BY <1>2, <1>3, <2>2
    <3> HIDE DEF items
    <3>2. /\ fit \in 0 .. LastIndex /\ fit + 1 \in 0 .. LastIndex
          /\ t.used + items <= TableCapacities[fit]
          /\ t.used + items <= TableCapacities[fit + 1]
      BY <3>1, FitIndex
    <3> HIDE DEF fit
    <3>3. items \in Nat /\ (n > 0 => items = n)
      BY DEF items
    <3> QED
      BY <2>2, <3>2, <3>3
  <2> QED
    BY <2>1, <2>2
<1>5. Rehash(t, n) = new
  BY DEF Rehash
<1> HIDE DEF items, fit, idx
<1>6. TableCapacities[idx] <= TableSizes[idx] /\ TableCapacities[idx] \in Nat
      /\ TableSizes[idx] \in Nat
  BY <1>4, HashAssumption
<1>7. Cardinality(Occupied(t)) <= TableSizes[idx]
  BY <1>1, <1>2, <1>4, <1>6
<1>8. /\ IsTable(new) /\ new.idx = idx /\ new.used = t.used /\ new.deleted = 0
      /\ new.width = t.width /\ new.fast = t.fast /\ new.counted = t.counted
      /\ Layout(new) /\ Marked(new) = {}
      /\ Cardinality(Occupied(new)) = Cardinality(Occupied(t))
      /\ Holdings(new) = Holdings(t)
  BY <1>1, <1>4, <1>7, AllMoved
<1> HIDE DEF new
<1>9. Capacity(new) = TableCapacities[idx]
  BY <1>8 DEF Capacity
<1>10. Sound(new)
  BY <1>1, <1>2, <1>4, <1>6, <1>8, <1>9 DEF Sound
<1>11. MarksCounted(new)
  BY <1>8, FS_EmptySet, HashAssumption DEF MarksCounted
<1>12. n > 0 => t.used + n <= Capacity(new)
  BY <1>4, <1>9
<1> QED
  BY <1>5, <1>8, <1>10, <1>11, <1>12 DEF TableOK, SameContents

LEMMA AbsentIn ==
  ASSUME NEW t, NEW u, Holdings(u) = Holdings(t), NEW k, Absent(t, k)
  PROVE  Absent(u, k)
<1> SUFFICES ASSUME NEW i \in Occupied(u), KeyOf[u.buckets[i]] = k PROVE FALSE
  BY DEF Absent
<1>1. <<u.buckets[i], SlotCount(u, i)>> \in Holdings(t)
  BY DEF Holdings
<1>2. PICK j \in Occupied(t) : u.buckets[i] = t.buckets[j]
  BY <1>1 DEF Holdings
<1> QED
  BY <1>2 DEF Absent

\* A bucket is filled and its count raised, in a table that has room.
LEMMA AddedAt ==
  ASSUME NEW t, Sound(t), NEW e \in Entries, Absent(t, KeyOf[e]),
         NEW i, IsPlace(t, KeyOf[e], i), t.used < Capacity(t)
  PROVE  LET u == IncSlotCount([t EXCEPT !.buckets[i] = e, !.used = @ + 1], i) IN
         /\ Sound(u) /\ Marked(u) = Marked(t) \ {i} /\ u.deleted = t.deleted
         /\ u.counted = t.counted /\ Holdings(u) = With(Holdings(t), e, 1)
<1> DEFINE v == [t EXCEPT !.buckets[i] = e, !.used = @ + 1]
           u == IncSlotCount(v, i)
           c == IF t.counted THEN t.counts[i] + 1 ELSE t.counts[i]
<1>1. /\ IsTable(t) /\ Layout(t) /\ Stored(t) /\ i \in Indexes(t)
      /\ t.used = Cardinality(Occupied(t)) /\ t.fast \in BOOLEAN /\ t.counted \in BOOLEAN
      /\ t.buckets[i] \in {Empty, Deleted}
  BY DEF Sound, Layout, IsPlace
<1>2. /\ IsTable(v) /\ v.idx = t.idx /\ v.used = t.used + 1 /\ v.deleted = t.deleted
      /\ v.fast = t.fast /\ v.counted = t.counted /\ v.counts = t.counts
      /\ v.buckets = [t.buckets EXCEPT ![i] = e]
  BY <1>1 DEF IsTable, Fields
<1> HIDE DEF v
<1>3. /\ IsTable(u) /\ u.idx = v.idx /\ u.used = v.used /\ u.deleted = v.deleted
      /\ u.fast = v.fast /\ u.counted = v.counted /\ u.buckets = v.buckets
      /\ u.counts = IF v.counted THEN [v.counts EXCEPT ![i] = v.counts[i] + 1] ELSE v.counts
  BY <1>2 DEF IsTable, Fields, IncSlotCount
<1> HIDE DEF u
<1>4. t.counts[i] \in Nat /\ t.counts = [t.counts EXCEPT ![i] = t.counts[i]]
  BY <1>1 DEF Stored
<1>5. IsPut(t, u, i, e, c)
  BY <1>2, <1>3, <1>4 DEF IsPut
<1>6. i \notin Occupied(t)
  BY <1>1, EntriesAreContents DEF Occupied
<1>7. t.counted => t.counts[i] = 0
  BY <1>1, <1>6 DEF Layout, CountsKept
<1>8. c \in Nat /\ (t.counted => c > 0) /\ (t.counted => c = 1)
  BY <1>4, <1>7
<1> HIDE DEF c
<1>9. Filled(t, u, i, e, c)
  BY <1>1, <1>5, <1>8, Placed
<1>10. Cardinality(Occupied(u)) = Cardinality(Occupied(t)) + 1
  <2>1. IsFiniteSet(Occupied(t))
    BY <1>1, Finite
  <2> QED
    BY <1>9, <2>1, FS_AddElement DEF Filled
<1>11. Capacity(u) = Capacity(t) /\ Capacity(t) \in Nat /\ t.used \in Nat
  BY <1>1, <1>2, <1>3, Sizes, Finite, SameProbes DEF Stored
<1>12. Sound(u)
  BY <1>1, <1>2, <1>3, <1>9, <1>10, <1>11 DEF Sound, Filled
<1>13. Holdings(u) = With(Holdings(t), e, 1)
  BY <1>8, <1>9 DEF Filled
<1> QED
  BY <1>2, <1>3, <1>9, <1>12, <1>13 DEF Filled, u, v

\* A mark that is going to be reused is counted no more.
LEMMA FilledUp ==
  ASSUME NEW t, TableOK(t), NEW i \in Indexes(t)
  PROVE  LET v == Fill(t, i) IN
         /\ IsTable(v) /\ v.idx = t.idx /\ v.used = t.used /\ v.buckets = t.buckets
         /\ v.counts = t.counts /\ v.fast = t.fast /\ v.counted = t.counted
         /\ v.deleted = Cardinality(Marked(t) \ {i}) /\ v.deleted < DeletedLimit
<1>1. IsTable(t) /\ Stored(t) /\ MarksCounted(t)
  BY DEF TableOK, Sound, Layout
<1>2. IsFiniteSet(Marked(t)) /\ Cardinality(Marked(t)) \in Nat
  BY <1>1, Finite
<1>3. CASE t.buckets[i] = Deleted
  <2>1. i \in Marked(t)
    BY <1>3 DEF Marked
  <2>2. Cardinality(Marked(t) \ {i}) = Cardinality(Marked(t)) - 1
    BY <1>2, <2>1, FS_RemoveElement
  <2>3. Cardinality(Marked(t) \ {i}) < DeletedLimit
    BY <1>1, <1>2, <2>2, HashAssumption DEF MarksCounted
  <2>4. t.deleted - 1 = Cardinality(Marked(t) \ {i})
    BY <1>1, <2>2 DEF MarksCounted
  <2>5. Fill(t, i) = [t EXCEPT !.deleted = @ - 1]
    BY <1>3 DEF Fill
  <2> QED
    BY <1>1, <2>3, <2>4, <2>5 DEF IsTable, Fields
<1>4. CASE t.buckets[i] # Deleted
  <2>1. Marked(t) \ {i} = Marked(t)
    BY <1>4 DEF Marked
  <2>2. Fill(t, i) = t
    BY <1>4 DEF Fill
  <2> QED
    BY <1>1, <2>1, <2>2 DEF MarksCounted
<1> QED
  BY <1>3, <1>4

\* A table with the same buckets and counts.
LEMMA SameBuckets ==
  ASSUME NEW t, NEW u, u.idx = t.idx, u.buckets = t.buckets, u.counts = t.counts,
         u.counted = t.counted
  PROVE  /\ Layout(t) => Layout(u)
         /\ Occupied(u) = Occupied(t) /\ Marked(u) = Marked(t)
         /\ Holdings(u) = Holdings(t) /\ Capacity(u) = Capacity(t)
         /\ \A k : Absent(t, k) => Absent(u, k)
         /\ \A k, i : IsPlace(t, k, i) => IsPlace(u, k, i)
<1>1. /\ Indexes(u) = Indexes(t) /\ Capacity(u) = Capacity(t)
      /\ \A k, n : Probe(u, k, n) = Probe(t, k, n)
  BY SameProbes
<1>2. Occupied(u) = Occupied(t) /\ Marked(u) = Marked(t)
  BY <1>1 DEF Occupied, Marked
<1>3. \A i : SlotCount(u, i) = SlotCount(t, i)
  BY DEF SlotCount
<1>4. Holdings(u) = Holdings(t)
  BY <1>2, <1>3 DEF Holdings
<1>5. ASSUME Layout(t) PROVE Layout(u)
  <2>1. Stored(u)
    BY <1>1, <1>5 DEF Layout, Stored
  <2>2. Distinct(u) /\ CountsKept(u)
    BY <1>1, <1>2, <1>5 DEF Layout, Distinct, CountsKept
  <2>3. Reached(u)
    BY <1>1, <1>5 DEF Layout, Reached, Holds
  <2> QED
    BY <2>1, <2>2, <2>3 DEF Layout
<1>6. \A k : Absent(t, k) => Absent(u, k)
  BY <1>2 DEF Absent
<1>7. \A k, i : IsPlace(t, k, i) => IsPlace(u, k, i)
  BY <1>1 DEF IsPlace
<1> QED
  BY <1>1, <1>2, <1>4, <1>5, <1>6, <1>7

LEMMA Added ==
  ASSUME NEW t, TableOK(t), NEW e \in Entries, Absent(t, KeyOf[e])
  PROVE  LET u == Add(t, FindBucket(t, KeyOf[e]).idx, e) IN
         /\ TableOK(u) /\ u.counted = t.counted
         /\ Holdings(u) = With(Holdings(t), e, 1)
<1> DEFINE k == KeyOf[e]
           i == FindBucket(t, k).idx
<1>1. /\ Sound(t) /\ IsTable(t) /\ Layout(t) /\ Stored(t) /\ k \in Keys
      /\ t.used = Cardinality(Occupied(t)) /\ t.used <= Capacity(t)
  BY EntriesAreContents DEF TableOK, Sound, Layout
<1>2. t.used \in Nat /\ Capacity(t) \in Nat /\ Capacity(t) <= NumBuckets(t)
      /\ NumBuckets(t) \in Nat
  BY <1>1, Sizes, Finite DEF Stored
<1>3. CASE Capacity(t) < t.used + 1
  <2> DEFINE room == Rehash(t, 1)
             place == FindEmpty(room, k)
             u == IncSlotCount([room EXCEPT !.buckets[place] = e, !.used = @ + 1], place)
  <2>1. t.used + 1 <= Cardinality(Keys)
    BY <1>1, AbsentFits
  <2>2. /\ TableOK(room) /\ Marked(room) = {} /\ SameContents(t, room)
        /\ t.used + 1 <= Capacity(room)
    BY <1>1, <2>1, Rehashed
  <2>3. Add(t, i, e) = u
    BY <1>3 DEF Add
  <2> HIDE DEF room
  <2>4. /\ Sound(room) /\ Layout(room) /\ Stored(room) /\ room.used = t.used
        /\ room.used = Cardinality(Occupied(room)) /\ Holdings(room) = Holdings(t)
        /\ room.counted = t.counted
    BY <2>2 DEF TableOK, Sound, Layout, SameContents
  <2>5. Capacity(room) \in Nat /\ Capacity(room) <= NumBuckets(room) /\ NumBuckets(room) \in Nat
    BY <2>4, Sizes DEF Stored
  <2>6. \E j \in Indexes(room) : room.buckets[j] = Empty
    BY <1>2, <2>2, <2>4, <2>5, EmptyExists
  <2>7. IsPlace(room, k, place)
    BY <1>1, <2>4, <2>6, EmptyFound
  <2>8. Absent(room, k)
    BY <2>4, AbsentIn
  <2>9. room.used < Capacity(room)
    BY <1>2, <2>2, <2>4, <2>5
  <2> HIDE DEF place
  <2>10. /\ Sound(u) /\ Marked(u) = Marked(room) \ {place} /\ u.deleted = room.deleted
         /\ u.counted = room.counted /\ Holdings(u) = With(Holdings(room), e, 1)
    BY <2>4, <2>7, <2>8, <2>9, AddedAt
  <2> HIDE DEF u
  <2>11. Marked(u) = Marked(room)
    BY <2>2, <2>10
  <2>12. MarksCounted(u)
    BY <2>2, <2>10, <2>11 DEF TableOK, MarksCounted
  <2> QED
    BY <2>3, <2>4, <2>10, <2>12 DEF TableOK
<1>4. CASE ~(Capacity(t) < t.used + 1)
  <2> DEFINE room == Fill(t, i)
             u == IncSlotCount([room EXCEPT !.buckets[i] = e, !.used = @ + 1], i)
  <2>1. Add(t, i, e) = u
    BY <1>4 DEF Add
  <2>2. Occupied(t) # Indexes(t)
    <3>1. Cardinality(Occupied(t)) < NumBuckets(t)
      BY <1>1, <1>2, <1>4
    <3> QED
      BY <1>1, <3>1, NotFull
  <2>3. IsPlace(t, k, i)
    BY <1>1, <2>2, PlaceFound
  <2> HIDE DEF i
  <2>4. i \in Indexes(t)
    BY <2>3 DEF IsPlace
  <2>5. /\ IsTable(room) /\ room.idx = t.idx /\ room.used = t.used
        /\ room.buckets = t.buckets
        /\ room.counts = t.counts /\ room.fast = t.fast /\ room.counted = t.counted
        /\ room.deleted = Cardinality(Marked(t) \ {i}) /\ room.deleted < DeletedLimit
    BY <2>4, FilledUp
  <2> HIDE DEF room
  <2>6. /\ Layout(room) /\ Occupied(room) = Occupied(t) /\ Marked(room) = Marked(t)
        /\ Holdings(room) = Holdings(t) /\ Capacity(room) = Capacity(t)
        /\ Absent(room, k) /\ IsPlace(room, k, i)
    BY <1>1, <2>3, <2>5, SameBuckets
  <2>7. Sound(room) /\ room.used < Capacity(room)
    BY <1>1, <1>2, <1>4, <2>5, <2>6 DEF Sound
  <2>8. /\ Sound(u) /\ Marked(u) = Marked(room) \ {i} /\ u.deleted = room.deleted
        /\ u.counted = room.counted /\ Holdings(u) = With(Holdings(room), e, 1)
    BY <2>6, <2>7, AddedAt
  <2> HIDE DEF u
  <2>9. MarksCounted(u)
    BY <2>5, <2>6, <2>8 DEF MarksCounted
  <2> QED
    BY <2>1, <2>5, <2>6, <2>8, <2>9 DEF TableOK, i
<1> QED
  BY <1>3, <1>4

LEMMA Removed ==
  ASSUME NEW t, TableOK(t), NEW i \in Occupied(t)
  PROVE  LET u == Remove(t, i) IN
         TableOK(u) /\ u.counted = t.counted /\ Holdings(u) = Others(t, i)
<1> DEFINE mark == MarkAt(t, i)
           left == [mark EXCEPT !.used = @ - 1, !.deleted = (@ + 1) % DeletedLimit]
<1>1. /\ Sound(t) /\ IsTable(t) /\ Layout(t) /\ Stored(t) /\ MarksCounted(t)
      /\ t.used = Cardinality(Occupied(t)) /\ t.used <= Capacity(t)
      /\ t.fast \in BOOLEAN /\ t.counted \in BOOLEAN
  BY DEF TableOK, Sound, Layout
<1>2. /\ IsFiniteSet(Occupied(t)) /\ IsFiniteSet(Marked(t))
      /\ Cardinality(Marked(t)) \in Nat /\ t.used \in Nat /\ Capacity(t) \in Nat
  BY <1>1, Finite, Sizes DEF Stored
<1>3. /\ IsTable(mark) /\ mark.used = t.used /\ mark.deleted = t.deleted
      /\ mark.fast = t.fast /\ IsPut(t, mark, i, Deleted, 0)
  BY <1>1, PutAtIs DEF MarkAt
<1> HIDE DEF mark
<1>4. /\ IsTable(left) /\ left.used = mark.used - 1
      /\ left.deleted = (mark.deleted + 1) % DeletedLimit
      /\ left.idx = mark.idx /\ left.buckets = mark.buckets /\ left.counts = mark.counts
      /\ left.fast = mark.fast /\ left.counted = mark.counted
  BY <1>3 DEF IsTable, Fields
<1>5. IsPut(t, left, i, Deleted, 0)
  BY <1>3, <1>4 DEF IsPut
<1>6. Remove(t, i) \in {left, Rehash(left, -1), Rehash(left, 0)}
      /\ (Remove(t, i) = left => left.deleted # 0 \/ left = Rehash(left, 0)
                                 \/ left = Rehash(left, -1))
  BY DEF Remove, mark
<1> HIDE DEF left
<1>7. /\ Layout(left) /\ Indexes(left) = Indexes(t)
      /\ Occupied(left) = Occupied(t) \ {i}
      /\ Marked(left) = Marked(t) \cup {i} /\ i \notin Marked(t)
      /\ Holdings(left) = Others(t, i)
  BY <1>1, <1>5, MarkedOff
<1>8. Cardinality(Occupied(left)) = Cardinality(Occupied(t)) - 1
  BY <1>2, <1>7, FS_RemoveElement
<1>9. Cardinality(Marked(left)) = Cardinality(Marked(t)) + 1
  BY <1>2, <1>7, FS_AddElement
<1>10. left.idx = t.idx /\ left.counted = t.counted /\ left.fast = t.fast
       /\ left.used = t.used - 1
  BY <1>3, <1>4, <1>5 DEF IsPut
<1>11. Capacity(left) = Capacity(t)
  BY <1>10, SameProbes
<1>12. Sound(left)
  BY <1>1, <1>2, <1>4, <1>7, <1>8, <1>10, <1>11 DEF Sound
<1>13. ASSUME left.deleted # 0 PROVE MarksCounted(left)
  <2>1. t.deleted \in Nat /\ t.deleted < DeletedLimit /\ DeletedLimit \in Nat
        /\ left.deleted = (t.deleted + 1) % DeletedLimit
        /\ t.deleted = Cardinality(Marked(t))
    BY <1>1, <1>2, <1>3, <1>4, HashAssumption DEF MarksCounted
  <2>2. CASE t.deleted + 1 = DeletedLimit
    BY <1>13, <2>1, <2>2
  <2>3. CASE t.deleted + 1 < DeletedLimit
    <3>1. (t.deleted + 1) % DeletedLimit = t.deleted + 1
      BY <2>1, <2>3
    <3> QED
      BY <1>9, <2>1, <2>3, <3>1 DEF MarksCounted
  <2> QED
    BY <2>1, <2>2, <2>3
<1>14. ASSUME NEW n \in {-1, 0}
       PROVE  /\ TableOK(Rehash(left, n)) /\ SameContents(left, Rehash(left, n))
  BY <1>12, Rehashed
<1>15. CASE Remove(t, i) = left /\ left.deleted # 0
  BY <1>7, <1>10, <1>12, <1>13, <1>15 DEF TableOK
<1>16. ASSUME NEW n \in {-1, 0}, Remove(t, i) = Rehash(left, n)
       PROVE  TableOK(Remove(t, i)) /\ Remove(t, i).counted = t.counted
              /\ Holdings(Remove(t, i)) = Others(t, i)
  BY <1>7, <1>10, <1>14, <1>16 DEF SameContents
<1>17. \/ Remove(t, i) = left /\ left.deleted # 0
       \/ \E n \in {-1, 0} : Remove(t, i) = Rehash(left, n)
  BY <1>6
<1> QED
  BY <1>15, <1>16, <1>17

-----------------------------------------------------------------------------
(* The invariant.                                                           *)

\* What the table holds is what the calls put in, and what is retained.
Agrees(H, b, r) ==
  /\ b \in [Keys -> Nat] /\ r \in [Entries -> {0, 1}]
  /\ \A p \in H : p[1] \in Entries /\ p[2] \in Nat \ {0}
  /\ \A p \in H : b[KeyOf[p[1]]] = p[2] /\ r[p[1]] = 1
  /\ \A k \in Keys : b[k] > 0 => \E p \in H : KeyOf[p[1]] = k
  /\ \A e \in Entries : r[e] > 0 => \E p \in H : p[1] = e

HashInv == TableOK(ht) /\ Agrees(Holdings(ht), bag, held)

LEMMA HashInitInv == HashInit => HashInv
<1> SUFFICES ASSUME HashInit PROVE HashInv
  OBVIOUS
<1>1. PICK fast \in BOOLEAN, counted \in BOOLEAN : ht = Bare(NewHash(fast, counted), 0)
  BY DEF HashInit
<1> DEFINE t == NewHash(fast, counted)
<1>2. IsTable(t) /\ t.used = 0 /\ t.fast = fast /\ t.counted = counted
  BY DEF NewHash, IsTable, Fields
<1>3. 0 \in 0 .. LastIndex /\ TableCapacities[0] \in Nat
  BY HashAssumption
<1> HIDE DEF t
<1>4. /\ IsTable(ht) /\ ht.idx = 0 /\ ht.used = 0 /\ ht.deleted = 0
      /\ ht.fast = fast /\ ht.counted = counted
      /\ Layout(ht) /\ Occupied(ht) = {} /\ Marked(ht) = {}
  BY <1>1, <1>2, <1>3, BareTable DEF t
<1>5. TableOK(ht)
  BY <1>3, <1>4, FS_EmptySet, HashAssumption DEF TableOK, Sound, MarksCounted, Capacity
<1>6. Holdings(ht) = {}
  BY <1>4 DEF Holdings
<1>7. Agrees(Holdings(ht), bag, held)
  BY <1>6 DEF Agrees, HashInit
<1> QED
  BY <1>5, <1>7 DEF HashInv

\* A search in the table of the invariant finds what the bag says.
LEMMA FoundOrAbsent ==
  ASSUME HashInv, NEW k \in Keys
  PROVE  LET b == FindBucket(ht, k) IN
         /\ b.count = bag[k]
         /\ b.count > 0 => /\ b.idx \in Occupied(ht) /\ KeyOf[ht.buckets[b.idx]] = k
                           /\ b.count = SlotCount(ht, b.idx)
         /\ b.count = 0 => Absent(ht, k)
<1>1. Layout(ht) /\ Agrees(Holdings(ht), bag, held) /\ bag[k] \in Nat
  BY DEF HashInv, TableOK, Sound, Agrees
<1>2. ASSUME NEW i \in Occupied(ht)
      PROVE  bag[KeyOf[ht.buckets[i]]] = SlotCount(ht, i)
  <2>1. <<ht.buckets[i], SlotCount(ht, i)>> \in Holdings(ht)
    BY DEF Holdings
  <2> QED
    BY <1>1, <2>1 DEF Agrees
<1>3. CASE bag[k] > 0
  <2>1. PICK p \in Holdings(ht) : KeyOf[p[1]] = k
    BY <1>1, <1>3 DEF Agrees
  <2>2. PICK i \in Occupied(ht) : p = <<ht.buckets[i], SlotCount(ht, i)>>
    BY DEF Holdings
  <2>3. i \in Indexes(ht) /\ Holds(ht, i, k) /\ KeyOf[ht.buckets[i]] = k
    BY <1>1, <2>1, <2>2, EntriesIn
  <2>4. FindBucket(ht, k) = [idx |-> i, count |-> SlotCount(ht, i)]
    BY <1>1, <2>3, Found
  <2> QED
    BY <1>1, <1>2, <1>3, <2>3, <2>4
<1>4. CASE bag[k] = 0
  <2>1. Absent(ht, k)
    BY <1>1, <1>2, <1>4, EntriesIn DEF Absent
  <2>2. FindBucket(ht, k).count = 0
    BY <1>1, <2>1, PlaceFound
  <2> QED
    BY <1>4, <2>1, <2>2
<1> QED
  BY <1>1, <1>3, <1>4

LEMMA InvIsBag == HashInv => HashIsBag
<1> SUFFICES ASSUME HashInv PROVE HashIsBag
  OBVIOUS
<1>1. /\ Layout(ht) /\ Stored(ht) /\ Agrees(Holdings(ht), bag, held)
      /\ ht.used = Cardinality(Occupied(ht)) /\ ht.deleted = Cardinality(Marked(ht))
  BY DEF HashInv, TableOK, Sound, Layout, MarksCounted
<1>2. IsFiniteSet(Occupied(ht))
  BY <1>1, Finite
<1>3. ASSUME NEW i \in Occupied(ht)
      PROVE  /\ bag[KeyOf[ht.buckets[i]]] = SlotCount(ht, i) /\ held[ht.buckets[i]] = 1
             /\ SlotCount(ht, i) > 0
  <2>1. <<ht.buckets[i], SlotCount(ht, i)>> \in Holdings(ht)
    BY DEF Holdings
  <2> QED
    BY <1>1, <2>1, EntriesIn DEF Agrees
<1>4. \A k \in Keys :
        LET b == FindBucket(ht, k)
        IN  b.count = bag[k] /\ (b.count > 0 => held[ht.buckets[b.idx]] = 1)
  BY <1>3, FoundOrAbsent
<1>5. ht.used = Cardinality({k \in Keys : bag[k] > 0})
  <2> DEFINE T == {k \in Keys : bag[k] > 0}
             f == [i \in Occupied(ht) |-> KeyOf[ht.buckets[i]]]
  <2>1. f \in [Occupied(ht) -> T]
    BY <1>1, <1>3, EntriesIn
  <2>2. \A i, j \in Occupied(ht) : f[i] = f[j] => i = j
    BY <1>1 DEF Layout, Distinct
  <2>3. ASSUME NEW k \in T PROVE \E i \in Occupied(ht) : f[i] = k
    <3>1. PICK p \in Holdings(ht) : KeyOf[p[1]] = k
      BY <1>1 DEF Agrees
    <3>2. PICK i \in Occupied(ht) : p = <<ht.buckets[i], SlotCount(ht, i)>>
      BY DEF Holdings
    <3> QED
      BY <3>1, <3>2
  <2> HIDE DEF f, T
  <2>4. Cardinality(T) = Cardinality(Occupied(ht))
    BY <1>2, <2>1, <2>2, <2>3, OneToOne
  <2> QED
    BY <1>1, <2>4 DEF T
<1>6. ht.used = Cardinality({e \in Entries : held[e] > 0})
  <2> DEFINE T == {e \in Entries : held[e] > 0}
             f == [i \in Occupied(ht) |-> ht.buckets[i]]
  <2>1. f \in [Occupied(ht) -> T]
    BY <1>1, <1>3, EntriesIn
  <2>2. \A i, j \in Occupied(ht) : f[i] = f[j] => i = j
    BY <1>1 DEF Layout, Distinct
  <2>3. ASSUME NEW e \in T PROVE \E i \in Occupied(ht) : f[i] = e
    <3>1. PICK p \in Holdings(ht) : p[1] = e
      BY <1>1 DEF Agrees
    <3>2. PICK i \in Occupied(ht) : p = <<ht.buckets[i], SlotCount(ht, i)>>
      BY DEF Holdings
    <3> QED
      BY <3>1, <3>2
  <2> HIDE DEF f, T
  <2>4. Cardinality(T) = Cardinality(Occupied(ht))
    BY <1>2, <2>1, <2>2, <2>3, OneToOne
  <2> QED
    BY <1>1, <2>4 DEF T
<1> QED
  BY <1>1, <1>4, <1>5, <1>6 DEF HashIsBag

LEMMA Apart ==
  ASSUME NEW t, Layout(t), NEW i \in Occupied(t)
  PROVE  /\ Holdings(t) = With(Others(t, i), t.buckets[i], SlotCount(t, i))
         /\ \A p \in Others(t, i) : KeyOf[p[1]] # KeyOf[t.buckets[i]]
<1>1. Holdings(t) = With(Others(t, i), t.buckets[i], SlotCount(t, i))
  BY DEF Holdings, Others, With
<1>2. ASSUME NEW p \in Others(t, i) PROVE KeyOf[p[1]] # KeyOf[t.buckets[i]]
  <2>1. PICK j \in Occupied(t) \ {i} : p = <<t.buckets[j], SlotCount(t, j)>>
    BY DEF Others
  <2> QED
    BY <2>1 DEF Layout, Distinct
<1> QED
  BY <1>1, <1>2

LEMMA AgreesAdd ==
  ASSUME NEW H, NEW b, NEW r, Agrees(H, b, r), NEW e \in Entries,
         \A p \in H : KeyOf[p[1]] # KeyOf[e]
  PROVE  Agrees(With(H, e, 1), [b EXCEPT ![KeyOf[e]] = 1], [r EXCEPT ![e] = @ + 1])
<1> USE DEF With
<1> DEFINE k == KeyOf[e]
           b1 == [b EXCEPT ![k] = 1]
           r1 == [r EXCEPT ![e] = @ + 1]
           G == With(H, e, 1)
<1>1. k \in Keys /\ b \in [Keys -> Nat] /\ r \in [Entries -> {0, 1}]
  BY EntriesAreContents DEF Agrees
<1>2. r[e] = 0
  BY <1>1 DEF Agrees
<1>3. /\ b1 \in [Keys -> Nat] /\ b1[k] = 1 /\ \A l \in Keys \ {k} : b1[l] = b[l]
      /\ r1 \in [Entries -> {0, 1}] /\ r1[e] = 1 /\ \A x \in Entries \ {e} : r1[x] = r[x]
  BY <1>1, <1>2
<1>4. \A p \in H : p[1] # e /\ p[1] \in Entries /\ KeyOf[p[1]] \in Keys \ {k}
  BY EntriesAreContents DEF Agrees
<1> HIDE DEF b1, r1, k
<1>5. \A p \in G : p[1] \in Entries /\ p[2] \in Nat \ {0}
  BY DEF Agrees
<1>6. \A p \in G : b1[KeyOf[p[1]]] = p[2] /\ r1[p[1]] = 1
  BY <1>3, <1>4 DEF Agrees, k
<1>7. \A l \in Keys : b1[l] > 0 => \E p \in G : KeyOf[p[1]] = l
  <2> SUFFICES ASSUME NEW l \in Keys, b1[l] > 0 PROVE \E p \in G : KeyOf[p[1]] = l
    OBVIOUS
  <2>1. CASE l = k
    <3>1. <<e, 1>> \in G /\ KeyOf[<<e, 1>>[1]] = l
      BY <2>1 DEF k
    <3> QED
      BY <3>1
  <2>2. CASE l # k
    BY <1>3, <2>2 DEF Agrees
  <2> QED
    BY <2>1, <2>2
<1>8. \A x \in Entries : r1[x] > 0 => \E p \in G : p[1] = x
  <2> SUFFICES ASSUME NEW x \in Entries, r1[x] > 0 PROVE \E p \in G : p[1] = x
    OBVIOUS
  <2>1. CASE x = e
    <3>1. <<e, 1>> \in G /\ <<e, 1>>[1] = x
      BY <2>1
    <3> QED
      BY <3>1
  <2>2. CASE x # e
    BY <1>3, <2>2 DEF Agrees
  <2> QED
    BY <2>1, <2>2
<1> QED
  BY <1>3, <1>5, <1>6, <1>7, <1>8 DEF Agrees, b1, r1, k

\* One bucket's entry x goes, and an equal one may come in its place.
LEMMA AgreesRemove ==
  ASSUME NEW O, NEW x \in Entries, NEW c \in Nat, NEW b, NEW r,
         Agrees(With(O, x, c), b, r), \A p \in O : KeyOf[p[1]] # KeyOf[x]
  PROVE  Agrees(O, [b EXCEPT ![KeyOf[x]] = 0], [r EXCEPT ![x] = @ - 1])
<1> USE DEF With
<1> DEFINE k == KeyOf[x]
           b1 == [b EXCEPT ![k] = 0]
           r1 == [r EXCEPT ![x] = @ - 1]
           G == With(O, x, c)
<1>1. k \in Keys /\ b \in [Keys -> Nat] /\ r \in [Entries -> {0, 1}]
  BY EntriesAreContents DEF Agrees
<1>2. r[x] = 1
  <2>1. <<x, c>> \in G /\ <<x, c>>[1] = x
    OBVIOUS
  <2> QED
    BY <2>1 DEF Agrees
<1>3. /\ b1 \in [Keys -> Nat] /\ b1[k] = 0 /\ \A l \in Keys \ {k} : b1[l] = b[l]
      /\ r1 \in [Entries -> {0, 1}] /\ r1[x] = 0 /\ \A y \in Entries \ {x} : r1[y] = r[y]
  BY <1>1, <1>2
<1>4. \A p \in O : p[1] # x /\ p[1] \in Entries /\ KeyOf[p[1]] \in Keys \ {k}
  BY EntriesAreContents DEF Agrees
<1> HIDE DEF b1, r1, k
<1>5. \A p \in O : p[1] \in Entries /\ p[2] \in Nat \ {0}
  BY DEF Agrees
<1>6. \A p \in O : b1[KeyOf[p[1]]] = p[2] /\ r1[p[1]] = 1
  BY <1>3, <1>4 DEF Agrees
<1>7. \A l \in Keys : b1[l] > 0 => \E p \in O : KeyOf[p[1]] = l
  <2> SUFFICES ASSUME NEW l \in Keys, b1[l] > 0 PROVE \E p \in O : KeyOf[p[1]] = l
    OBVIOUS
  <2>1. l # k /\ b[l] > 0
    BY <1>3
  <2>2. PICK p \in G : KeyOf[p[1]] = l
    BY <2>1 DEF Agrees
  <2> QED
    BY <2>1, <2>2 DEF k
<1>8. \A y \in Entries : r1[y] > 0 => \E p \in O : p[1] = y
  <2> SUFFICES ASSUME NEW y \in Entries, r1[y] > 0 PROVE \E p \in O : p[1] = y
    OBVIOUS
  <2>1. y # x /\ r[y] > 0
    BY <1>3
  <2>2. PICK p \in G : p[1] = y
    BY <2>1 DEF Agrees
  <2> QED
    BY <2>1, <2>2
<1> QED
  BY <1>2, <1>3, <1>5, <1>6, <1>7, <1>8 DEF Agrees, b1, r1, k

LEMMA AgreesCount ==
  ASSUME NEW O, NEW x \in Entries, NEW c \in Nat, NEW b, NEW r,
         Agrees(With(O, x, c), b, r), \A p \in O : KeyOf[p[1]] # KeyOf[x],
         NEW d \in Nat \ {0}
  PROVE  Agrees(With(O, x, d), [b EXCEPT ![KeyOf[x]] = d], r)
<1> USE DEF With
<1> DEFINE k == KeyOf[x]
           b1 == [b EXCEPT ![k] = d]
           G == With(O, x, c)
           F == With(O, x, d)
<1>1. k \in Keys /\ b \in [Keys -> Nat] /\ r \in [Entries -> {0, 1}] /\ r[x] = 1
  <2>1. <<x, c>> \in G /\ <<x, c>>[1] = x
    OBVIOUS
  <2> QED
    BY <2>1, EntriesAreContents DEF Agrees
<1>2. b1 \in [Keys -> Nat] /\ b1[k] = d /\ \A l \in Keys \ {k} : b1[l] = b[l]
  BY <1>1
<1>3. \A p \in O : p[1] \in Entries /\ KeyOf[p[1]] \in Keys \ {k}
  BY EntriesAreContents DEF Agrees
<1> HIDE DEF b1, k
<1>4. \A p \in F : p[1] \in Entries /\ p[2] \in Nat \ {0}
  BY DEF Agrees
<1>5. \A p \in F : b1[KeyOf[p[1]]] = p[2] /\ r[p[1]] = 1
  BY <1>1, <1>2, <1>3 DEF Agrees, k
<1>6. \A l \in Keys : b1[l] > 0 => \E p \in F : KeyOf[p[1]] = l
  <2> SUFFICES ASSUME NEW l \in Keys, b1[l] > 0 PROVE \E p \in F : KeyOf[p[1]] = l
    OBVIOUS
  <2>1. CASE l = k
    <3>1. <<x, d>> \in F /\ KeyOf[<<x, d>>[1]] = l
      BY <2>1 DEF k
    <3> QED
      BY <3>1
  <2>2. CASE l # k
    <3>1. PICK p \in G : KeyOf[p[1]] = l
      BY <1>2, <2>2 DEF Agrees
    <3> QED
      BY <2>2, <3>1 DEF k
  <2> QED
    BY <2>1, <2>2
<1>7. \A y \in Entries : r[y] > 0 => \E p \in F : p[1] = y
  <2> SUFFICES ASSUME NEW y \in Entries, r[y] > 0 PROVE \E p \in F : p[1] = y
    OBVIOUS
  <2>1. PICK p \in G : p[1] = y
    BY DEF Agrees
  <2>2. CASE y = x
    <3>1. <<x, d>> \in F /\ <<x, d>>[1] = y
      BY <2>2
    <3> QED
      BY <3>1
  <2>3. CASE y # x
    BY <2>1, <2>3
  <2> QED
    BY <2>2, <2>3
<1> QED
  BY <1>1, <1>2, <1>4, <1>5, <1>6, <1>7 DEF Agrees, b1, k

-----------------------------------------------------------------------------
(* The steps.                                                               *)

LEMMA ChangedInPlace ==
  ASSUME NEW t, TableOK(t), NEW i \in Occupied(t), NEW e \in Entries,
         KeyOf[e] = KeyOf[t.buckets[i]], NEW c \in Nat, t.counted => c > 0,
         NEW u, IsPut(t, u, i, e, c), IsTable(u), u.used = t.used,
         u.deleted = t.deleted, u.fast = t.fast
  PROVE  /\ TableOK(u)
         /\ Holdings(u) = With(Others(t, i), e, IF t.counted THEN c ELSE 1)
<1>1. Layout(t)
  BY DEF TableOK, Sound
<1>2. /\ Layout(u) /\ Indexes(u) = Indexes(t)
      /\ Occupied(u) = Occupied(t) /\ Marked(u) = Marked(t)
      /\ Holdings(u) = With(Others(t, i), e, IF t.counted THEN c ELSE 1)
  BY <1>1, Exchanged
<1>3. Capacity(u) = Capacity(t) /\ u.counted = t.counted
  BY SameProbes DEF IsPut
<1> QED
  BY <1>2, <1>3 DEF TableOK, Sound, MarksCounted

\* A count of an entry that stays changes.
Recounted(t, u, i, c) ==
  /\ IsTable(u) /\ u.used = t.used /\ u.deleted = t.deleted /\ u.fast = t.fast
  /\ u.counted = t.counted /\ u.idx = t.idx /\ u.buckets = t.buckets
  /\ u.counts = [t.counts EXCEPT ![i] = c]

LEMMA CountChanged ==
  ASSUME NEW t, TableOK(t), NEW i \in Occupied(t), NEW c \in Nat \ {0}, t.counted,
         NEW u, Recounted(t, u, i, c)
  PROVE  TableOK(u) /\ Holdings(u) = With(Others(t, i), t.buckets[i], c)
<1> DEFINE e == t.buckets[i]
<1> USE DEF Recounted
<1>1. Layout(t) /\ Stored(t) /\ i \in Indexes(t) /\ e \in Entries
  BY EntriesIn DEF TableOK, Sound, Layout
<1>2. u.buckets = [t.buckets EXCEPT ![i] = e]
  BY <1>1 DEF Stored
<1>3. IsPut(t, u, i, e, c)
  BY <1>2 DEF IsPut
<1>4. KeyOf[e] = KeyOf[t.buckets[i]]
  OBVIOUS
<1> HIDE DEF e
<1>5. TableOK(u) /\ Holdings(u) = With(Others(t, i), e, IF t.counted THEN c ELSE 1)
  BY <1>1, <1>3, <1>4, ChangedInPlace
<1> QED
  BY <1>5 DEF e

LEMMA PutInKeeps ==
  ASSUME HashInv, NEW e \in Entries, FindBucket(ht, KeyOf[e]).count = 0,
         ht' = Add(ht, FindBucket(ht, KeyOf[e]).idx, e),
         bag' = [bag EXCEPT ![KeyOf[e]] = 1], RetainEntry(e)
  PROVE  HashInv'
<1>1. KeyOf[e] \in Keys /\ TableOK(ht) /\ Agrees(Holdings(ht), bag, held)
  BY EntriesAreContents DEF HashInv
<1>2. Absent(ht, KeyOf[e])
  BY <1>1, FoundOrAbsent
<1>3. TableOK(ht') /\ Holdings(ht') = With(Holdings(ht), e, 1)
  BY <1>1, <1>2, Added
<1>4. \A p \in Holdings(ht) : KeyOf[p[1]] # KeyOf[e]
  BY <1>2 DEF Absent, Holdings
<1>5. Agrees(With(Holdings(ht), e, 1), [bag EXCEPT ![KeyOf[e]] = 1],
             [held EXCEPT ![e] = @ + 1])
  BY <1>1, <1>4, AgreesAdd
<1>6. Agrees(Holdings(ht'), bag', held')
  BY <1>3, <1>5 DEF RetainEntry
<1> QED
  BY <1>3, <1>6 DEF HashInv

\* The bucket of a key that is in the table, for the steps that change it.
LEMMA TheBucket ==
  ASSUME HashInv, NEW k \in Keys, FindBucket(ht, k).count > 0
  PROVE  LET i == FindBucket(ht, k).idx
             x == ht.buckets[i]
             c == SlotCount(ht, i)
         IN  /\ i \in Occupied(ht) /\ x \in Entries /\ KeyOf[x] = k
             /\ c = bag[k] /\ c = FindBucket(ht, k).count /\ c \in Nat
             /\ Agrees(With(Others(ht, i), x, c), bag, held)
             /\ \A p \in Others(ht, i) : KeyOf[p[1]] # KeyOf[x]
             /\ ht.counts[i] \in Nat /\ IsTable(ht) /\ TableOK(ht) /\ Stored(ht)
             /\ ht.counted \in BOOLEAN
<1> DEFINE i == FindBucket(ht, k).idx
<1>1. /\ TableOK(ht) /\ IsTable(ht) /\ Layout(ht) /\ Stored(ht) /\ ht.counted \in BOOLEAN
      /\ Agrees(Holdings(ht), bag, held)
  BY DEF HashInv, TableOK, Sound, Layout
<1>2. /\ i \in Occupied(ht) /\ KeyOf[ht.buckets[i]] = k
      /\ FindBucket(ht, k).count = SlotCount(ht, i)
      /\ FindBucket(ht, k).count = bag[k]
  BY FoundOrAbsent
<1> HIDE DEF i
<1>3. /\ i \in Indexes(ht) /\ ht.buckets[i] \in Entries /\ SlotCount(ht, i) \in Nat
  BY <1>1, <1>2, EntriesIn
<1>4. ht.counts[i] \in Nat
  BY <1>1, <1>3 DEF Stored
<1>5. /\ Holdings(ht) = With(Others(ht, i), ht.buckets[i], SlotCount(ht, i))
      /\ \A p \in Others(ht, i) : KeyOf[p[1]] # KeyOf[ht.buckets[i]]
  BY <1>1, <1>2, Apart
<1> QED
  BY <1>1, <1>2, <1>3, <1>4, <1>5 DEF i

LEMMA ReplaceKeeps ==
  ASSUME HashInv, NEW e \in Entries, FindBucket(ht, KeyOf[e]).count > 0,
         ReplaceAt(FindBucket(ht, KeyOf[e]).idx, e)
  PROVE  HashInv'
<1> DEFINE k == KeyOf[e]
           i == FindBucket(ht, k).idx
           x == ht.buckets[i]
           c == SlotCount(ht, i)
           O == Others(ht, i)
<1>1. /\ i \in Occupied(ht) /\ x \in Entries /\ KeyOf[x] = k /\ k \in Keys
      /\ c = bag[k] /\ c > 0 /\ c \in Nat
      /\ Agrees(With(O, x, c), bag, held)
      /\ \A p \in O : KeyOf[p[1]] # KeyOf[x]
      /\ ht.counts[i] \in Nat /\ IsTable(ht) /\ TableOK(ht) /\ Stored(ht)
  BY TheBucket, EntriesAreContents
<1>2. /\ ht' = [ht EXCEPT !.buckets[i] = e] /\ bag' = bag
      /\ held' = [[held EXCEPT ![e] = @ + 1] EXCEPT ![x] = @ - 1]
  BY DEF ReplaceAt
<1> HIDE DEF i
<1>3. /\ IsTable(ht') /\ ht'.idx = ht.idx /\ ht'.used = ht.used
      /\ ht'.deleted = ht.deleted /\ ht'.fast = ht.fast /\ ht'.counted = ht.counted
      /\ ht'.counts = ht.counts /\ ht'.buckets = [ht.buckets EXCEPT ![i] = e]
  BY <1>1, <1>2 DEF IsTable, Fields
<1>4. IsPut(ht, ht', i, e, ht.counts[i])
  BY <1>1, <1>3 DEF IsPut, Stored
<1>5. ht.counted => ht.counts[i] > 0
  BY <1>1 DEF SlotCount
<1> DEFINE d == ht.counts[i]
<1>6. d \in Nat /\ (ht.counted => d > 0) /\ IsPut(ht, ht', i, e, d)
      /\ c = IF ht.counted THEN d ELSE 1
  BY <1>1, <1>4, <1>5 DEF SlotCount
<1> HIDE DEF d
<1>7. /\ TableOK(ht')
      /\ Holdings(ht') = With(O, e, IF ht.counted THEN d ELSE 1)
  BY <1>1, <1>3, <1>6, ChangedInPlace
<1>8. Holdings(ht') = With(O, e, c)
  BY <1>6, <1>7
<1> HIDE DEF c, O, x
<1>9. Agrees(With(O, e, c), bag, held')
  <2>1. /\ Agrees(O, [bag EXCEPT ![KeyOf[x]] = 0], [held EXCEPT ![x] = @ - 1])
        /\ held[x] = 1
    <3>1. x \in Entries /\ c \in Nat /\ Agrees(With(O, x, c), bag, held)
          /\ \A p \in O : KeyOf[p[1]] # KeyOf[x]
      BY <1>1
    <3>2. Agrees(O, [bag EXCEPT ![KeyOf[x]] = 0], [held EXCEPT ![x] = @ - 1])
      BY <3>1, AgreesRemove
    <3>3. held[x] = 1
      <4>1. <<x, c>> \in With(O, x, c) /\ <<x, c>>[1] = x
        BY DEF With
      <4> QED
        BY <3>1, <4>1 DEF Agrees
    <3> QED
      BY <3>2, <3>3
  <2> DEFINE b0 == [bag EXCEPT ![KeyOf[x]] = 0]
             r0 == [held EXCEPT ![x] = @ - 1]
  <2>2. Agrees(O, b0, r0) /\ \A p \in O : KeyOf[p[1]] # KeyOf[e]
    BY <1>1, <2>1
  <2>3. bag \in [Keys -> Nat] /\ held \in [Entries -> {0, 1}]
    BY <1>1 DEF Agrees
  <2> HIDE DEF b0, r0
  <2>4. Agrees(With(O, e, 1), [b0 EXCEPT ![KeyOf[e]] = 1], [r0 EXCEPT ![e] = @ + 1])
    BY <2>2, AgreesAdd
  <2> DEFINE b1 == [b0 EXCEPT ![KeyOf[e]] = 1]
             r1 == [r0 EXCEPT ![e] = @ + 1]
  <2>5. Agrees(With(O, e, 1), b1, r1)
    BY <2>4
  <2>6. r1 = held'
    <3>1. r0 \in [Entries -> {0, 1}] /\ r0[x] = 0
      BY <1>1, <2>1, <2>3 DEF r0
    <3>2. CASE e = x
      <4>1. \A y \in Entries : r1[y] = held[y]
        BY <1>1, <2>1, <2>3, <3>1, <3>2 DEF r0
      <4>2. r1 \in [Entries -> {0, 1}]
        BY <1>1, <3>1, <3>2
      <4>3. \A y \in Entries : held'[y] = held[y]
        BY <1>1, <1>2, <2>1, <2>3, <3>2
      <4>4. held' \in [Entries -> {0, 1}]
        BY <1>1, <1>2, <2>1, <2>3, <3>2
      <4> HIDE DEF r1
      <4> QED
        BY <4>1, <4>2, <4>3, <4>4
    <3>3. CASE e # x
      BY <1>1, <1>2, <2>1, <2>3, <3>3 DEF r0
    <3> QED
      BY <3>2, <3>3
  <2>7. [b1 EXCEPT ![KeyOf[e]] = c] = bag
    BY <1>1, <2>3 DEF b0
  <2> HIDE DEF b1, r1
  <2>8. Agrees(With(O, e, c), [b1 EXCEPT ![KeyOf[e]] = c], r1)
    BY <1>1, <2>2, <2>5, AgreesCount
  <2> QED
    BY <2>6, <2>7, <2>8
<1> QED
  BY <1>2, <1>7, <1>8, <1>9 DEF HashInv

LEMMA AddValueKeeps ==
  ASSUME HashInv, NEW e \in Entries, HashAddValue(e)
  PROVE  HashInv'
<1> DEFINE k == KeyOf[e]
           i == FindBucket(ht, k).idx
           x == ht.buckets[i]
           c == SlotCount(ht, i)
           O == Others(ht, i)
<1>1. k \in Keys /\ FindBucket(ht, k).count \in Nat
  <2>1. k \in Keys
    BY EntriesAreContents
  <2> QED
    BY <2>1, FoundOrAbsent DEF HashInv, Agrees
<1>2. CASE FindBucket(ht, k).count > 0
  <2>1. /\ i \in Occupied(ht) /\ x \in Entries /\ KeyOf[x] = k
        /\ c = bag[k] /\ c \in Nat /\ ht.counted \in BOOLEAN
        /\ Agrees(With(O, x, c), bag, held)
        /\ \A p \in O : KeyOf[p[1]] # KeyOf[x]
        /\ ht.counts[i] \in Nat /\ IsTable(ht) /\ TableOK(ht)
    BY <1>1, <1>2, TheBucket
  <2>2. /\ ht' = IncSlotCount(ht, i) /\ held' = held
        /\ bag' = [bag EXCEPT ![k] = IF ht.counted THEN @ + 1 ELSE @]
    BY <1>2 DEF HashAddValue
  <2>3. bag \in [Keys -> Nat]
    BY DEF HashInv, Agrees
  <2>4. CASE ~ht.counted
    <3>1. ht' = ht /\ bag' = bag
      BY <2>2, <2>3, <2>4 DEF IncSlotCount
    <3> QED
      BY <2>2, <3>1 DEF HashInv
  <2>5. CASE ht.counted
    <3> DEFINE d == c + 1
    <3>1. c = ht.counts[i] /\ d \in Nat \ {0} /\ bag' = [bag EXCEPT ![k] = d]
      <4>1. c = ht.counts[i]
        BY <2>5 DEF SlotCount
      <4> HIDE DEF c
      <4>2. d \in Nat \ {0} /\ d = bag[k] + 1
        BY <2>1
      <4> QED
        BY <2>2, <2>5, <4>1, <4>2
    <3> HIDE DEF i
    <3>2. /\ IsTable(ht') /\ ht'.idx = ht.idx /\ ht'.used = ht.used
          /\ ht'.deleted = ht.deleted /\ ht'.fast = ht.fast /\ ht'.counted = ht.counted
          /\ ht'.buckets = ht.buckets
          /\ ht'.counts = [ht.counts EXCEPT ![i] = ht.counts[i] + 1]
      BY <2>1, <2>2, <2>5 DEF IsTable, Fields, IncSlotCount
    <3>3. Recounted(ht, ht', i, d)
      BY <3>1, <3>2 DEF Recounted
    <3> HIDE DEF d
    <3>4. TableOK(ht') /\ Holdings(ht') = With(O, x, d)
      BY <2>1, <2>5, <3>1, <3>3, CountChanged
    <3> HIDE DEF c, O, x
    <3>5. Agrees(With(O, x, d), [bag EXCEPT ![KeyOf[x]] = d], held)
      BY <2>1, <3>1, AgreesCount
    <3> QED
      BY <2>1, <2>2, <3>1, <3>4, <3>5 DEF HashInv
  <2> QED
    BY <2>1, <2>4, <2>5
<1>3. CASE FindBucket(ht, k).count = 0
  <2>1. ht' = Add(ht, i, e) /\ bag' = [bag EXCEPT ![k] = 1] /\ RetainEntry(e)
    BY <1>3 DEF HashAddValue
  <2> QED
    BY <1>3, <2>1, PutInKeeps
<1> QED
  BY <1>1, <1>2, <1>3

LEMMA RemoveValueKeeps ==
  ASSUME HashInv, NEW k \in Keys, HashRemoveValue(k)
  PROVE  HashInv'
<1> DEFINE i == FindBucket(ht, k).idx
           x == ht.buckets[i]
           c == SlotCount(ht, i)
           O == Others(ht, i)
<1>1. FindBucket(ht, k).count > 0 /\ bag' = [bag EXCEPT ![k] = @ - 1]
  BY DEF HashRemoveValue
<1>2. /\ i \in Occupied(ht) /\ x \in Entries /\ KeyOf[x] = k
      /\ c = bag[k] /\ c = FindBucket(ht, k).count /\ c \in Nat
      /\ ht.counted \in BOOLEAN
      /\ Agrees(With(O, x, c), bag, held)
      /\ \A p \in O : KeyOf[p[1]] # KeyOf[x]
      /\ ht.counts[i] \in Nat /\ IsTable(ht) /\ TableOK(ht)
  BY <1>1, TheBucket
<1>3. bag \in [Keys -> Nat]
  BY DEF HashInv, Agrees
<1>4. CASE FindBucket(ht, k).count > 1
  <2> DEFINE d == c - 1
  <2>1. ht' = [ht EXCEPT !.counts[i] = @ - 1] /\ held' = held
    BY <1>4 DEF HashRemoveValue
  <2>2. /\ ht.counted /\ c = ht.counts[i] /\ d \in Nat \ {0} /\ d = bag[k] - 1
        /\ bag' = [bag EXCEPT ![k] = d]
    <3>1. ht.counted /\ c = ht.counts[i]
      BY <1>2, <1>4 DEF SlotCount
    <3> HIDE DEF c
    <3>2. d \in Nat \ {0} /\ d = bag[k] - 1
      BY <1>2, <1>4
    <3> QED
      BY <1>1, <3>1, <3>2
  <2> HIDE DEF i
  <2>3. /\ IsTable(ht') /\ ht'.idx = ht.idx /\ ht'.used = ht.used
        /\ ht'.deleted = ht.deleted /\ ht'.fast = ht.fast /\ ht'.counted = ht.counted
        /\ ht'.buckets = ht.buckets
        /\ ht'.counts = [ht.counts EXCEPT ![i] = ht.counts[i] - 1]
    BY <1>2, <2>1 DEF IsTable, Fields
  <2>4. Recounted(ht, ht', i, d)
    BY <2>2, <2>3 DEF Recounted
  <2> HIDE DEF d
  <2>5. TableOK(ht') /\ Holdings(ht') = With(O, x, d)
    BY <1>2, <2>2, <2>4, CountChanged
  <2> HIDE DEF c, O, x
  <2>6. Agrees(With(O, x, d), [bag EXCEPT ![KeyOf[x]] = d], held)
    BY <1>2, <2>2, AgreesCount
  <2> QED
    BY <1>2, <2>1, <2>2, <2>5, <2>6 DEF HashInv
<1>5. CASE ~(FindBucket(ht, k).count > 1)
  <2>1. ht' = Remove(ht, i) /\ held' = [held EXCEPT ![x] = @ - 1]
    BY <1>1, <1>5 DEF HashRemoveValue
  <2>2. bag[k] = 1
    BY <1>1, <1>2, <1>5
  <2>3. bag' = [bag EXCEPT ![k] = 0]
    BY <1>1, <1>3, <2>2
  <2>4. TableOK(ht') /\ Holdings(ht') = O
    BY <1>2, <2>1, Removed
  <2> HIDE DEF c, O, x
  <2>5. Agrees(O, [bag EXCEPT ![KeyOf[x]] = 0], [held EXCEPT ![x] = @ - 1])
    BY <1>2, AgreesRemove
  <2> QED
    BY <1>2, <2>1, <2>3, <2>4, <2>5 DEF HashInv
<1> QED
  BY <1>4, <1>5

LEMMA RemoveAllKeeps ==
  ASSUME HashInv, HashRemoveAllValues
  PROVE  HashInv'
<1> DEFINE t == Bare(ht, 0)
<1>1. /\ IsTable(ht) /\ ht.fast \in BOOLEAN /\ ht.counted \in BOOLEAN /\ Layout(ht)
      /\ Agrees(Holdings(ht), bag, held) /\ held \in [Entries -> {0, 1}]
  BY DEF HashInv, TableOK, Sound, Agrees
<1>2. 0 \in 0 .. LastIndex /\ TableCapacities[0] \in Nat
  BY HashAssumption
<1>3. /\ IsTable(t) /\ t.idx = 0 /\ t.deleted = 0
      /\ t.fast = ht.fast /\ t.counted = ht.counted
      /\ Layout(t) /\ Occupied(t) = {} /\ Marked(t) = {}
  BY <1>1, <1>2, BareTable
<1>4. ht' = [t EXCEPT !.used = 0]
  BY DEF HashRemoveAllValues
<1> HIDE DEF t
<1>5. /\ IsTable(ht') /\ ht'.idx = t.idx /\ ht'.used = 0 /\ ht'.deleted = t.deleted
      /\ ht'.fast = t.fast /\ ht'.counted = t.counted
      /\ ht'.buckets = t.buckets /\ ht'.counts = t.counts
  BY <1>3, <1>4 DEF IsTable, Fields
<1>6. /\ Layout(ht') /\ Occupied(ht') = {} /\ Marked(ht') = {}
      /\ Capacity(ht') = Capacity(t)
  BY <1>3, <1>5, SameBuckets
<1>7. TableOK(ht')
  BY <1>1, <1>2, <1>3, <1>5, <1>6, FS_EmptySet, HashAssumption
     DEF TableOK, Sound, MarksCounted, Capacity
<1>8. Holdings(ht') = {}
  BY <1>6 DEF Holdings
<1>9. ASSUME NEW e \in Entries PROVE held'[e] = 0
  <2> DEFINE S == {i \in Occupied(ht) : ht.buckets[i] = e}
  <2>1. held'[e] = held[e] - Cardinality(S)
    BY DEF HashRemoveAllValues
  <2>2. CASE S = {}
    <3>1. held[e] = 0
      <4> SUFFICES ASSUME held[e] # 0 PROVE FALSE
        OBVIOUS
      <4>1. held[e] > 0
        BY <1>1
      <4>2. PICK p \in Holdings(ht) : p[1] = e
        BY <1>1, <4>1 DEF Agrees
      <4> QED
        BY <2>2, <4>2 DEF Holdings
    <3> QED
      BY <2>1, <2>2, <3>1, FS_EmptySet
  <2>3. CASE S # {}
    <3>1. PICK i \in Occupied(ht) : ht.buckets[i] = e
      BY <2>3
    <3>2. S = {i}
      BY <1>1, <3>1 DEF Layout, Distinct
    <3>3. <<ht.buckets[i], SlotCount(ht, i)>> \in Holdings(ht)
      BY DEF Holdings
    <3>4. held[e] = 1
      BY <1>1, <3>1, <3>3 DEF Agrees
    <3>5. Cardinality(S) = 1
      BY <3>2, FS_Singleton
    <3> QED
      BY <2>1, <3>4, <3>5
  <2> QED
    BY <2>2, <2>3
<1>10. held' \in [Entries -> {0, 1}]
  <2>1. DOMAIN held' = Entries /\ held' = [e \in Entries |-> held'[e]]
    BY DEF HashRemoveAllValues
  <2> QED
    BY <1>9, <2>1
<1>11. bag' = [k \in Keys |-> 0]
  BY DEF HashRemoveAllValues
<1>12. Agrees(Holdings(ht'), bag', held')
  BY <1>8, <1>9, <1>10, <1>11 DEF Agrees
<1> QED
  BY <1>7, <1>12 DEF HashInv

LEMMA SetCapacityKeeps ==
  ASSUME HashInv, NEW n \in Nat, n <= Cardinality(Keys), HashSetCapacity(n)
  PROVE  HashInv'
<1>1. Sound(ht) /\ ht.used \in Nat
  BY Finite DEF HashInv, TableOK, Sound, Layout
<1> DEFINE d == n - ht.used
<1>2. /\ d \in Int /\ ht.used + d <= Cardinality(Keys)
      /\ ht' = Rehash(ht, d) /\ bag' = bag /\ held' = held
  BY <1>1, KeysFinite DEF HashSetCapacity
<1> HIDE DEF d
<1>3. TableOK(ht') /\ SameContents(ht, ht')
  BY <1>1, <1>2, Rehashed
<1> QED
  BY <1>2, <1>3 DEF HashInv, SameContents

LEMMA HashStep == HashInv /\ [HashNext]_hashVars => HashInv'
<1> SUFFICES ASSUME HashInv, [HashNext]_hashVars PROVE HashInv'
  OBVIOUS
<1>1. ASSUME NEW e \in Entries, HashAddValue(e) PROVE HashInv'
  BY <1>1, AddValueKeeps
<1>2. ASSUME NEW e \in Entries, HashReplaceValue(e) PROVE HashInv'
  BY <1>2, ReplaceKeeps DEF HashReplaceValue
<1>3. ASSUME NEW e \in Entries, HashSetValue(e) PROVE HashInv'
  <2>1. CASE /\ FindBucket(ht, KeyOf[e]).count > 0
             /\ ReplaceAt(FindBucket(ht, KeyOf[e]).idx, e)
    BY <2>1, ReplaceKeeps
  <2>2. CASE /\ FindBucket(ht, KeyOf[e]).count = 0
             /\ ht' = Add(ht, FindBucket(ht, KeyOf[e]).idx, e)
             /\ bag' = [bag EXCEPT ![KeyOf[e]] = 1] /\ RetainEntry(e)
    BY <2>2, PutInKeeps
  <2> QED
    BY <1>3, <2>1, <2>2 DEF HashSetValue
<1>4. ASSUME NEW k \in Keys, HashRemoveValue(k) PROVE HashInv'
  BY <1>4, RemoveValueKeeps
<1>5. CASE HashRemoveAllValues
  BY <1>5, RemoveAllKeeps
<1>6. ASSUME NEW n \in {TableCapacities[i] : i \in DOMAIN TableCapacities},
             n <= Cardinality(Keys), HashSetCapacity(n)
      PROVE  HashInv'
  <2>1. n \in Nat
    BY HashAssumption
  <2> QED
    BY <1>6, <2>1, SetCapacityKeeps
<1>7. CASE UNCHANGED hashVars
  BY <1>7 DEF hashVars, HashInv
<1> QED
  BY <1>1, <1>2, <1>3, <1>4, <1>5, <1>6, <1>7 DEF HashNext

\* Whatever the sizes and capacities of the tables, the hash codes, the limit
\* of the count of marks and the thresholds of clearing and shrinking are: a
\* search in a CFBasicHash finds each key as often as it was added and not
\* removed, its entry is retained once, and the marks are counted exactly.
THEOREM HashesAreBags == HashSpec => []HashIsBag
<1>1. HashInit => HashInv
  BY HashInitInv
<1>2. HashInv /\ [HashNext]_hashVars => HashInv'
  BY HashStep
<1>3. HashInv => HashIsBag
  BY InvIsBag
<1> QED
  BY <1>1, <1>2, <1>3, PTL DEF HashSpec
=============================================================================
