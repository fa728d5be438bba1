--------------------------- MODULE MachPortProofs ---------------------------
(* CFMachPort, for any number of threads, ports, objects and sources: how an *)
(* object comes apart, and that its info outlives the callouts.  MachInv says *)
(* what every actor has at each place of its calls and in which state that    *)
(* leaves the object it is at work on; that one actor takes an object down    *)
(* follows, and what nobody refers to is left alone.                          *)
EXTENDS MachPort, Integers, FiniteSetTheorems, TLAPS

\* Where an actor takes an object down, and where it frees it; where it has a
\* reference to the object of its own; where it uses the source it holds.
Telling == {"queued", "callback", "telling", "source"}
Taking  == Telling \cup {"giveUp", "giving"}
Ending  == {"deallocate", "handOver"}
Keeping == Taking \cup {"watch", "check", "release"}
Using   == {"perform", "performing"}
Places  == {"idle", "make", "create", "direct"} \cup Keeping \cup Ending
             \cup Using

SomePort   == MachPorts \cup {Nothing}
SomeSource == PortSources \cup {Nothing}
Object ==
  [state : {"none", "ready", "invalidating", "invalid", "deallocating"},
   port : PortNames \cup {Nothing}, source : SomeSource, dsrc : BOOLEAN,
   watch : {"none", "live", "canceled", "done"}, icallout : BOOLEAN,
   told : Nat, info : BOOLEAN]
Source == [of : SomePort, valid : BOOLEAN]
Doing  == [at : Places, mp : SomePort, port : PortNames \cup {Nothing},
           rls : SomeSource, keeps : BOOLEAN]
Hold   == [mp : SomePort, rls : SomeSource]

MachTypeOK ==
  /\ allMachPorts \subseteq MachPorts
  /\ mp \in [MachPorts -> Object]
  /\ info \in [MachPorts -> Nat]
  /\ rls \in [PortSources -> Source]
  /\ doing \in [Actors -> Doing]
  /\ holds \in [PortUsers -> Hold]

\* Nobody has a reference to o.
Unreferenced(o) ==
  /\ o \notin allMachPorts
  /\ \A u \in PortUsers : holds[u].mp # o
  /\ \A a \in Actors : doing[a].mp = o => ~doing[a].keeps
  /\ \A s \in PortSources : rls[s].of # o

\* What an actor is at says what it has, and in which state its object is.
Placed(a) ==
  LET d == doing[a]
      o == d.mp
  IN
  /\ d.keeps = (d.at \in Keeping)
  /\ o \in MachPorts <=> d.at \notin {"idle", "make", "direct"}
  /\ d.at \in Taking => mp[o].state = "invalidating"
  /\ d.at \in Ending => mp[o].state = "invalid" /\ Unreferenced(o)
  /\ d.rls # Nothing => d.at \in Telling /\ rls[d.rls].of = o
  /\ d.at = "create" => a \in PortUsers /\ holds[a].mp = o
  /\ d.at \in Using =>
       /\ a \in PortUsers /\ holds[a].rls \in PortSources
       /\ rls[holds[a].rls].of = o
  /\ a \in MachPorts =>
       \/ d.at = "idle"
       \/ /\ d.at \in Taking \cup Ending \cup {"release"} /\ o = a
          /\ mp[a].state \notin {"none", "ready"}

\* How far it has come in telling the client, and in giving the info up.
Informing(a) ==
  LET d == doing[a]
      x == mp[d.mp]
  IN
  /\ d.at \in {"queued", "callback"} => x.told = 0
  /\ d.at = "telling" => x.told = 1
  /\ d.at \in {"source", "giveUp", "giving"} /\ x.icallout => x.told = 1
  /\ d.at \in Telling \cup {"giveUp"} => x.info
  /\ d.at = "giving" => ~x.info

\* One actor takes an object down, or frees it.
Alone ==
  \A a, b \in Actors :
    /\ doing[a].at \in Taking \cup Ending /\ doing[b].at \in Taking \cup Ending
    /\ doing[a].mp = doing[b].mp
    => a = b

\* Those who have references to the info of an object, but for the object.
InfoUsers(o) ==
  {a \in Actors : doing[a].at \in {"giving", "performing"} /\ doing[a].mp = o}
InfoCounted ==
  \A o \in MachPorts :
    info[o] = (IF mp[o].info THEN 1 ELSE 0) + Cardinality(InfoUsers(o))

\* What an object has in each state.  Memory that is free, or about to be, is
\* left alone.
Sound(o) ==
  LET x == mp[o] IN
  /\ o \in allMachPorts <=> x.state = "ready"
  /\ x.state = "ready" => x.told = 0 /\ x.info
  /\ x.state = "invalidating" =>
       \E a \in Actors : doing[a].at \in Taking /\ doing[a].mp = o
  /\ x.state \in {"invalid", "deallocating"} /\ x.icallout => x.told = 1
  /\ x.state \in {"none", "invalid", "deallocating"} => ~x.info
  /\ x.state \in {"none", "deallocating"} =>
       Unreferenced(o) /\ \A a \in Actors : doing[a].mp # o
  /\ x.source # Nothing => x.state = "ready" /\ rls[x.source].of = o

\* A source that is held is of some object, and one that is valid is had by an
\* object or by who is about to invalidate it.
Sourced ==
  /\ \A u \in PortUsers : holds[u].rls # Nothing => rls[holds[u].rls].of # Nothing
  /\ \A s \in PortSources : rls[s].valid =>
       \/ \E o \in MachPorts : mp[o].source = s
       \/ \E a \in Actors : doing[a].rls = s

MachInv ==
  /\ MachTypeOK
  /\ \A a \in Actors : Placed(a) /\ Informing(a)
  /\ Alone
  /\ \A o \in MachPorts : Sound(o)
  /\ Sourced /\ InfoCounted

-----------------------------------------------------------------------------
(* Counting references.                                                     *)

\* A sum of four counts that is one is the one element that is known.
LEMMA OnlyOne ==
  ASSUME NEW A, NEW B, NEW C, NEW D,
         IsFiniteSet(A), IsFiniteSet(B), IsFiniteSet(C), IsFiniteSet(D),
         Cardinality(A) + Cardinality(B) + Cardinality(C) + Cardinality(D) = 1,
         NEW x \in A
  PROVE  /\ \A y \in A : y = x
         /\ B = {} /\ C = {} /\ D = {}
<1>1. /\ Cardinality(A) \in Nat /\ Cardinality(B) \in Nat
      /\ Cardinality(C) \in Nat /\ Cardinality(D) \in Nat
  BY FS_CardinalityType
<1>2. Cardinality(A) # 0
  BY FS_EmptySet
<1>3. Cardinality(A) = 1 /\ Cardinality(B) = 0 /\ Cardinality(C) = 0
      /\ Cardinality(D) = 0
  BY <1>1, <1>2
<1>4. IsFiniteSet(A \ {x}) /\ Cardinality(A \ {x}) = 0
  BY <1>3, FS_RemoveElement
<1>5. A \ {x} = {} /\ B = {} /\ C = {} /\ D = {}
  BY <1>3, <1>4, FS_EmptySet
<1> QED
  BY <1>5

\* The sets of references that RetainCount and SourceCount count.
InTable(o)   == {o} \cap allMachPorts
Holders(o)   == {u \in PortUsers : holds[u].mp = o}
Keepers(o)   == {a \in Actors : doing[a].mp = o /\ doing[a].keeps}
SourcesOf(o) == {s \in PortSources : rls[s].of = o}
Havers(s)    == {o \in MachPorts : mp[o].source = s}
HoldersOf(s) == {u \in PortUsers : holds[u].rls = s}
Takers(s)    == {a \in Actors : doing[a].rls = s}

LEMMA Finite ==
  /\ IsFiniteSet(Actors)
  /\ \A o : /\ IsFiniteSet(InTable(o)) /\ IsFiniteSet(Holders(o))
            /\ IsFiniteSet(Keepers(o)) /\ IsFiniteSet(SourcesOf(o))
  /\ \A s : IsFiniteSet(Havers(s)) /\ IsFiniteSet(HoldersOf(s))
            /\ IsFiniteSet(Takers(s))
<1>1. /\ IsFiniteSet(PortUsers) /\ IsFiniteSet(MachPorts)
      /\ IsFiniteSet(PortSources)
  BY MachPortAssumption
<1>2. IsFiniteSet(Actors)
  BY <1>1, FS_Union DEF Actors
<1>3. \A o : InTable(o) \subseteq {o} /\ IsFiniteSet({o})
  BY FS_Singleton DEF InTable
<1>4. \A o : /\ Holders(o) \subseteq PortUsers /\ Keepers(o) \subseteq Actors
             /\ SourcesOf(o) \subseteq PortSources
  BY DEF Holders, Keepers, SourcesOf
<1>5. \A s : /\ Havers(s) \subseteq MachPorts /\ HoldersOf(s) \subseteq PortUsers
             /\ Takers(s) \subseteq Actors
  BY DEF Havers, HoldersOf, Takers
<1> QED
  BY <1>1, <1>2, <1>3, <1>4, <1>5, FS_Subset

LEMMA Counts ==
  ASSUME MachTypeOK
  PROVE  /\ \A o : RetainCount(o) = Cardinality(InTable(o))
                     + Cardinality(Holders(o)) + Cardinality(Keepers(o))
                     + Cardinality(SourcesOf(o))
         /\ \A s : SourceCount(s) = Cardinality(Havers(s))
                     + Cardinality(HoldersOf(s)) + Cardinality(Takers(s))
<1>1. DOMAIN holds = PortUsers /\ DOMAIN doing = Actors
      /\ DOMAIN rls = PortSources
  BY DEF MachTypeOK
<1> QED
  BY <1>1 DEF RetainCount, SourceCount, InTable, Holders, Keepers, SourcesOf,
              Havers, HoldersOf, Takers

\* An object whose count is zero has no references.
LEMMA ZeroMeansUnreferenced ==
  ASSUME MachTypeOK, NEW o, RetainCount(o) = 0
  PROVE  Unreferenced(o)
<1>1. /\ Cardinality(InTable(o)) \in Nat /\ Cardinality(Holders(o)) \in Nat
      /\ Cardinality(Keepers(o)) \in Nat /\ Cardinality(SourcesOf(o)) \in Nat
  BY Finite, FS_CardinalityType
<1>2. /\ Cardinality(InTable(o)) = 0 /\ Cardinality(Holders(o)) = 0
      /\ Cardinality(Keepers(o)) = 0 /\ Cardinality(SourcesOf(o)) = 0
  BY <1>1, Counts
<1>3. /\ InTable(o) = {} /\ Holders(o) = {} /\ Keepers(o) = {}
      /\ SourcesOf(o) = {}
  BY <1>2, Finite, FS_EmptySet
<1> QED
  BY <1>3 DEF Unreferenced, InTable, Holders, Keepers, SourcesOf

\* An actor that has the last reference to an object.
LEMMA LastKeeper ==
  ASSUME MachTypeOK, NEW a \in Actors, doing[a].keeps,
         RetainCount(doing[a].mp) = 1
  PROVE  LET o == doing[a].mp IN
         /\ o \notin allMachPorts
         /\ \A u \in PortUsers : holds[u].mp # o
         /\ \A b \in Actors : doing[b].mp = o /\ doing[b].keeps => b = a
         /\ \A s \in PortSources : rls[s].of # o
<1> DEFINE o == doing[a].mp
<1>1. a \in Keepers(o)
  BY DEF Keepers
<1>2. Cardinality(Keepers(o)) + Cardinality(InTable(o)) + Cardinality(Holders(o))
        + Cardinality(SourcesOf(o)) = 1
  <2>1. /\ Cardinality(InTable(o)) \in Nat /\ Cardinality(Holders(o)) \in Nat
        /\ Cardinality(Keepers(o)) \in Nat /\ Cardinality(SourcesOf(o)) \in Nat
    BY Finite, FS_CardinalityType
  <2> QED
    BY <2>1, Counts
<1>3. /\ \A b \in Keepers(o) : b = a
      /\ InTable(o) = {} /\ Holders(o) = {} /\ SourcesOf(o) = {}
  BY <1>1, <1>2, Finite, OnlyOne
<1> QED
  BY <1>3 DEF InTable, Holders, Keepers, SourcesOf

\* A source that has the last one.
LEMMA LastSource ==
  ASSUME MachTypeOK, NEW s \in PortSources, RetainCount(rls[s].of) = 1
  PROVE  LET o == rls[s].of IN
         /\ o \notin allMachPorts
         /\ \A u \in PortUsers : holds[u].mp # o
         /\ \A b \in Actors : doing[b].mp = o => ~doing[b].keeps
         /\ \A t \in PortSources : rls[t].of = o => t = s
<1> DEFINE o == rls[s].of
<1>1. s \in SourcesOf(o)
  BY DEF SourcesOf
<1>2. Cardinality(SourcesOf(o)) + Cardinality(InTable(o)) + Cardinality(Holders(o))
        + Cardinality(Keepers(o)) = 1
  <2>1. /\ Cardinality(InTable(o)) \in Nat /\ Cardinality(Holders(o)) \in Nat
        /\ Cardinality(Keepers(o)) \in Nat /\ Cardinality(SourcesOf(o)) \in Nat
    BY Finite, FS_CardinalityType
  <2> QED
    BY <2>1, Counts
<1>3. /\ \A t \in SourcesOf(o) : t = s
      /\ InTable(o) = {} /\ Holders(o) = {} /\ Keepers(o) = {}
  BY <1>1, <1>2, Finite, OnlyOne
<1> QED
  BY <1>3 DEF InTable, Holders, Keepers, SourcesOf

\* The last reference to a source, of a client, of an actor that takes its
\* object down, and of its object.
LEMMA LastOfSource ==
  ASSUME MachTypeOK, NEW s, SourceCount(s) = 1
  PROVE  /\ \A u \in PortUsers : holds[u].rls = s =>
              /\ \A v \in PortUsers : holds[v].rls = s => v = u
              /\ \A o \in MachPorts : mp[o].source # s
              /\ \A a \in Actors : doing[a].rls # s
         /\ \A a \in Actors : doing[a].rls = s =>
              /\ \A u \in PortUsers : holds[u].rls # s
              /\ \A o \in MachPorts : mp[o].source # s
              /\ \A b \in Actors : doing[b].rls = s => b = a
         /\ \A o \in MachPorts : mp[o].source = s =>
              /\ \A u \in PortUsers : holds[u].rls # s
              /\ \A q \in MachPorts : mp[q].source = s => q = o
              /\ \A a \in Actors : doing[a].rls # s
<1> DEFINE H == Havers(s)
           U == HoldersOf(s)
           T == Takers(s)
<1>1. /\ IsFiniteSet(H) /\ IsFiniteSet(U) /\ IsFiniteSet(T) /\ IsFiniteSet({})
      /\ Cardinality({}) = 0
  BY Finite, FS_EmptySet
<1>2. /\ Cardinality(H) \in Nat /\ Cardinality(U) \in Nat
      /\ Cardinality(T) \in Nat
  BY <1>1, FS_CardinalityType
<1>3. Cardinality(H) + Cardinality(U) + Cardinality(T) = 1
  BY Counts
<1> HIDE DEF H, U, T
<1>4. ASSUME NEW u \in U
      PROVE  (\A v \in U : v = u) /\ H = {} /\ T = {}
  <2>1. Cardinality(U) + Cardinality(H) + Cardinality(T) + Cardinality({}) = 1
    BY <1>1, <1>2, <1>3
  <2> QED
    BY <2>1, <1>1, OnlyOne
<1>5. ASSUME NEW a \in T
      PROVE  (\A b \in T : b = a) /\ H = {} /\ U = {}
  <2>1. Cardinality(T) + Cardinality(H) + Cardinality(U) + Cardinality({}) = 1
    BY <1>1, <1>2, <1>3
  <2> QED
    BY <2>1, <1>1, OnlyOne
<1>6. ASSUME NEW o \in H
      PROVE  (\A q \in H : q = o) /\ U = {} /\ T = {}
  <2>1. Cardinality(H) + Cardinality(U) + Cardinality(T) + Cardinality({}) = 1
    BY <1>1, <1>2, <1>3
  <2> QED
    BY <2>1, <1>1, OnlyOne
<1> QED
  BY <1>4, <1>5, <1>6 DEF H, U, T, Havers, HoldersOf, Takers

-----------------------------------------------------------------------------
(* Steps of one actor.                                                     *)

Busy == Taking \cup Ending

\* Steps in which one actor moves on, a client changes what it has references
\* to, and nothing changes that an object or a source has.
LEMMA MoveWithInfoKeeps ==
  ASSUME MachInv, NEW a \in Actors, MachTypeOK',
         allMachPorts' = allMachPorts, rls' = rls, InfoCounted',
         \A b \in Actors : b # a => doing'[b] = doing[b],
         \A u \in PortUsers : u # a => holds'[u] = holds[u],
         \A o \in MachPorts :
           /\ mp'[o].state = mp[o].state /\ mp'[o].source = mp[o].source
           /\ mp'[o].info = mp[o].info
           /\ mp'[o].icallout => mp[o].icallout \/ mp[o].state = "ready"
           /\ \/ mp'[o].told = mp[o].told
              \/ doing[a].at \in Telling /\ doing[a].mp = o,
         \A o \in MachPorts : Unreferenced(o) =>
           /\ doing'[a].mp = o => ~doing'[a].keeps
           /\ a \in PortUsers => holds'[a].mp # o,
         a \in PortUsers /\ holds'[a].rls # Nothing =>
           rls[holds'[a].rls].of # Nothing,
         Placed(a)', Informing(a)',
         doing'[a].rls = doing[a].rls,
         \/ doing'[a].at \notin Busy /\ doing[a].at \notin Busy
         \/ /\ doing'[a].at \in Busy /\ doing[a].at \in Busy
            /\ doing'[a].mp = doing[a].mp
            /\ doing'[a].at \in Taking <=> doing[a].at \in Taking
         \/ /\ doing'[a].at \in Ending /\ doing[a].at \notin Busy
            /\ \A b \in Actors : doing[b].at \in Busy =>
                 doing[b].mp # doing'[a].mp,
         doing'[a].mp \in MachPorts =>
           mp[doing'[a].mp].state \notin {"none", "deallocating"}
  PROVE  MachInv'
<1>t. MachTypeOK
  BY DEF MachInv
<1>u. \A o \in MachPorts : Unreferenced(o) => Unreferenced(o)'
  <2> SUFFICES ASSUME NEW o \in MachPorts, Unreferenced(o)
               PROVE  Unreferenced(o)'
    OBVIOUS
  <2> QED
    BY DEF Unreferenced
<1>p. \A b \in Actors : Placed(b)'
  <2> SUFFICES ASSUME NEW b \in Actors, b # a
               PROVE  Placed(b)'
    OBVIOUS
  <2>1. Placed(b) /\ doing'[b] = doing[b] /\ doing[b].mp \in MachPorts \cup {Nothing}
    BY <1>t DEF MachInv, MachTypeOK, Doing, SomePort
  <2>2. b \in PortUsers => holds'[b] = holds[b]
    OBVIOUS
  <2>3. doing[b].mp \in MachPorts =>
          /\ mp'[doing[b].mp].state = mp[doing[b].mp].state
          /\ Unreferenced(doing[b].mp) => Unreferenced(doing[b].mp)'
    BY <1>u
  <2>4. doing[b].at \in Busy => doing[b].mp \in MachPorts
    BY <2>1 DEF Placed, Busy, Taking, Telling, Ending
  <2>5. b \in MachPorts => mp'[b].state = mp[b].state
    OBVIOUS
  <2> QED
    BY <2>1, <2>2, <2>3, <2>4, <2>5 DEF Placed, Busy
<1>i. \A b \in Actors : Informing(b)'
  <2> SUFFICES ASSUME NEW b \in Actors, b # a
               PROVE  Informing(b)'
    OBVIOUS
  <2>1. Informing(b) /\ Placed(b) /\ doing'[b] = doing[b]
    BY DEF MachInv
  <2>2. doing[b].at \in Taking => doing[b].mp \in MachPorts
            /\ mp[doing[b].mp].state = "invalidating"
    BY <2>1 DEF Placed, Taking, Telling
  <2>3. doing[b].at \in Taking /\ doing[a].at \in Telling =>
          doing[b].mp # doing[a].mp
    BY DEF MachInv, Alone, Taking
  <2> DEFINE o == doing[b].mp
  <2>4. doing[b].at \in Taking =>
          /\ mp'[o].info = mp[o].info /\ mp'[o].told = mp[o].told
          /\ mp'[o].icallout => mp[o].icallout
    BY <2>2, <2>3
  <2> QED
    BY <2>1, <2>4 DEF Informing, Taking, Telling
<1>a. Alone'
  <2>1. Alone
    BY DEF MachInv
  <2> QED
    BY <2>1 DEF Alone, Busy
<1>s. \A o \in MachPorts : Sound(o)'
  <2> SUFFICES ASSUME NEW o \in MachPorts
               PROVE  Sound(o)'
    OBVIOUS
  <2>1. Sound(o)
    BY DEF MachInv
  <2>2. mp[o].state = "invalidating" =>
          \E b \in Actors : doing'[b].at \in Taking /\ doing'[b].mp = o
    BY <2>1 DEF Sound, Busy
  <2>3. mp[o].state \in {"none", "deallocating"} =>
          Unreferenced(o)' /\ \A b \in Actors : doing'[b].mp # o
    BY <2>1, <1>u DEF Sound
  <2>4. doing[a].at \in Telling /\ doing[a].mp = o => mp[o].state = "invalidating"
    BY DEF MachInv, Placed, Taking
  <2> QED
    BY <2>1, <2>2, <2>3, <2>4 DEF Sound
<1>o. Sourced'
  <2>1. Sourced
    BY DEF MachInv
  <2>2. \A b \in Actors : doing'[b].rls = doing[b].rls
    OBVIOUS
  <2> QED
    BY <2>1, <2>2 DEF Sourced
<1> QED
  BY <1>p, <1>i, <1>a, <1>s, <1>o DEF MachInv

\* Nor are the references to any info others.
LEMMA MoveKeeps ==
  ASSUME MachInv, NEW a \in Actors, MachTypeOK',
         allMachPorts' = allMachPorts, info' = info, rls' = rls,
         \A b \in Actors : b # a => doing'[b] = doing[b],
         \A u \in PortUsers : u # a => holds'[u] = holds[u],
         \A o \in MachPorts :
           /\ mp'[o].state = mp[o].state /\ mp'[o].source = mp[o].source
           /\ mp'[o].info = mp[o].info
           /\ mp'[o].icallout => mp[o].icallout \/ mp[o].state = "ready"
           /\ \/ mp'[o].told = mp[o].told
              \/ doing[a].at \in Telling /\ doing[a].mp = o,
         \A o \in MachPorts : Unreferenced(o) =>
           /\ doing'[a].mp = o => ~doing'[a].keeps
           /\ a \in PortUsers => holds'[a].mp # o,
         a \in PortUsers /\ holds'[a].rls # Nothing =>
           rls[holds'[a].rls].of # Nothing,
         Placed(a)', Informing(a)',
         doing'[a].rls = doing[a].rls,
         \/ doing'[a].at \notin Busy /\ doing[a].at \notin Busy
         \/ /\ doing'[a].at \in Busy /\ doing[a].at \in Busy
            /\ doing'[a].mp = doing[a].mp
            /\ doing'[a].at \in Taking <=> doing[a].at \in Taking
         \/ /\ doing'[a].at \in Ending /\ doing[a].at \notin Busy
            /\ \A b \in Actors : doing[b].at \in Busy =>
                 doing[b].mp # doing'[a].mp,
         \/ /\ doing'[a].at \notin {"giving", "performing"}
            /\ doing[a].at \notin {"giving", "performing"}
         \/ doing'[a] = doing[a],
         doing'[a].mp \in MachPorts =>
           mp[doing'[a].mp].state \notin {"none", "deallocating"}
  PROVE  MachInv'
<1>1. \A o \in MachPorts : InfoUsers(o)' = InfoUsers(o)
  BY DEF InfoUsers
<1>2. InfoCounted'
  BY <1>1 DEF MachInv, InfoCounted
<1> QED
  BY <1>2, MoveWithInfoKeeps

-----------------------------------------------------------------------------
(* Calls that a client starts.                                             *)

LEMMA ConstantFacts ==
  /\ PortUsers \subseteq Actors /\ MachPorts \subseteq Actors
  /\ PortUsers \cap MachPorts = {}
  /\ Nothing \notin PortNames /\ Nothing \notin MachPorts
  /\ Nothing \notin PortSources
  BY MachPortAssumption DEF Actors

\* What is known of an actor and of the object it is at work on.
LEMMA ActorFacts ==
  ASSUME MachInv, NEW a \in Actors
  PROVE  /\ doing[a] \in Doing /\ Placed(a) /\ Informing(a)
         /\ doing[a].at \in Places
         /\ doing[a].at \notin {"idle", "make", "direct"} =>
              doing[a].mp \in MachPorts /\ Sound(doing[a].mp)
         /\ doing[a].at \in {"idle", "make", "direct"} =>
              doing[a].mp = Nothing
  BY DEF MachInv, MachTypeOK, Doing, Placed, SomePort

\* An object to which there is a reference is none of those left alone.
LEMMA ReferencedFacts ==
  ASSUME MachInv, NEW o \in MachPorts, ~Unreferenced(o)
  PROVE  mp[o].state \in {"ready", "invalidating", "invalid"}
  BY DEF MachInv, MachTypeOK, Object, Sound

LEMMA UserFacts ==
  ASSUME MachInv, NEW u \in PortUsers
  PROVE  /\ holds[u] \in Hold
         /\ holds[u].mp # Nothing =>
              /\ holds[u].mp \in MachPorts /\ ~Unreferenced(holds[u].mp)
              /\ mp[holds[u].mp].state \in {"ready", "invalidating", "invalid"}
         /\ holds[u].rls # Nothing =>
              /\ holds[u].rls \in PortSources
              /\ rls[holds[u].rls].of \in MachPorts
              /\ ~Unreferenced(rls[holds[u].rls].of)
              /\ mp[rls[holds[u].rls].of].state
                   \in {"ready", "invalidating", "invalid"}
<1>1. holds[u] \in Hold
  BY DEF MachInv, MachTypeOK
<1>2. holds[u].mp # Nothing =>
        holds[u].mp \in MachPorts /\ ~Unreferenced(holds[u].mp)
  BY <1>1 DEF Hold, SomePort, Unreferenced
<1>3. holds[u].rls # Nothing =>
        /\ holds[u].rls \in PortSources
        /\ rls[holds[u].rls].of \in MachPorts
        /\ ~Unreferenced(rls[holds[u].rls].of)
  <2>1. ASSUME holds[u].rls # Nothing
        PROVE  holds[u].rls \in PortSources
               /\ rls[holds[u].rls].of \in MachPorts
    BY <1>1, <2>1 DEF Hold, SomeSource, SomePort, Source, MachInv, MachTypeOK,
                      Sourced
  <2> QED
    BY <2>1 DEF Unreferenced
<1> QED
  BY <1>1, <1>2, <1>3, ReferencedFacts

LEMMA DoingMoves ==
  ASSUME MachTypeOK, NEW a \in Actors, NEW d,
         doing' = [doing EXCEPT ![a] = d]
  PROVE  /\ doing'[a] = d
         /\ \A b \in Actors : b # a => doing'[b] = doing[b]
         /\ d \in Doing => doing' \in [Actors -> Doing]
  BY DEF MachTypeOK

\* A client that is at rest has no reference of a call's to anything.
LEMMA IdleFacts ==
  ASSUME MachInv, NEW a \in Actors, doing[a].at = "idle"
  PROVE  /\ doing[a].mp = Nothing /\ ~doing[a].keeps
         /\ doing[a].rls = Nothing /\ doing[a].at \notin Busy
  BY ActorFacts DEF Placed, Keeping, Taking, Telling, Doing, Busy, Ending

LEMMA RestingFacts ==
  /\ Resting \in Doing /\ Resting.at = "idle" /\ Resting.mp = Nothing
  /\ Resting.rls = Nothing /\ ~Resting.keeps
  BY DEF Resting, Doing, SomePort, SomeSource, Places

\* A client that is at rest starts a call that does nothing else yet.
LEMMA StartKeeps ==
  ASSUME MachInv, NEW u \in PortUsers, doing[u].at = "idle",
         NEW d \in Doing, doing' = [doing EXCEPT ![u] = d],
         mp' = mp, allMachPorts' = allMachPorts, info' = info, rls' = rls,
         holds' \in [PortUsers -> Hold],
         \A v \in PortUsers : v # u => holds'[v] = holds[v],
         holds'[u].rls = holds[u].rls,
         holds'[u].mp \in {holds[u].mp, Nothing},
         d.rls = Nothing,
         \/ d.at \in {"make", "direct"} /\ d.mp = Nothing /\ ~d.keeps
         \/ d.at \in {"check", "release"} /\ d.mp \in MachPorts /\ d.keeps
            /\ ~Unreferenced(d.mp)
         \/ d.at = "create" /\ d.mp = holds'[u].mp /\ d.mp \in MachPorts
            /\ ~d.keeps /\ ~Unreferenced(d.mp)
         \/ d.at = "perform" /\ holds'[u].rls \in PortSources /\ ~d.keeps
            /\ d.mp \in MachPorts /\ d.mp = rls[holds'[u].rls].of
            /\ ~Unreferenced(d.mp)
  PROVE  MachInv'
<1> USE ConstantFacts
<1>t. MachTypeOK
  BY DEF MachInv
<1>1. /\ doing'[u] = d /\ doing' \in [Actors -> Doing]
      /\ \A b \in Actors : b # u => doing'[b] = doing[b]
  BY <1>t, DoingMoves
<1>2. MachTypeOK'
  BY <1>t, <1>1 DEF MachTypeOK
<1>3. holds'[u].rls # Nothing => rls[holds'[u].rls].of # Nothing
  BY UserFacts
<1>4. doing[u].rls = Nothing /\ doing[u].at \notin Busy
  BY IdleFacts
<1>5. \A q \in MachPorts : Unreferenced(q) => holds'[u].mp # q
  BY DEF Unreferenced
<1>6. d.at \in {"make", "direct", "check", "release", "create", "perform"}
  OBVIOUS
<1>7. Placed(u)'
  <2>1. d.keeps \in BOOLEAN
    BY DEF Doing
  <2> QED
    BY <1>1, <1>6, <2>1 DEF Placed, Keeping, Taking, Telling, Ending, Using
<1>8. Informing(u)'
  BY <1>1, <1>6 DEF Informing, Telling
<1>9. doing'[u].at \notin Busy /\ doing'[u].at \notin {"giving", "performing"}
      /\ doing[u].at \notin {"giving", "performing"}
  BY <1>1, <1>6 DEF Busy, Taking, Telling, Ending
<1>10. d.mp \in MachPorts =>
         ~Unreferenced(d.mp) /\ mp[d.mp].state \notin {"none", "deallocating"}
  BY ReferencedFacts
<1> QED
  BY <1>1, <1>2, <1>3, <1>4, <1>5, <1>7, <1>8, <1>9, <1>10, MoveKeeps

LEMMA FindPortKeeps ==
  ASSUME MachInv, NEW u \in PortUsers, NEW p \in PortNames, FindPort(u, p)
  PROVE  MachInv'
<1> USE ConstantFacts
<1> DEFINE Check(o) == [Resting EXCEPT !.at = "check", !.mp = o, !.keeps = TRUE]
           Make == [Resting EXCEPT !.at = "make", !.port = p]
<1>t. MachTypeOK /\ holds \in [PortUsers -> Hold]
  BY DEF MachInv, MachTypeOK
<1>1. /\ doing[u].at = "idle"
      /\ mp' = mp /\ holds' = holds
      /\ allMachPorts' = allMachPorts /\ info' = info /\ rls' = rls
      /\ \/ \E o \in allMachPorts : doing' = [doing EXCEPT ![u] = Check(o)]
         \/ doing' = [doing EXCEPT ![u] = Make]
  BY DEF FindPort, InStep
<1>2. \A o \in MachPorts :
        /\ Check(o) \in Doing /\ Check(o).at = "check" /\ Check(o).mp = o
        /\ Check(o).rls = Nothing /\ Check(o).keeps
  BY RestingFacts DEF Doing, SomePort, Places, Keeping
<1>3. /\ Make \in Doing /\ Make.at = "make" /\ Make.mp = Nothing
      /\ Make.rls = Nothing /\ ~Make.keeps
  BY RestingFacts DEF Doing, Places
<1> HIDE DEF Check, Make
<1>4. ASSUME NEW o \in allMachPorts, doing' = [doing EXCEPT ![u] = Check(o)]
      PROVE  MachInv'
  <2>1. o \in MachPorts /\ ~Unreferenced(o)
    BY <1>t DEF Unreferenced, MachTypeOK
  <2> QED
    BY <1>t, <1>1, <1>2, <1>4, <2>1, StartKeeps
<1> QED
  BY <1>t, <1>1, <1>3, <1>4, StartKeeps

LEMMA AskForSourceKeeps ==
  ASSUME MachInv, NEW u \in PortUsers, AskForSource(u)
  PROVE  MachInv'
<1> DEFINE d == [Resting EXCEPT !.at = "create", !.mp = holds[u].mp]
<1>t. holds \in [PortUsers -> Hold] /\ holds[u].mp # Nothing
  BY DEF MachInv, MachTypeOK, AskForSource
<1>1. holds[u].mp \in MachPorts /\ ~Unreferenced(holds[u].mp)
  BY <1>t, UserFacts
<1>2. /\ d \in Doing /\ d.at = "create" /\ d.mp = holds[u].mp
      /\ d.rls = Nothing /\ ~d.keeps
  BY <1>1, RestingFacts DEF Doing, Places, SomePort
<1>3. doing' = [doing EXCEPT ![u] = d] /\ doing[u].at = "idle"
      /\ UNCHANGED <<allMachPorts, mp, info, rls, holds>>
  BY DEF AskForSource, InStep
<1> HIDE DEF d
<1> QED
  BY <1>t, <1>1, <1>2, <1>3, StartKeeps

LEMMA MessageKeeps ==
  ASSUME MachInv, NEW u \in PortUsers, Message(u)
  PROVE  MachInv'
<1> DEFINE o == rls[holds[u].rls].of
           d == [Resting EXCEPT !.at = "perform", !.mp = o]
<1>t. holds \in [PortUsers -> Hold] /\ holds[u].rls # Nothing
  BY DEF MachInv, MachTypeOK, Message
<1>1. o \in MachPorts /\ ~Unreferenced(o) /\ holds[u].rls \in PortSources
  BY <1>t, UserFacts
<1>2. /\ d \in Doing /\ d.at = "perform" /\ d.mp = o
      /\ d.rls = Nothing /\ ~d.keeps
  BY <1>1, RestingFacts DEF Doing, Places, SomePort, Using
<1>3. doing' = [doing EXCEPT ![u] = d] /\ doing[u].at = "idle"
      /\ UNCHANGED <<allMachPorts, mp, info, rls, holds>>
  BY DEF Message, InStep
<1> HIDE DEF d
<1> QED
  BY <1>t, <1>1, <1>2, <1>3, StartKeeps

LEMMA CFReleasePortKeeps ==
  ASSUME MachInv, NEW u \in PortUsers, CFReleasePort(u)
  PROVE  MachInv'
<1> DEFINE o == holds[u].mp
           d == [Resting EXCEPT !.at = "release", !.mp = o, !.keeps = TRUE]
<1>t. holds \in [PortUsers -> Hold] /\ o # Nothing
  BY DEF MachInv, MachTypeOK, CFReleasePort
<1>1. o \in MachPorts /\ ~Unreferenced(o)
  BY <1>t, UserFacts
<1>2. /\ d \in Doing /\ d.at = "release" /\ d.mp = o
      /\ d.rls = Nothing /\ d.keeps
  BY <1>1, RestingFacts DEF Doing, Places, SomePort, Keeping
<1>3. doing' = [doing EXCEPT ![u] = d] /\ doing[u].at = "idle"
      /\ UNCHANGED <<allMachPorts, mp, info, rls>>
      /\ holds' = [holds EXCEPT ![u].mp = Nothing]
  BY DEF CFReleasePort, InStep
<1>4. /\ holds' \in [PortUsers -> Hold]
      /\ \A v \in PortUsers : v # u => holds'[v] = holds[v]
      /\ holds'[u].rls = holds[u].rls /\ holds'[u].mp = Nothing
  BY <1>t, <1>3 DEF Hold, SomePort
<1> HIDE DEF d
<1> QED
  BY <1>1, <1>2, <1>3, <1>4, StartKeeps

\* The call of CFMachPortInvalidate that finds the object taken down.
LEMMA InvalidateAgainKeeps ==
  ASSUME MachInv, NEW u \in PortUsers, Invalidate(u), ~IsReady(holds[u].mp)
  PROVE  MachInv'
<1> DEFINE o == holds[u].mp
           d == [Resting EXCEPT !.at = "release", !.mp = o, !.keeps = TRUE]
<1>t. holds \in [PortUsers -> Hold] /\ o # Nothing
  BY DEF MachInv, MachTypeOK, Invalidate
<1>1. o \in MachPorts /\ ~Unreferenced(o)
  BY <1>t, UserFacts
<1>2. /\ d \in Doing /\ d.at = "release" /\ d.mp = o
      /\ d.rls = Nothing /\ d.keeps
  BY <1>1, RestingFacts DEF Doing, Places, SomePort, Keeping
<1>3. doing' = [doing EXCEPT ![u] = d] /\ doing[u].at = "idle"
      /\ UNCHANGED <<allMachPorts, mp, info, rls, holds>>
  BY DEF Invalidate, InStep
<1> HIDE DEF d
<1> QED
  BY <1>t, <1>1, <1>2, <1>3, StartKeeps

LEMMA GoMoves ==
  ASSUME MachTypeOK, NEW a \in Actors, NEW place \in Places, Go(a, place)
  PROVE  /\ doing' \in [Actors -> Doing]
         /\ doing'[a].at = place /\ doing'[a].mp = doing[a].mp
         /\ doing'[a].rls = doing[a].rls /\ doing'[a].keeps = doing[a].keeps
         /\ \A b \in Actors : b # a => doing'[b] = doing[b]
  BY DEF MachTypeOK, Go, Doing

\* A call ends that takes nothing down.
LEMMA StopKeeps ==
  ASSUME MachInv, NEW a \in Actors, Stop(a),
         doing[a].at \notin Busy, doing[a].at # "performing",
         mp' = mp, allMachPorts' = allMachPorts, info' = info, rls' = rls,
         holds' \in [PortUsers -> Hold],
         \A u \in PortUsers : u # a => holds'[u] = holds[u],
         a \in PortUsers =>
           /\ \A o \in MachPorts : Unreferenced(o) => holds'[a].mp # o
           /\ holds'[a].rls # Nothing => rls[holds'[a].rls].of # Nothing
  PROVE  MachInv'
<1> USE ConstantFacts
<1>t. MachTypeOK /\ doing[a] \in Doing
  BY ActorFacts DEF MachInv
<1>1. /\ doing'[a] = Resting /\ doing' \in [Actors -> Doing]
      /\ \A b \in Actors : b # a => doing'[b] = doing[b]
  BY <1>t, RestingFacts, DoingMoves DEF Stop
<1>2. MachTypeOK'
  BY <1>t, <1>1 DEF MachTypeOK
<1>3. /\ doing'[a].at = "idle" /\ doing'[a].mp = Nothing
      /\ doing'[a].rls = Nothing /\ ~doing'[a].keeps
      /\ doing'[a].keeps \in BOOLEAN
  BY <1>1, RestingFacts DEF Doing
<1>4. doing[a].rls = Nothing
  BY ActorFacts DEF Placed, Busy, Taking
<1>5. Placed(a)' /\ Informing(a)'
  BY <1>3 DEF Placed, Informing, Keeping, Taking, Telling, Ending, Using
<1>6. doing'[a].at \notin Busy /\ doing'[a].at \notin {"giving", "performing"}
      /\ doing[a].at \notin {"giving", "performing"}
  BY <1>3 DEF Busy, Taking, Telling, Ending
<1> QED
  BY <1>1, <1>2, <1>3, <1>4, <1>5, <1>6, MoveKeeps

\* A call goes on, with what it has.
LEMMA GoKeeps ==
  ASSUME MachInv, NEW a \in Actors, NEW place, Go(a, place),
         allMachPorts' = allMachPorts, info' = info, rls' = rls, holds' = holds,
         mp' \in [MachPorts -> Object],
         \A o \in MachPorts :
           /\ mp'[o].state = mp[o].state /\ mp'[o].source = mp[o].source
           /\ mp'[o].info = mp[o].info
           /\ mp'[o].icallout => mp[o].icallout
           /\ \/ mp'[o].told = mp[o].told
              \/ doing[a].at \in Telling /\ doing[a].mp = o,
         \/ doing[a].at \in {"watch", "check"} /\ place \in {"check", "release"}
         \/ doing[a].at \in Telling /\ place \in Telling /\ Informing(a)'
         \/ doing[a].at \in Ending /\ place \in Ending
  PROVE  MachInv'
<1> USE ConstantFacts
<1> DEFINE o == doing[a].mp
<1>t. MachTypeOK
  BY DEF MachInv
<1>1. /\ doing[a].at \in Keeping \cup Ending /\ place \in Keeping \cup Ending
      /\ place \in Keeping <=> doing[a].at \in Keeping
      /\ place \in Taking <=> doing[a].at \in Taking
      /\ place \in Ending <=> doing[a].at \in Ending
      /\ place \in Telling <=> doing[a].at \in Telling
      /\ {place, doing[a].at} \cap {"giving", "performing", "idle", "make",
           "direct", "create", "perform"} = {}
  BY DEF Keeping, Taking, Telling, Ending
<1>2. place \in Places
  BY <1>1 DEF Places
<1>3. /\ doing' \in [Actors -> Doing]
      /\ doing'[a].at = place /\ doing'[a].mp = o
      /\ doing'[a].rls = doing[a].rls /\ doing'[a].keeps = doing[a].keeps
      /\ \A b \in Actors : b # a => doing'[b] = doing[b]
  BY <1>t, <1>2, GoMoves
<1>4. MachTypeOK'
  BY <1>t, <1>3 DEF MachTypeOK
<1>5. Placed(a) /\ Informing(a) /\ doing[a] \in Doing /\ o \in MachPorts
  BY <1>1, ActorFacts
<1>6. \A q : Unreferenced(q) => Unreferenced(q)'
  <2>1. \A b \in Actors : doing'[b].mp = doing[b].mp
                            /\ doing'[b].keeps = doing[b].keeps
    BY <1>3
  <2> SUFFICES ASSUME NEW q, Unreferenced(q)
               PROVE  Unreferenced(q)'
    OBVIOUS
  <2> QED
    BY <2>1 DEF Unreferenced
<1>7. Placed(a)'
  <2>1. mp'[o].state = mp[o].state /\ (a \in MachPorts => mp'[a].state = mp[a].state)
    BY <1>5
  <2>2. place \in Ending => Unreferenced(doing[a].mp)'
    <3>1. doing'[a].mp = doing[a].mp
      BY <1>3
    <3>2. ASSUME place \in Ending
          PROVE  Unreferenced(o)
      BY <1>1, <1>5, <3>2 DEF Placed
    <3> QED
      BY <3>1, <3>2, <1>6 DEF Unreferenced
  <2>3. a \in MachPorts => place \in Taking \cup Ending \cup {"release"}
    BY <1>5, <1>1 DEF Placed, Taking, Telling, Ending
  <2>4. place \notin Using \cup {"create", "idle", "make", "direct"}
    BY <1>1 DEF Using
  <2> QED
    BY <1>1, <1>3, <1>5, <2>1, <2>2, <2>3, <2>4 DEF Placed
<1>8. Informing(a)'
  BY <1>3, <1>1 DEF Informing, Telling, Ending
<1>9. mp[o].state \notin {"none", "deallocating"}
  <2>1. doing[a].mp = o
    OBVIOUS
  <2> HIDE DEF o
  <2> QED
    BY <1>5, <2>1 DEF MachInv, Sound
<1>10. \A q \in MachPorts : Unreferenced(q) =>
         /\ doing'[a].mp = q => ~doing'[a].keeps
         /\ a \in PortUsers => holds'[a].mp # q
  BY <1>3 DEF Unreferenced
<1>11. a \in PortUsers /\ holds'[a].rls # Nothing =>
         rls[holds'[a].rls].of # Nothing
  BY UserFacts
<1> HIDE DEF o
<1> QED
  BY <1>1, <1>3, <1>4, <1>5, <1>7, <1>8, <1>9, <1>10, <1>11, MoveKeeps DEF Busy, o

LEMMA CheckPortKeeps ==
  ASSUME MachInv, NEW u \in PortUsers, CheckPort(u)
  PROVE  MachInv'
<1> USE ConstantFacts
<1> DEFINE o == doing[u].mp
<1>t. MachTypeOK /\ holds \in [PortUsers -> Hold]
  BY DEF MachInv, MachTypeOK
<1>1. /\ doing[u].at = "check"
      /\ UNCHANGED <<allMachPorts, mp, info, rls>>
  BY DEF CheckPort, InStep
<1>2. /\ o \in MachPorts /\ doing[u].keeps /\ ~Unreferenced(o)
      /\ doing[u].at \notin Busy
  BY <1>1, ActorFacts DEF Placed, Keeping, Unreferenced, Busy, Taking, Telling,
                          Ending
<1>3. CASE holds' = [holds EXCEPT ![u].mp = o] /\ Stop(u)
  <2>1. /\ holds' \in [PortUsers -> Hold]
        /\ \A v \in PortUsers : v # u => holds'[v] = holds[v]
        /\ holds'[u].rls = holds[u].rls /\ holds'[u].mp = o
    BY <1>t, <1>2, <1>3 DEF Hold, SomePort
  <2> HIDE DEF o
  <2>2. holds'[u].rls # Nothing => rls[holds'[u].rls].of # Nothing
    BY <2>1, UserFacts
  <2>3. \A q \in MachPorts : Unreferenced(q) => holds'[u].mp # q
    BY <1>2, <2>1
  <2> QED
    BY <1>1, <1>2, <1>3, <2>1, <2>2, <2>3, StopKeeps
<1>4. CASE Go(u, "release") /\ UNCHANGED holds
  <2>1. mp' \in [MachPorts -> Object]
    BY <1>t, <1>1 DEF MachTypeOK
  <2> QED
    BY <1>1, <1>4, <2>1, GoKeeps
<1> QED
  BY <1>3, <1>4 DEF CheckPort

-----------------------------------------------------------------------------
(* Calls that go on, or end.                                               *)

LEMMA WatchPortKeeps ==
  ASSUME MachInv, NEW u \in PortUsers, WatchPort(u)
  PROVE  MachInv'
<1> DEFINE o == doing[u].mp
<1>1. /\ doing[u].at = "watch" /\ Go(u, "check")
      /\ UNCHANGED <<allMachPorts, info, rls, holds>>
      /\ mp' = [mp EXCEPT ![o].dsrc = TRUE, ![o].watch = "live"]
  BY DEF WatchPort, InStep
<1>2. o \in MachPorts /\ mp \in [MachPorts -> Object]
  BY <1>1, ConstantFacts, ActorFacts DEF MachInv, MachTypeOK
<1> HIDE DEF o
<1>3. /\ mp' \in [MachPorts -> Object]
      /\ \A q \in MachPorts :
           /\ mp'[q].state = mp[q].state /\ mp'[q].source = mp[q].source
           /\ mp'[q].info = mp[q].info /\ mp'[q].icallout = mp[q].icallout
           /\ mp'[q].told = mp[q].told
  BY <1>1, <1>2 DEF Object
<1> QED
  BY <1>1, <1>3, ConstantFacts, GoKeeps

LEMMA ToldKeeps ==
  ASSUME MachInv, NEW a \in Actors, Told(a)
  PROVE  MachInv'
<1>1. /\ doing[a].at = "telling" /\ Go(a, "source")
      /\ UNCHANGED <<allMachPorts, info, rls, holds, mp>>
  BY DEF Told, InStep
<1>2. MachTypeOK /\ "source" \in Places
  BY DEF MachInv, Places, Keeping, Taking, Telling
<1>3. mp' \in [MachPorts -> Object]
  BY <1>1, <1>2 DEF MachTypeOK
<1>4. doing'[a].at = "source" /\ doing'[a].mp = doing[a].mp
  BY <1>1, <1>2, GoMoves
<1>5. Informing(a)'
  BY <1>1, <1>4, ActorFacts DEF Informing, Telling
<1> QED
  BY <1>1, <1>3, <1>5, GoKeeps DEF Telling

LEMMA RunBlockKeeps ==
  ASSUME MachInv, NEW a \in MachPorts, RunBlock(a)
  PROVE  MachInv'
<1>1. /\ doing[a].at = "queued" /\ Go(a, "callback")
      /\ UNCHANGED <<allMachPorts, info, rls, holds, mp>>
  BY DEF RunBlock, InStep
<1>2. MachTypeOK /\ "callback" \in Places /\ a \in Actors
  BY DEF MachInv, Places, Keeping, Taking, Telling, Actors
<1>3. mp' \in [MachPorts -> Object]
  BY <1>1, <1>2 DEF MachTypeOK
<1>4. doing'[a].at = "callback" /\ doing'[a].mp = doing[a].mp
  BY <1>1, <1>2, GoMoves
<1>5. Informing(a)'
  BY <1>1, <1>2, <1>4, ActorFacts DEF Informing, Telling
<1> QED
  BY <1>1, <1>2, <1>3, <1>5, GoKeeps DEF Telling

LEMMA CallBackKeeps ==
  ASSUME MachInv, NEW a \in Actors, CallBack(a)
  PROVE  MachInv'
<1> DEFINE o == doing[a].mp
<1>t. MachTypeOK /\ mp \in [MachPorts -> Object]
  BY DEF MachInv, MachTypeOK
<1>1. /\ doing[a].at = "callback"
      /\ UNCHANGED <<allMachPorts, info, rls, holds>>
  BY DEF CallBack, InStep
<1>2. o \in MachPorts /\ Informing(a)
  BY <1>1, ActorFacts
<1>p. "telling" \in Places /\ "source" \in Places
  BY DEF Places, Keeping, Taking, Telling
<1>3. CASE mp' = [mp EXCEPT ![o].told = @ + 1] /\ Go(a, "telling")
  <2>1. doing'[a].at = "telling" /\ doing'[a].mp = o
    BY <1>t, <1>3, <1>p, GoMoves
  <2>2. mp[o].told = 0 /\ mp[o].info
    BY <1>1, <1>2 DEF Informing, Telling
  <2> HIDE DEF o
  <2>3. /\ mp' \in [MachPorts -> Object]
        /\ \A q \in MachPorts :
             /\ mp'[q].state = mp[q].state /\ mp'[q].source = mp[q].source
             /\ mp'[q].info = mp[q].info /\ mp'[q].icallout = mp[q].icallout
             /\ q # o => mp'[q].told = mp[q].told
        /\ mp'[o].told = mp[o].told + 1
    BY <1>t, <1>2, <1>3 DEF Object
  <2>4. Informing(a)'
    BY <1>2, <2>1, <2>2, <2>3 DEF Informing, Telling
  <2>5. doing[a].at \in Telling /\ doing[a].mp = o
    BY <1>1 DEF Telling, o
  <2>6. "telling" \in Telling
    BY DEF Telling
  <2> QED
    BY <1>1, <1>3, <2>3, <2>4, <2>5, <2>6, GoKeeps
<1>4. CASE ~mp[o].icallout /\ Go(a, "source") /\ UNCHANGED mp
  <2>1. doing'[a].at = "source" /\ doing'[a].mp = o
    BY <1>t, <1>4, <1>p, GoMoves
  <2>2. Informing(a)'
    BY <1>1, <1>2, <1>4, <2>1 DEF Informing, Telling
  <2> QED
    BY <1>t, <1>1, <1>4, <2>2, GoKeeps DEF Telling
<1> QED
  BY <1>3, <1>4 DEF CallBack

LEMMA DeallocatePortKeeps ==
  ASSUME MachInv, NEW a \in Actors, DeallocatePort(a)
  PROVE  MachInv'
<1> DEFINE o == doing[a].mp
<1>1. doing[a].at = "deallocate"
  BY DEF DeallocatePort, InStep
<1>2. /\ o \in MachPorts /\ mp[o].state = "invalid" /\ mp[o].source = Nothing
      /\ Placed(a) /\ Unreferenced(o)
  BY <1>1, ActorFacts DEF Placed, Ending, Sound
<1>3. mp' = mp /\ UNCHANGED <<allMachPorts, info, rls, holds>>
  BY <1>2 DEF DeallocatePort, IsReady
<1> DEFINE d == [TakingDown(o, "handOver") EXCEPT !.keeps = FALSE]
<1>4. doing' = [doing EXCEPT ![a] = d]
  BY <1>2 DEF DeallocatePort, IsReady
<1>5. /\ d \in Doing /\ d.at = "handOver" /\ d.mp = o /\ d.rls = Nothing
      /\ ~d.keeps /\ d.keeps \in BOOLEAN
  BY <1>2, RestingFacts DEF TakingDown, Doing, Places, Ending, SomePort
<1>t. MachTypeOK
  BY DEF MachInv
<1> HIDE DEF d
<1>6. /\ doing'[a] = d /\ doing' \in [Actors -> Doing]
      /\ \A b \in Actors : b # a => doing'[b] = doing[b]
  BY <1>t, <1>4, <1>5, DoingMoves
<1>7. MachTypeOK'
  BY <1>t, <1>3, <1>6 DEF MachTypeOK
<1>8. doing[a].rls = Nothing /\ ~doing[a].keeps
  BY <1>1, <1>2 DEF Placed, Telling, Keeping, Taking
<1>9. \A q : Unreferenced(q) => Unreferenced(q)'
  <2>1. \A b \in Actors : doing'[b].mp = doing[b].mp
                            /\ (doing'[b].keeps => doing[b].keeps)
    BY <1>5, <1>6
  <2> SUFFICES ASSUME NEW q, Unreferenced(q)
               PROVE  Unreferenced(q)'
    OBVIOUS
  <2> QED
    BY <1>3, <2>1 DEF Unreferenced
<1>10. Placed(a)'
  <2>1. Unreferenced(doing[a].mp)'
    <3>1. doing'[a].mp = doing[a].mp
      BY <1>5, <1>6
    <3> QED
      BY <3>1, <1>2, <1>9 DEF Unreferenced
  <2> QED
    BY <1>1, <1>2, <1>3, <1>5, <1>6, <2>1
    DEF Placed, Keeping, Taking, Telling, Ending, Using
<1>11. Informing(a)'
  BY <1>5, <1>6 DEF Informing, Telling
<1>12. \A q \in MachPorts : Unreferenced(q) =>
         /\ doing'[a].mp = q => ~doing'[a].keeps
         /\ a \in PortUsers => holds'[a].mp # q
  BY <1>3, <1>5, <1>6 DEF Unreferenced
<1>13. a \in PortUsers /\ holds'[a].rls # Nothing =>
         rls[holds'[a].rls].of # Nothing
  <2>1. ASSUME a \in PortUsers
        PROVE  holds[a].rls # Nothing => rls[holds[a].rls].of # Nothing
    BY <2>1, ConstantFacts, UserFacts
  <2> QED
    BY <1>3, <2>1
<1>14. /\ doing'[a].at \in Busy /\ doing[a].at \in Busy
       /\ doing'[a].mp = doing[a].mp
       /\ doing'[a].at \notin Taking /\ doing[a].at \notin Taking
       /\ {doing'[a].at, doing[a].at} \cap {"giving", "performing"} = {}
  BY <1>1, <1>5, <1>6 DEF Busy, Taking, Telling, Ending
<1>15. doing'[a].rls = doing[a].rls
  BY <1>5, <1>6, <1>8
<1>16. mp[doing'[a].mp].state \notin {"none", "deallocating"}
  BY <1>2, <1>5, <1>6
<1> HIDE DEF o
<1> QED
  BY <1>3, <1>6, <1>7, <1>10, <1>11, <1>12, <1>13, <1>14, <1>15, <1>16, MoveKeeps

LEMMA CalledDirectlyKeeps ==
  ASSUME MachInv, NEW u \in PortUsers, CalledDirectly(u)
  PROVE  MachInv'
<1>1. /\ doing[u].at = "direct" /\ Stop(u)
      /\ UNCHANGED <<allMachPorts, mp, info, rls, holds>>
      /\ holds \in [PortUsers -> Hold]
  BY DEF CalledDirectly, InStep, MachInv, MachTypeOK
<1>2. doing[u].at \notin Busy /\ doing[u].at # "performing"
  BY <1>1 DEF Busy, Taking, Telling, Ending
<1>3. \A o \in MachPorts : Unreferenced(o) => holds[u].mp # o
  BY DEF Unreferenced
<1> QED
  BY <1>1, <1>2, <1>3, ConstantFacts, UserFacts, StopKeeps

LEMMA SetCallBackKeeps ==
  ASSUME MachInv, NEW u \in PortUsers, NEW callout \in BOOLEAN,
         SetCallBack(u, callout)
  PROVE  MachInv'
<1> USE ConstantFacts
<1> DEFINE o == holds[u].mp
<1>t. MachTypeOK /\ mp \in [MachPorts -> Object] /\ holds \in [PortUsers -> Hold]
  BY DEF MachInv, MachTypeOK
<1>1. /\ doing[u].at = "idle" /\ o # Nothing
      /\ UNCHANGED <<allMachPorts, info, rls, holds>>
  BY DEF SetCallBack, InStep
<1>2. o \in MachPorts /\ ~Unreferenced(o)
  BY <1>1, UserFacts
<1>3. CASE /\ IsReady(o) \/ ~callout
           /\ mp' = [mp EXCEPT ![o].icallout = callout]
           /\ UNCHANGED doing
  <2> HIDE DEF o
  <2>1. /\ mp' \in [MachPorts -> Object]
        /\ \A q \in MachPorts :
             /\ mp'[q].state = mp[q].state /\ mp'[q].source = mp[q].source
             /\ mp'[q].info = mp[q].info /\ mp'[q].told = mp[q].told
             /\ q # o => mp'[q].icallout = mp[q].icallout
        /\ mp'[o].icallout = callout
    BY <1>t, <1>2, <1>3 DEF Object
  <2>2. MachTypeOK'
    BY <1>t, <1>1, <1>3, <2>1 DEF MachTypeOK
  <2>3. /\ doing[u].mp = Nothing /\ ~doing[u].keeps
        /\ doing[u].rls = Nothing /\ doing[u].at \notin Busy
        /\ doing[u].keeps \in BOOLEAN
    BY <1>t, <1>1, IdleFacts, ActorFacts DEF Doing
  <2>4. Placed(u)'
    BY <1>1, <1>3, <2>3 DEF Placed, Keeping, Taking, Telling, Ending, Using
  <2>5. Informing(u)'
    BY <1>1, <1>3 DEF Informing, Telling
  <2>6. \A q \in MachPorts : Unreferenced(q) => holds[u].mp # q
    BY DEF Unreferenced
  <2>7. holds[u].rls # Nothing => rls[holds[u].rls].of # Nothing
    BY UserFacts
  <2> QED
    BY <1>1, <1>3, <2>1, <2>2, <2>3, <2>4, <2>5, <2>6, <2>7, MoveKeeps
    DEF IsReady
<1>4. CASE /\ doing' = [doing EXCEPT ![u] = [Resting EXCEPT !.at = "direct"]]
           /\ UNCHANGED mp
  <2> DEFINE d == [Resting EXCEPT !.at = "direct"]
  <2>1. /\ d \in Doing /\ d.at = "direct" /\ d.mp = Nothing
        /\ d.rls = Nothing /\ ~d.keeps
    BY RestingFacts DEF Doing, Places
  <2>2. doing' = [doing EXCEPT ![u] = d]
    BY <1>4
  <2> HIDE DEF d, o
  <2> QED
    BY <1>t, <1>1, <1>4, <2>1, <2>2, StartKeeps
<1> QED
  BY <1>3, <1>4 DEF SetCallBack

\* An object that only some actor or source still refers to is invalid, and
\* nobody is at work on it.
LEMMA LastReference ==
  ASSUME MachInv, NEW o \in MachPorts, ~Unreferenced(o), o \notin allMachPorts,
         \A b \in Actors : doing[b].at \in Taking => doing[b].mp # o
  PROVE  /\ mp[o].state = "invalid"
         /\ \A b \in Actors : doing[b].at \in Busy => doing[b].mp # o
<1>1. mp[o].state = "invalid"
  BY ReferencedFacts DEF MachInv, Sound
<1>2. \A b \in Actors : doing[b].at \in Ending => doing[b].mp # o
  BY DEF MachInv, Placed
<1> QED
  BY <1>1, <1>2 DEF Busy

LEMMA ReleasePortKeeps ==
  ASSUME MachInv, NEW a \in Actors, ReleasePort(a)
  PROVE  MachInv'
<1> DEFINE o == doing[a].mp
<1>t. MachTypeOK /\ holds \in [PortUsers -> Hold]
  BY DEF MachInv, MachTypeOK
<1>1. /\ doing[a].at = "release"
      /\ UNCHANGED <<allMachPorts, mp, info, rls, holds>>
  BY DEF ReleasePort, InStep
<1>2. /\ o \in MachPorts /\ Placed(a) /\ doing[a].keeps /\ doing[a].rls = Nothing
      /\ doing[a] \in Doing /\ ~Unreferenced(o)
      /\ doing[a].at \notin Busy /\ doing[a].at \notin {"giving", "performing"}
  BY <1>1, ActorFacts DEF Placed, Keeping, Taking, Telling, Busy, Ending,
                          Unreferenced
<1>3. \A q : Unreferenced(q) => \A u \in PortUsers : holds[u].mp # q
  BY DEF Unreferenced
<1>4. \A u \in PortUsers : holds[u].rls # Nothing =>
        rls[holds[u].rls].of # Nothing
  BY ConstantFacts, UserFacts
<1>5. CASE Stop(a)
  BY <1>t, <1>1, <1>2, <1>3, <1>4, <1>5, StopKeeps
<1>6. CASE /\ RetainCount(o) = 1
           /\ doing' = [doing EXCEPT ![a].at = "deallocate", ![a].keeps = FALSE]
  <2>1. /\ doing' \in [Actors -> Doing]
        /\ doing'[a].at = "deallocate" /\ doing'[a].mp = o
        /\ doing'[a].rls = Nothing /\ doing'[a].keeps = FALSE
        /\ \A b \in Actors : b # a => doing'[b] = doing[b]
    BY <1>t, <1>2, <1>6 DEF MachTypeOK, Doing, Places, Ending
  <2>2. MachTypeOK'
    BY <1>t, <1>1, <2>1 DEF MachTypeOK
  <2>3. /\ o \notin allMachPorts
        /\ \A u \in PortUsers : holds[u].mp # o
        /\ \A b \in Actors : doing[b].mp = o /\ doing[b].keeps => b = a
        /\ \A s \in PortSources : rls[s].of # o
    BY <1>t, <1>2, <1>6, LastKeeper
  <2>4. \A b \in Actors : doing[b].at \in Taking => doing[b].mp # o
    <3> SUFFICES ASSUME NEW b \in Actors, doing[b].at \in Taking, doing[b].mp = o
                 PROVE  FALSE
      OBVIOUS
    <3>1. doing[b].keeps
      BY ActorFacts DEF Placed, Keeping
    <3>2. b = a
      BY <2>3, <3>1
    <3> QED
      BY <1>2, <3>2 DEF Busy
  <2>5. /\ mp[o].state = "invalid"
        /\ \A b \in Actors : doing[b].at \in Busy => doing[b].mp # o
    BY <1>2, <2>3, <2>4, LastReference
  <2>6. \A b \in Actors : doing'[b].mp = o => ~doing'[b].keeps
    BY <2>1, <2>3
  <2>7. Unreferenced(doing[a].mp)'
    BY <1>1, <2>1, <2>3, <2>6 DEF Unreferenced
  <2> HIDE DEF o
  <2>8. Placed(a)'
    <3>1. a \in MachPorts => o = a
      BY <1>1, <1>2 DEF Placed, o
    <3>2. mp' = mp /\ o \in MachPorts
      BY <1>1, <1>2
    <3>3. ~doing'[a].keeps /\ doing'[a].keeps \in BOOLEAN
      BY <2>1
    <3> QED
      BY <2>1, <2>5, <2>7, <3>1, <3>2, <3>3
      DEF Placed, Keeping, Taking, Telling, Ending, Using
  <2>9. Informing(a)'
    BY <2>1 DEF Informing, Telling
  <2>10. doing'[a].at \in Ending /\ doing'[a].at \notin {"giving", "performing"}
    BY <2>1 DEF Ending
  <2> QED
    BY <1>1, <1>2, <1>3, <1>4, <2>1, <2>2, <2>5, <2>8, <2>9, <2>10, MoveKeeps
    DEF Busy
<1> QED
  BY <1>5, <1>6 DEF ReleasePort

LEMMA CanceledKeeps ==
  ASSUME MachInv, NEW o \in MachPorts, Canceled(o)
  PROVE  MachInv'
<1>t. MachTypeOK /\ mp \in [MachPorts -> Object]
  BY DEF MachInv, MachTypeOK
<1>1. /\ mp' \in [MachPorts -> Object]
      /\ \A q \in MachPorts :
           /\ mp'[q].state = mp[q].state /\ mp'[q].source = mp[q].source
           /\ mp'[q].info = mp[q].info /\ mp'[q].told = mp[q].told
           /\ mp'[q].icallout = mp[q].icallout
      /\ UNCHANGED <<allMachPorts, info, rls, doing, holds>>
  BY <1>t DEF Canceled, Object
<1>2. o \in Actors
  BY ConstantFacts
<1>3. MachTypeOK'
  BY <1>t, <1>1 DEF MachTypeOK
<1>4. \A q : Unreferenced(q) => Unreferenced(q)'
  BY <1>1 DEF Unreferenced
<1>5. Placed(o)'
  <2>1. Placed(o) /\ doing[o].mp \in SomePort
    BY <1>2, ActorFacts DEF Doing
  <2>2. doing[o].mp \in MachPorts => mp'[doing[o].mp].state = mp[doing[o].mp].state
    BY <1>1
  <2>3. doing[o].at \in Ending => doing[o].mp \in MachPorts
    BY <2>1 DEF Placed, Ending
  <2>4. doing[o].at \in Taking => doing[o].mp \in MachPorts
    BY <2>1 DEF Placed, Taking, Telling
  <2>5. Unreferenced(doing[o].mp) => Unreferenced(doing[o].mp)'
    BY <1>1 DEF Unreferenced
  <2> QED
    BY <1>1, <2>1, <2>2, <2>3, <2>4, <2>5 DEF Placed
<1>6. Informing(o)'
  <2>1. Informing(o) /\ Placed(o)
    BY <1>2, ActorFacts
  <2>2. doing[o].at \in Taking => doing[o].mp \in MachPorts
    BY <2>1 DEF Placed, Taking, Telling
  <2> QED
    BY <1>1, <2>1, <2>2 DEF Informing, Taking, Telling
<1>7. \/ doing[o].at \in Busy /\ (doing[o].at \in Taking <=> doing[o].at \in Taking)
      \/ doing[o].at \notin Busy
  OBVIOUS
<1>8. \A q \in MachPorts : Unreferenced(q) =>
        /\ doing[o].mp = q => ~doing[o].keeps
        /\ o \in PortUsers => holds[o].mp # q
  BY <1>2 DEF Unreferenced
<1>9. o \in PortUsers => (holds[o].rls # Nothing => rls[holds[o].rls].of # Nothing)
  BY ConstantFacts, UserFacts
<1>10. doing[o].mp \in MachPorts =>
         mp[doing[o].mp].state \notin {"none", "deallocating"}
  BY <1>2 DEF MachInv, Sound
<1> QED
  BY <1>1, <1>2, <1>3, <1>5, <1>6, <1>7, <1>8, <1>9, <1>10, MoveKeeps

LEMMA PerformNotReadyKeeps ==
  ASSUME MachInv, NEW u \in PortUsers, Perform(u), ~IsReady(doing[u].mp)
  PROVE  MachInv'
<1>1. /\ doing[u].at = "perform" /\ Stop(u)
      /\ UNCHANGED <<allMachPorts, mp, info, rls, holds>>
      /\ holds \in [PortUsers -> Hold]
  BY DEF Perform, InStep, MachInv, MachTypeOK
<1>2. doing[u].at \notin Busy /\ doing[u].at # "performing"
  BY <1>1 DEF Busy, Taking, Telling, Ending
<1>3. \A o \in MachPorts : Unreferenced(o) => holds[u].mp # o
  BY DEF Unreferenced
<1> QED
  BY <1>1, <1>2, <1>3, ConstantFacts, UserFacts, StopKeeps

\* Actors whose call, object and source are not touched.
LEMMA PlacedStays ==
  ASSUME NEW b \in Actors, Placed(b), doing'[b] = doing[b],
         doing[b].at \in Busy =>
           mp'[doing[b].mp].state = mp[doing[b].mp].state,
         doing[b].at \in Ending => Unreferenced(doing[b].mp)',
         doing[b].rls # Nothing => rls'[doing[b].rls].of = rls[doing[b].rls].of,
         b \in PortUsers => holds'[b] = holds[b],
         doing[b].at \in Using =>
           rls'[holds[b].rls].of = rls[holds[b].rls].of,
         b \in MachPorts /\ doing[b].at # "idle" =>
           mp'[b].state \notin {"none", "ready"}
  PROVE  Placed(b)'
  BY DEF Placed, Busy

LEMMA InformingStays ==
  ASSUME NEW b \in Actors, Informing(b), doing'[b] = doing[b],
         doing[b].at \in Taking =>
           /\ mp'[doing[b].mp].told = mp[doing[b].mp].told
           /\ mp'[doing[b].mp].info = mp[doing[b].mp].info
           /\ mp'[doing[b].mp].icallout => mp[doing[b].mp].icallout
  PROVE  Informing(b)'
  BY DEF Informing, Taking, Telling

-----------------------------------------------------------------------------
(* Run loop sources that are invalidated.                                  *)

\* An object that is not touched, in its fields or by who is at work on it.
LEMMA SoundStays ==
  ASSUME NEW o \in MachPorts, Sound(o),
         mp'[o].state = mp[o].state, mp'[o].told = mp[o].told,
         mp'[o].info = mp[o].info, mp'[o].source = mp[o].source,
         mp'[o].icallout => mp[o].icallout,
         o \in allMachPorts' <=> o \in allMachPorts,
         mp[o].state = "invalidating" =>
           \E a \in Actors : doing'[a].at \in Taking /\ doing'[a].mp = o,
         mp[o].state \in {"none", "deallocating"} =>
           Unreferenced(o)' /\ \A a \in Actors : doing'[a].mp # o,
         mp[o].source # Nothing =>
           rls'[mp[o].source].of = rls[mp[o].source].of
  PROVE  Sound(o)'
  BY DEF Sound

LEMMA CountsStay ==
  ASSUME InfoCounted, info' = info,
         \A o \in MachPorts : mp'[o].info = mp[o].info,
         \A a \in Actors :
           \/ doing'[a].at = doing[a].at /\ doing'[a].mp = doing[a].mp
           \/ /\ doing'[a].at \notin {"giving", "performing"}
              /\ doing[a].at \notin {"giving", "performing"}
  PROVE  InfoCounted'
<1>1. \A o \in MachPorts : InfoUsers(o)' = InfoUsers(o)
  BY DEF InfoUsers
<1> QED
  BY <1>1 DEF InfoCounted

LEMMA InvalidateSourceKeeps ==
  ASSUME MachInv, NEW u \in PortUsers, InvalidateSource(u)
  PROVE  MachInv'
<1> DEFINE s == holds[u].rls
<1>t. MachTypeOK /\ rls \in [PortSources -> Source]
  BY DEF MachInv, MachTypeOK
<1>1. /\ s # Nothing /\ rls' = [rls EXCEPT ![s].valid = FALSE]
      /\ UNCHANGED <<allMachPorts, mp, info, doing, holds>>
  BY DEF InvalidateSource
<1>2. s \in PortSources
  BY <1>1, UserFacts
<1> HIDE DEF s
<1>3. /\ rls' \in [PortSources -> Source]
      /\ \A t \in PortSources : /\ rls'[t].of = rls[t].of
                                /\ rls'[t].valid => rls[t].valid
  BY <1>t, <1>1, <1>2 DEF Source
<1>4. MachTypeOK'
  BY <1>t, <1>1, <1>3 DEF MachTypeOK
<1>5. \A q : Unreferenced(q) => Unreferenced(q)'
  BY <1>1, <1>3 DEF Unreferenced
<1>6. ASSUME NEW b \in Actors
      PROVE  Placed(b)' /\ Informing(b)'
  <2>1. Placed(b) /\ Informing(b) /\ doing[b] \in Doing
    BY ActorFacts
  <2>2. doing[b].at \in Ending => Unreferenced(doing[b].mp)'
    BY <1>1, <1>3, <2>1 DEF Placed, Unreferenced
  <2>3. doing[b].rls # Nothing => doing[b].rls \in PortSources
    BY <2>1 DEF Doing, SomeSource
  <2>4. doing[b].at \in Using => holds[b].rls \in PortSources
    BY <2>1 DEF Placed
  <2>5. b \in MachPorts /\ doing[b].at # "idle" =>
          mp[b].state \notin {"none", "ready"}
    BY <2>1 DEF Placed
  <2>6. Placed(b)'
    BY <1>1, <1>3, <2>1, <2>2, <2>3, <2>4, <2>5, PlacedStays
  <2>7. Informing(b)'
    BY <1>1, <2>1, InformingStays
  <2> QED
    BY <2>6, <2>7
<1>7. Alone'
  BY <1>1 DEF MachInv, Alone
<1>8. ASSUME NEW o \in MachPorts
      PROVE  Sound(o)'
  <2>1. Sound(o)
    BY DEF MachInv
  <2>2. mp[o].source # Nothing => mp[o].source \in PortSources
    BY <1>t DEF MachTypeOK, Object, SomeSource
  <2>3. mp[o].state = "invalidating" =>
          \E a \in Actors : doing[a].at \in Taking /\ doing[a].mp = o
    BY <2>1 DEF Sound
  <2>4. mp[o].state \in {"none", "deallocating"} =>
          Unreferenced(o)' /\ \A a \in Actors : doing[a].mp # o
    BY <2>1, <1>5 DEF Sound
  <2> QED
    BY <1>1, <1>3, <2>1, <2>2, <2>3, <2>4, SoundStays
<1>9. Sourced'
  <2>1. Sourced
    BY DEF MachInv
  <2>2. \A v \in PortUsers : holds[v].rls # Nothing => holds[v].rls \in PortSources
    BY UserFacts
  <2> QED
    BY <1>1, <1>3, <2>1, <2>2 DEF Sourced
<1>10. InfoCounted'
  BY <1>1, CountsStay DEF MachInv
<1> QED
  BY <1>4, <1>6, <1>7, <1>8, <1>9, <1>10 DEF MachInv

\* A source of which the last reference goes is freed, and its own reference
\* to its object with it; others to whom it belonged there are none.
LEMMA UnsourceKeeps ==
  ASSUME MachInv, NEW a \in Actors, Unsource(a)
  PROVE  MachInv'
<1> USE ConstantFacts
<1> DEFINE s == doing[a].rls
           o == doing[a].mp
<1>t. MachTypeOK /\ rls \in [PortSources -> Source]
  BY DEF MachInv, MachTypeOK
<1>a. /\ Placed(a) /\ Informing(a) /\ doing[a] \in Doing /\ doing[a].at = "source"
      /\ o \in MachPorts /\ doing[a].keeps /\ mp[o].state = "invalidating"
      /\ s # Nothing => s \in PortSources /\ rls[s].of = o
  <2>1. Placed(a) /\ Informing(a) /\ doing[a] \in Doing /\ doing[a].at = "source"
    BY ActorFacts DEF Unsource, InStep
  <2> QED
    BY <2>1 DEF Placed, Keeping, Taking, Telling, Doing, SomeSource
<1>1. UNCHANGED <<allMachPorts, mp, info, holds>>
  BY DEF Unsource
<1>2. /\ doing' \in [Actors -> Doing]
      /\ doing'[a].at = "giveUp" /\ doing'[a].rls = Nothing
      /\ doing'[a].mp = o /\ doing'[a].keeps = doing[a].keeps
      /\ \A b \in Actors : b # a => doing'[b] = doing[b]
  BY <1>t, <1>a DEF Unsource, MachTypeOK, Doing, Places, Keeping, Taking,
                    SomeSource
<1>3. /\ rls' \in [PortSources -> Source]
      /\ \A t \in PortSources : t # s => rls'[t] = rls[t]
      /\ s # Nothing => ~rls'[s].valid
      /\ s # Nothing /\ rls'[s].of # rls[s].of =>
           SourceCount(s) = 1 /\ rls'[s].of = Nothing
  BY <1>t, <1>a DEF Unsource, Source, NoSource, SomePort
<1>4. \A t \in PortSources : rls'[t].of # Nothing => rls'[t].of = rls[t].of
  BY <1>3
<1>5. s # Nothing /\ rls'[s].of # rls[s].of =>
        /\ \A v \in PortUsers : holds[v].rls # s
        /\ \A q \in MachPorts : mp[q].source # s
        /\ \A b \in Actors : doing[b].rls = s => b = a
  BY <1>t, <1>3, LastOfSource
<1>6. MachTypeOK'
  BY <1>t, <1>1, <1>2, <1>3 DEF MachTypeOK
<1>7. ASSUME NEW q \in MachPorts, Unreferenced(q)
      PROVE  Unreferenced(q)'
  BY <1>1, <1>2, <1>4, <1>7 DEF Unreferenced
<1>8. \A v \in PortUsers : holds[v].rls # Nothing =>
        rls'[holds[v].rls].of = rls[holds[v].rls].of
  BY <1>3, <1>5, UserFacts
<1>9. ASSUME NEW b \in Actors
      PROVE  Placed(b)' /\ Informing(b)'
  <2>1. CASE b = a
    <3>1. a \in MachPorts => o = a
      BY <1>a DEF Placed
    <3>2. Placed(a)'
      BY <1>1, <1>2, <1>a, <3>1
      DEF Placed, Keeping, Taking, Telling, Ending, Using
    <3>3. Informing(a)'
      BY <1>1, <1>2, <1>a DEF Informing, Telling
    <3> QED
      BY <2>1, <3>2, <3>3
  <2>2. CASE b # a
    <3>1. Placed(b) /\ Informing(b) /\ doing[b] \in Doing /\ doing'[b] = doing[b]
      BY <2>2, <1>2, ActorFacts
    <3>2. doing[b].at \in Ending => Unreferenced(doing[b].mp)'
      <4>1. ASSUME doing[b].at \in Ending
            PROVE  doing[b].mp \in MachPorts /\ Unreferenced(doing[b].mp)
        BY <3>1, <4>1 DEF Placed, Ending
      <4>2. doing'[b].mp = doing[b].mp
        BY <3>1
      <4> QED
        BY <4>1, <4>2, <1>7 DEF Unreferenced
    <3>3. doing[b].rls # Nothing => rls'[doing[b].rls].of = rls[doing[b].rls].of
      BY <3>1, <2>2, <1>3, <1>5 DEF Doing, SomeSource
    <3>4. doing[b].at \in Using => rls'[holds[b].rls].of = rls[holds[b].rls].of
      BY <3>1, <1>8 DEF Placed
    <3>5. b \in MachPorts /\ doing[b].at # "idle" =>
            mp[b].state \notin {"none", "ready"}
      BY <3>1 DEF Placed
    <3>6. Placed(b)'
      BY <1>1, <3>1, <3>2, <3>3, <3>4, <3>5, PlacedStays
    <3>7. Informing(b)'
      BY <1>1, <3>1, InformingStays
    <3> QED
      BY <3>6, <3>7
  <2> QED
    BY <2>1, <2>2
<1>10. doing'[a].at \in Taking /\ doing[a].at \in Taking
  BY <1>2, <1>a DEF Taking, Telling
<1>11. Alone'
  <2>1. Alone
    BY DEF MachInv
  <2> QED
    BY <2>1, <1>2, <1>10 DEF Alone
<1>12. ASSUME NEW q \in MachPorts
      PROVE  Sound(q)'
  <2>1. Sound(q)
    BY DEF MachInv
  <2>2. mp[q].source # Nothing => rls'[mp[q].source].of = rls[mp[q].source].of
    BY <1>t, <1>3, <1>5 DEF MachTypeOK, Object, SomeSource
  <2>3. mp[q].state = "invalidating" =>
          \E b \in Actors : doing'[b].at \in Taking /\ doing'[b].mp = q
    BY <2>1, <1>2, <1>10 DEF Sound
  <2>4. mp[q].state \in {"none", "deallocating"} =>
          Unreferenced(q)' /\ \A b \in Actors : doing'[b].mp # q
    BY <2>1, <1>2, <1>7 DEF Sound
  <2> QED
    BY <1>1, <2>1, <2>2, <2>3, <2>4, SoundStays
<1>13. Sourced'
  <2>1. Sourced
    BY DEF MachInv
  <2>2. \A t \in PortSources : rls'[t].valid => t # s /\ rls[t].valid
    BY <1>3
  <2>3. \A b \in Actors : doing[b].rls # s => doing'[b].rls = doing[b].rls
    BY <1>2
  <2> QED
    BY <1>1, <1>8, <2>1, <2>2, <2>3 DEF Sourced
<1>14. InfoCounted'
  <2>1. \A b \in Actors :
          \/ doing'[b].at = doing[b].at /\ doing'[b].mp = doing[b].mp
          \/ /\ doing'[b].at \notin {"giving", "performing"}
             /\ doing[b].at \notin {"giving", "performing"}
    BY <1>2, <1>a
  <2> QED
    BY <1>1, <2>1, CountsStay DEF MachInv
<1> QED
  BY <1>6, <1>9, <1>11, <1>12, <1>13, <1>14 DEF MachInv

-----------------------------------------------------------------------------
(* References to the info.                                                 *)

LEMMA InfoUsersFinite ==
  \A o : IsFiniteSet(InfoUsers(o)) /\ Cardinality(InfoUsers(o)) \in Nat
<1>1. \A o : InfoUsers(o) \subseteq Actors
  BY DEF InfoUsers
<1> QED
  BY <1>1, Finite, FS_Subset, FS_CardinalityType

\* An actor takes a reference to the info of an object, or gives one up.
LEMMA InfoUserComes ==
  ASSUME NEW a \in Actors, NEW o, doing'[a].mp = o, doing[a].mp = o,
         doing'[a].at \in {"giving", "performing"},
         doing[a].at \notin {"giving", "performing"},
         \A b \in Actors : b # a => doing'[b] = doing[b]
  PROVE  /\ Cardinality(InfoUsers(o)') = Cardinality(InfoUsers(o)) + 1
         /\ \A q : q # o => InfoUsers(q)' = InfoUsers(q)
<1>1. InfoUsers(o)' = InfoUsers(o) \cup {a} /\ a \notin InfoUsers(o)
  BY DEF InfoUsers
<1>2. Cardinality(InfoUsers(o) \cup {a}) = Cardinality(InfoUsers(o)) + 1
  BY <1>1, InfoUsersFinite, FS_AddElement
<1>3. \A q : q # o => InfoUsers(q)' = InfoUsers(q)
  BY DEF InfoUsers
<1> QED
  BY <1>1, <1>2, <1>3

LEMMA InfoUserGoes ==
  ASSUME NEW a \in Actors, NEW o, doing[a].mp = o,
         doing[a].at \in {"giving", "performing"},
         doing'[a].at \notin {"giving", "performing"},
         \A b \in Actors : b # a => doing'[b] = doing[b]
  PROVE  /\ Cardinality(InfoUsers(o)') = Cardinality(InfoUsers(o)) - 1
         /\ Cardinality(InfoUsers(o)) > 0
         /\ \A q : q # o => InfoUsers(q)' = InfoUsers(q)
<1>1. InfoUsers(o)' = InfoUsers(o) \ {a} /\ a \in InfoUsers(o)
  BY DEF InfoUsers
<1>2. Cardinality(InfoUsers(o) \ {a}) = Cardinality(InfoUsers(o)) - 1
  BY <1>1, InfoUsersFinite, FS_RemoveElement
<1>3. Cardinality(InfoUsers(o)) # 0
  BY <1>1, InfoUsersFinite, FS_EmptySet
<1>4. \A q : q # o => InfoUsers(q)' = InfoUsers(q)
  BY DEF InfoUsers
<1> QED
  BY <1>1, <1>2, <1>3, <1>4, InfoUsersFinite

LEMMA CountMoves ==
  ASSUME MachInv, NEW o \in MachPorts, info' \in [MachPorts -> Int],
         NEW c \in Int, NEW i \in Int, NEW d \in Int,
         info'[o] = info[o] + i,
         \A q \in MachPorts : q # o => info'[q] = info[q],
         (IF mp'[o].info THEN 1 ELSE 0) = (IF mp[o].info THEN 1 ELSE 0) + d,
         \A q \in MachPorts : q # o => mp'[q].info = mp[q].info,
         Cardinality(InfoUsers(o)') = Cardinality(InfoUsers(o)) + c,
         \A q : q # o => InfoUsers(q)' = InfoUsers(q),
         i = c + d
  PROVE  InfoCounted'
<1>1. InfoCounted /\ info \in [MachPorts -> Nat]
  BY DEF MachInv, MachTypeOK
<1>2. info'[o] = (IF mp'[o].info THEN 1 ELSE 0) + Cardinality(InfoUsers(o)')
  <2> DEFINE x == IF mp[o].info THEN 1 ELSE 0
             n == Cardinality(InfoUsers(o))
  <2>1. info[o] = x + n /\ x \in Int /\ n \in Int
    BY <1>1, InfoUsersFinite DEF InfoCounted
  <2>2. info'[o] = x + d + (n + c)
    BY <2>1
  <2> QED
    BY <2>2
<1>3. \A q \in MachPorts : q # o =>
        info'[q] = (IF mp'[q].info THEN 1 ELSE 0) + Cardinality(InfoUsers(q)')
  BY <1>1 DEF InfoCounted
<1> QED
  BY <1>2, <1>3 DEF InfoCounted

LEMMA PerformKeeps ==
  ASSUME MachInv, NEW u \in PortUsers, Perform(u)
  PROVE  MachInv'
<1> USE ConstantFacts
<1>0. doing[u].at = "perform" /\ doing[u].mp \in MachPorts
  BY ActorFacts DEF Perform, InStep
<1> PICK o \in MachPorts : o = doing[u].mp
  BY <1>0
<1>1. CASE ~IsReady(o)
  BY <1>1, PerformNotReadyKeeps
<1>2. CASE IsReady(o)
  <2>t. MachTypeOK /\ info \in [MachPorts -> Nat]
    BY DEF MachInv, MachTypeOK
  <2>p. "performing" \in Places
    BY DEF Places, Using
  <2>1. /\ doing[u].at = "perform" /\ info' = [info EXCEPT ![o] = @ + 1]
        /\ Go(u, "performing") /\ UNCHANGED <<allMachPorts, mp, rls, holds>>
    BY <1>2 DEF Perform, InStep
  <2>2. Placed(u) /\ o \in MachPorts /\ mp[o].state = "ready"
    BY <1>2, <2>1, ActorFacts DEF IsReady
  <2>3. /\ doing' \in [Actors -> Doing]
        /\ doing'[u].at = "performing" /\ doing'[u].mp = o
        /\ doing'[u].rls = doing[u].rls /\ doing'[u].keeps = doing[u].keeps
        /\ \A b \in Actors : b # u => doing'[b] = doing[b]
    BY <2>t, <2>p, <2>1, GoMoves
  <2>4. MachTypeOK'
    BY <2>t, <2>1, <2>2, <2>3 DEF MachTypeOK
  <2>5. Placed(u)' /\ Informing(u)'
    BY <2>1, <2>2, <2>3
    DEF Placed, Informing, Keeping, Taking, Telling, Ending, Using
  <2>6. doing'[u].at \notin Busy /\ doing[u].at \notin Busy
    BY <2>1, <2>3 DEF Busy, Taking, Telling, Ending
  <2>7. \A q \in MachPorts : Unreferenced(q) =>
          /\ doing'[u].mp = q => ~doing'[u].keeps
          /\ holds'[u].mp # q
    BY <2>1, <2>3 DEF Unreferenced
  <2>8. holds'[u].rls # Nothing => rls[holds'[u].rls].of # Nothing
    BY <2>1, UserFacts
  <2>9. InfoCounted'
    <3>1. /\ Cardinality(InfoUsers(o)') = Cardinality(InfoUsers(o)) + 1
          /\ \A q : q # o => InfoUsers(q)' = InfoUsers(q)
      <4>1. /\ doing'[u].mp = o
            /\ doing'[u].at \in {"giving", "performing"}
            /\ doing[u].at \notin {"giving", "performing"}
        BY <2>1, <2>3
      <4> QED
        BY <2>3, <4>1, InfoUserComes
    <3>2. /\ info'[o] = info[o] + 1 /\ info' \in [MachPorts -> Int]
          /\ \A q \in MachPorts : q # o => info'[q] = info[q]
      BY <2>t, <2>1, <2>2
    <3>3. (IF mp'[o].info THEN 1 ELSE 0) = (IF mp[o].info THEN 1 ELSE 0) + 0
      BY <2>1
    <3> QED
      BY <2>1, <2>2, <3>1, <3>2, <3>3, CountMoves
  <2>10. mp[o].state \notin {"none", "deallocating"}
    BY <2>2
  <2> QED
    BY <2>1, <2>2, <2>3, <2>4, <2>5, <2>6, <2>7, <2>8, <2>9, <2>10,
       MoveWithInfoKeeps
<1> QED
  BY <1>1, <1>2

LEMMA PerformedKeeps ==
  ASSUME MachInv, NEW u \in PortUsers, Performed(u)
  PROVE  MachInv'
<1> USE ConstantFacts
<1>0. doing[u].at = "performing" /\ doing[u].mp \in MachPorts
  BY ActorFacts DEF Performed, InStep
<1> PICK o \in MachPorts : o = doing[u].mp
  BY <1>0
<1>t. MachTypeOK /\ info \in [MachPorts -> Nat] /\ InfoCounted
  BY DEF MachInv, MachTypeOK
<1>1. /\ doing[u].at = "performing" /\ info' = [info EXCEPT ![o] = @ - 1]
      /\ Stop(u) /\ UNCHANGED <<allMachPorts, mp, rls, holds>>
  BY DEF Performed, InStep
<1>2. Placed(u) /\ o \in MachPorts /\ doing[u].rls = Nothing
  BY <1>1, ActorFacts DEF Placed, Telling
<1>3. /\ doing'[u] = Resting /\ doing' \in [Actors -> Doing]
      /\ \A b \in Actors : b # u => doing'[b] = doing[b]
  BY <1>t, <1>1, RestingFacts, DoingMoves DEF Stop
<1>4. /\ doing'[u].at = "idle" /\ doing'[u].mp = Nothing
      /\ doing'[u].rls = Nothing /\ ~doing'[u].keeps
      /\ doing'[u].keeps \in BOOLEAN
  BY <1>3, RestingFacts DEF Doing
<1>5. /\ Cardinality(InfoUsers(o)') = Cardinality(InfoUsers(o)) + (-1)
      /\ Cardinality(InfoUsers(o)) > 0
      /\ \A q : q # o => InfoUsers(q)' = InfoUsers(q)
  <2>1. /\ doing[u].mp = o
        /\ doing[u].at \in {"giving", "performing"}
        /\ doing'[u].at \notin {"giving", "performing"}
    BY <1>1, <1>4
  <2>2. /\ Cardinality(InfoUsers(o)') = Cardinality(InfoUsers(o)) - 1
        /\ Cardinality(InfoUsers(o)) > 0
        /\ \A q : q # o => InfoUsers(q)' = InfoUsers(q)
    BY <1>3, <2>1, InfoUserGoes
  <2> QED
    BY <2>2, InfoUsersFinite
<1>6. info[o] > 0
  BY <1>t, <1>2, <1>5, InfoUsersFinite DEF InfoCounted
<1>7. MachTypeOK'
  BY <1>t, <1>1, <1>2, <1>3, <1>6 DEF MachTypeOK
<1>8. Placed(u)' /\ Informing(u)'
  BY <1>4 DEF Placed, Informing, Keeping, Taking, Telling, Ending, Using
<1>9. doing'[u].at \notin Busy /\ doing[u].at \notin Busy
  BY <1>1, <1>4 DEF Busy, Taking, Telling, Ending
<1>10. \A q \in MachPorts : Unreferenced(q) => holds'[u].mp # q
  BY <1>1 DEF Unreferenced
<1>11. holds'[u].rls # Nothing => rls[holds'[u].rls].of # Nothing
  BY <1>1, UserFacts
<1>12. InfoCounted'
  <2>1. /\ info'[o] = info[o] + (-1) /\ info' \in [MachPorts -> Int]
        /\ \A q \in MachPorts : q # o => info'[q] = info[q]
    BY <1>t, <1>1, <1>2
  <2>2. (IF mp'[o].info THEN 1 ELSE 0) = (IF mp[o].info THEN 1 ELSE 0) + 0
    BY <1>1
  <2> QED
    BY <1>1, <1>2, <1>5, <2>1, <2>2, CountMoves
<1> QED
  BY <1>1, <1>2, <1>3, <1>4, <1>7, <1>8, <1>9, <1>10, <1>11, <1>12,
     MoveWithInfoKeeps

LEMMA GiveUpInfoKeeps ==
  ASSUME MachInv, NEW a \in Actors, GiveUpInfo(a)
  PROVE  MachInv'
<1> USE ConstantFacts
<1>0. doing[a].at = "giveUp" /\ doing[a].mp \in MachPorts
  BY ActorFacts DEF GiveUpInfo, InStep
<1> PICK o \in MachPorts : o = doing[a].mp
  BY <1>0
<1>t. MachTypeOK /\ mp \in [MachPorts -> Object] /\ info \in [MachPorts -> Nat]
  BY DEF MachInv, MachTypeOK
<1>p. "giving" \in Places
  BY DEF Places, Keeping, Taking
<1>1. /\ mp' = [mp EXCEPT ![o].info = FALSE] /\ Go(a, "giving")
      /\ UNCHANGED <<allMachPorts, info, rls, holds>>
  BY DEF GiveUpInfo
<1>2. Placed(a) /\ Informing(a) /\ mp[o].info /\ doing[a].rls = Nothing
  BY <1>0, ActorFacts DEF Informing, Placed, Telling
<1>3. /\ doing' \in [Actors -> Doing]
      /\ doing'[a].at = "giving" /\ doing'[a].mp = o
      /\ doing'[a].rls = Nothing /\ doing'[a].keeps = doing[a].keeps
      /\ \A b \in Actors : b # a => doing'[b] = doing[b]
  BY <1>t, <1>p, <1>1, <1>2, GoMoves
<1>4. /\ mp' \in [MachPorts -> Object]
      /\ \A q \in MachPorts :
           /\ mp'[q].state = mp[q].state /\ mp'[q].source = mp[q].source
           /\ mp'[q].told = mp[q].told /\ mp'[q].icallout = mp[q].icallout
           /\ q # o => mp'[q].info = mp[q].info
      /\ ~mp'[o].info
  <2> DEFINE no == FALSE
  <2>1. no \in BOOLEAN /\ ~no
    OBVIOUS
  <2>2. mp' = [mp EXCEPT ![o].info = no]
    BY <1>1
  <2> HIDE DEF no
  <2> QED
    BY <1>t, <2>1, <2>2 DEF Object
<1>5. MachTypeOK'
  BY <1>t, <1>1, <1>3, <1>4 DEF MachTypeOK
<1>6. doing[a].at \in Taking /\ doing'[a].at \in Taking
  BY <1>0, <1>3 DEF Taking
<1>7. ASSUME NEW q, Unreferenced(q)
      PROVE  Unreferenced(q)'
  BY <1>1, <1>3, <1>7 DEF Unreferenced
<1>8. ASSUME NEW b \in Actors
      PROVE  Placed(b)' /\ Informing(b)'
  <2>1. CASE b = a
    BY <1>0, <1>1, <1>2, <1>3, <1>4, <2>1
    DEF Placed, Informing, Keeping, Taking, Telling, Ending, Using
  <2>2. CASE b # a
    <3>1. Placed(b) /\ Informing(b) /\ doing'[b] = doing[b]
      BY <2>2, <1>3, ActorFacts
    <3>2. doing[b].at \in Busy => doing[b].mp \in MachPorts /\ doing[b].mp # o
      BY <2>2, <3>1, <1>6 DEF MachInv, Alone, Busy, Placed, Taking, Telling, Ending
    <3>3. doing[b].at \in Ending => Unreferenced(doing[b].mp)'
      <4>1. doing[b].at \in Ending => Unreferenced(doing[b].mp)
        BY <3>1 DEF Placed
      <4>2. doing'[b].mp = doing[b].mp
        BY <3>1
      <4> QED
        BY <4>1, <4>2, <1>7 DEF Unreferenced
    <3>4. b \in MachPorts /\ doing[b].at # "idle" =>
            mp'[b].state \notin {"none", "ready"}
      BY <1>4, <3>1 DEF Placed
    <3>5. Placed(b)'
      BY <1>1, <1>4, <3>1, <3>2, <3>3, <3>4, PlacedStays
    <3>6. Informing(b)'
      BY <1>4, <3>1, <3>2, InformingStays DEF Busy
    <3> QED
      BY <3>5, <3>6
  <2> QED
    BY <2>1, <2>2
<1>9. Alone'
  <2>1. Alone
    BY DEF MachInv
  <2> QED
    BY <1>3, <1>6, <2>1 DEF Alone
<1>10. ASSUME NEW q \in MachPorts
       PROVE  Sound(q)'
  <2>1. Sound(q)
    BY DEF MachInv
  <2>2. mp[q].state = "invalidating" =>
          \E b \in Actors : doing'[b].at \in Taking /\ doing'[b].mp = q
    BY <1>3, <1>6, <2>1 DEF Sound
  <2>3. mp[q].state \in {"none", "deallocating"} =>
          Unreferenced(q)' /\ \A b \in Actors : doing'[b].mp # q
    BY <1>3, <1>7, <2>1 DEF Sound
  <2>4. mp[o].state = "invalidating"
    BY <1>2, <1>6 DEF Placed
  <2> QED
    BY <1>1, <1>4, <2>1, <2>2, <2>3, <2>4 DEF Sound
<1>11. Sourced'
  <2>1. Sourced
    BY DEF MachInv
  <2>2. \A b \in Actors : doing'[b].rls = doing[b].rls
    BY <1>2, <1>3
  <2> QED
    BY <1>1, <1>4, <2>1, <2>2 DEF Sourced
<1>12. InfoCounted'
  <2>1. /\ Cardinality(InfoUsers(o)') = Cardinality(InfoUsers(o)) + 1
        /\ \A q : q # o => InfoUsers(q)' = InfoUsers(q)
    BY <1>0, <1>3, InfoUserComes
  <2>2. info'[o] = info[o] + 0 /\ info' \in [MachPorts -> Int]
        /\ \A q \in MachPorts : q # o => info'[q] = info[q]
    BY <1>t, <1>1
  <2>3. (IF mp'[o].info THEN 1 ELSE 0) = (IF mp[o].info THEN 1 ELSE 0) + (-1)
    BY <1>2, <1>4
  <2> DEFINE less == -1
             none == 0
  <2>4. less \in Int /\ none \in Int /\ none = 1 + less
    OBVIOUS
  <2>5. (IF mp'[o].info THEN 1 ELSE 0) = (IF mp[o].info THEN 1 ELSE 0) + less
    BY <2>3
  <2>6. info'[o] = info[o] + none
    BY <2>2
  <2>7. \A q \in MachPorts : q # o => mp'[q].info = mp[q].info
    BY <1>4
  <2> DEFINE more == 1
  <2>8. more \in Int /\ none = more + less
    BY <2>4
  <2>9. Cardinality(InfoUsers(o)') = Cardinality(InfoUsers(o)) + more
    BY <2>1
  <2> HIDE DEF less, none, more
  <2> QED
    BY <2>1, <2>2, <2>4, <2>5, <2>6, <2>7, <2>8, <2>9, CountMoves
<1> QED
  BY <1>5, <1>8, <1>9, <1>10, <1>11, <1>12 DEF MachInv

LEMMA InvalidatedKeeps ==
  ASSUME MachInv, NEW a \in Actors, Invalidated(a)
  PROVE  MachInv'
<1> USE ConstantFacts
<1>0. doing[a].at = "giving" /\ doing[a].mp \in MachPorts
  BY ActorFacts DEF Invalidated, InStep
<1> PICK o \in MachPorts : o = doing[a].mp
  BY <1>0
<1>t. /\ MachTypeOK /\ mp \in [MachPorts -> Object]
      /\ info \in [MachPorts -> Nat] /\ InfoCounted
  BY DEF MachInv, MachTypeOK
<1>p. "release" \in Places
  BY DEF Places, Keeping
<1>2. /\ Placed(a) /\ Informing(a) /\ ~mp[o].info /\ doing[a].rls = Nothing
      /\ doing[a].keeps /\ mp[o].state = "invalidating"
      /\ mp[o].icallout => mp[o].told = 1
  BY <1>0, ActorFacts DEF Informing, Placed, Telling, Keeping, Taking
<1>1. /\ info' = [info EXCEPT ![o] = @ - 1]
      /\ mp' = [mp EXCEPT ![o].state = "invalid"] /\ Go(a, "release")
      /\ UNCHANGED <<allMachPorts, rls, holds>>
  BY <1>2 DEF Invalidated
<1>3. /\ doing' \in [Actors -> Doing]
      /\ doing'[a].at = "release" /\ doing'[a].mp = o
      /\ doing'[a].rls = Nothing /\ doing'[a].keeps = doing[a].keeps
      /\ \A b \in Actors : b # a => doing'[b] = doing[b]
  BY <1>t, <1>p, <1>1, <1>2, GoMoves
<1>4. /\ mp' \in [MachPorts -> Object]
      /\ \A q \in MachPorts :
           /\ q # o => mp'[q].state = mp[q].state
           /\ mp'[q].source = mp[q].source
           /\ mp'[q].told = mp[q].told /\ mp'[q].icallout = mp[q].icallout
           /\ mp'[q].info = mp[q].info
      /\ mp'[o].state = "invalid"
  BY <1>t, <1>1 DEF Object
<1>5. /\ Cardinality(InfoUsers(o)') = Cardinality(InfoUsers(o)) + (-1)
      /\ info[o] > 0
      /\ \A q : q # o => InfoUsers(q)' = InfoUsers(q)
  <2>1. doing'[a].at \notin {"giving", "performing"}
    BY <1>3
  <2>2. /\ Cardinality(InfoUsers(o)') = Cardinality(InfoUsers(o)) - 1
        /\ Cardinality(InfoUsers(o)) > 0
        /\ \A q : q # o => InfoUsers(q)' = InfoUsers(q)
    BY <1>0, <1>3, <2>1, InfoUserGoes
  <2> QED
    BY <1>t, <2>2, InfoUsersFinite DEF InfoCounted
<1>6. /\ info' \in [MachPorts -> Nat] /\ info'[o] = info[o] + (-1)
      /\ \A q \in MachPorts : q # o => info'[q] = info[q]
  BY <1>t, <1>1, <1>5
<1>7. MachTypeOK'
  BY <1>t, <1>1, <1>3, <1>4, <1>6 DEF MachTypeOK
<1>8. doing[a].at \in Taking /\ doing'[a].at \notin Busy
  BY <1>0, <1>3 DEF Taking, Busy, Telling, Ending
<1>9. ASSUME NEW q, Unreferenced(q)
      PROVE  Unreferenced(q)'
  BY <1>1, <1>3, <1>9 DEF Unreferenced
<1>10. ASSUME NEW b \in Actors, b # a, doing[b].at \in Busy
       PROVE  doing[b].mp \in MachPorts /\ doing[b].mp # o
  <2>1. doing[b].mp \in MachPorts
    BY <1>10, ActorFacts DEF Busy, Placed, Taking, Telling, Ending
  <2> QED
    BY <1>8, <1>10, <2>1 DEF MachInv, Alone, Busy
<1>11. ASSUME NEW b \in Actors
       PROVE  Placed(b)' /\ Informing(b)'
  <2>1. CASE b = a
    <3>1. a \in MachPorts => o = a
      BY <1>0, <1>2 DEF Placed
    <3>2. Placed(a)'
      BY <1>2, <1>3, <1>4, <3>1
      DEF Placed, Keeping, Taking, Telling, Ending, Using
    <3>3. Informing(a)'
      BY <1>3 DEF Informing, Telling
    <3> QED
      BY <2>1, <3>2, <3>3
  <2>2. CASE b # a
    <3>1. Placed(b) /\ Informing(b) /\ doing'[b] = doing[b]
      BY <2>2, <1>3, ActorFacts
    <3>2. doing[b].at \in Busy => doing[b].mp \in MachPorts /\ doing[b].mp # o
      BY <2>2, <1>10
    <3>3. doing[b].at \in Ending => Unreferenced(doing[b].mp)'
      <4>1. doing[b].at \in Ending => Unreferenced(doing[b].mp)
        BY <3>1 DEF Placed
      <4>2. doing'[b].mp = doing[b].mp
        BY <3>1
      <4> QED
        BY <4>1, <4>2, <1>9 DEF Unreferenced
    <3>4. b \in MachPorts /\ doing[b].at # "idle" =>
            mp'[b].state \notin {"none", "ready"}
      BY <1>4, <3>1 DEF Placed
    <3>5. Placed(b)'
      BY <1>1, <1>4, <3>1, <3>2, <3>3, <3>4, PlacedStays
    <3>6. Informing(b)'
      BY <1>4, <3>1, <3>2, InformingStays DEF Busy
    <3> QED
      BY <3>5, <3>6
  <2> QED
    BY <2>1, <2>2
<1>12. Alone'
  <2>1. Alone
    BY DEF MachInv
  <2> QED
    BY <1>3, <1>8, <2>1 DEF Alone, Busy
<1>13. ASSUME NEW q \in MachPorts
       PROVE  Sound(q)'
  <2>1. Sound(q)
    BY DEF MachInv
  <2>2. CASE q = o
    BY <1>1, <1>2, <1>4, <2>1, <2>2 DEF Sound
  <2>3. CASE q # o
    <3>1. mp[q].state = "invalidating" =>
            \E b \in Actors : doing'[b].at \in Taking /\ doing'[b].mp = q
      BY <1>3, <2>1, <2>3 DEF Sound
    <3>2. mp[q].state \in {"none", "deallocating"} =>
            Unreferenced(q)' /\ \A b \in Actors : doing'[b].mp # q
      BY <1>3, <1>9, <2>1, <2>3 DEF Sound
    <3> QED
      BY <1>1, <1>4, <2>1, <2>3, <3>1, <3>2, SoundStays
  <2> QED
    BY <2>2, <2>3
<1>14. Sourced'
  <2>1. Sourced
    BY DEF MachInv
  <2>2. \A b \in Actors : doing'[b].rls = doing[b].rls
    BY <1>2, <1>3
  <2> QED
    BY <1>1, <1>4, <2>1, <2>2 DEF Sourced
<1>15. InfoCounted'
  <2>1. (IF mp'[o].info THEN 1 ELSE 0) = (IF mp[o].info THEN 1 ELSE 0) + 0
    BY <1>4
  <2>2. info' \in [MachPorts -> Int]
    BY <1>6
  <2> QED
    BY <1>4, <1>5, <1>6, <2>1, <2>2, CountMoves
<1> QED
  BY <1>7, <1>11, <1>12, <1>13, <1>14, <1>15 DEF MachInv

-----------------------------------------------------------------------------
(* Objects that are freed, and made again in the same memory.              *)

\* Nobody is at work on an object without references, but who frees it.
LEMMA UnreferencedIsLeft ==
  ASSUME MachInv, NEW o \in MachPorts, Unreferenced(o), NEW b \in Actors,
         doing[b].mp = o
  PROVE  doing[b].at \in Ending
<1>1. Placed(b) /\ doing[b].at \in Places
  BY ActorFacts
<1>2. doing[b].at \notin Keeping
  BY <1>1 DEF Placed, Unreferenced
<1>3. doing[b].at # "create"
  BY <1>1 DEF Placed, Unreferenced
<1>4. doing[b].at \notin Using
  BY <1>1 DEF Placed, Unreferenced
<1>5. doing[b].at \notin {"idle", "make", "direct"}
  BY <1>1 DEF Placed
<1> QED
  BY <1>1, <1>2, <1>3, <1>4, <1>5 DEF Places

LEMMA HandOverKeeps ==
  ASSUME MachInv, NEW a \in Actors, HandOver(a)
  PROVE  MachInv'
<1> USE ConstantFacts
<1>0. doing[a].at = "handOver" /\ doing[a].mp \in MachPorts
  BY ActorFacts DEF HandOver, InStep
<1> PICK o \in MachPorts : o = doing[a].mp
  BY <1>0
<1>t. MachTypeOK /\ mp \in [MachPorts -> Object]
  BY DEF MachInv, MachTypeOK
<1>1. /\ mp' = [mp EXCEPT ![o].state = "deallocating"] /\ Stop(a)
      /\ UNCHANGED <<allMachPorts, info, rls, holds>>
  BY DEF HandOver
<1>2. /\ Placed(a) /\ mp[o].state = "invalid" /\ Unreferenced(o) /\ Sound(o)
      /\ doing[a].rls = Nothing
  BY <1>0, ActorFacts DEF Placed, Ending, Telling
<1>3. /\ doing'[a] = Resting /\ doing' \in [Actors -> Doing]
      /\ \A b \in Actors : b # a => doing'[b] = doing[b]
  BY <1>t, <1>1, RestingFacts, DoingMoves DEF Stop
<1>4. /\ doing'[a].at = "idle" /\ doing'[a].mp = Nothing
      /\ doing'[a].rls = Nothing /\ ~doing'[a].keeps
      /\ doing'[a].keeps \in BOOLEAN
  BY <1>3, RestingFacts DEF Doing
<1>5. /\ mp' \in [MachPorts -> Object]
      /\ \A q \in MachPorts :
           /\ q # o => mp'[q].state = mp[q].state
           /\ mp'[q].source = mp[q].source
           /\ mp'[q].told = mp[q].told /\ mp'[q].icallout = mp[q].icallout
           /\ mp'[q].info = mp[q].info
      /\ mp'[o].state = "deallocating"
  BY <1>t, <1>1 DEF Object
<1>6. MachTypeOK'
  BY <1>t, <1>1, <1>3, <1>5 DEF MachTypeOK
<1>7. ASSUME NEW q \in MachPorts, Unreferenced(q)
      PROVE  Unreferenced(q)'
  BY <1>1, <1>3, <1>4, <1>7 DEF Unreferenced
<1>8. ASSUME NEW b \in Actors, b # a
      PROVE  doing[b].mp # o
  <2> SUFFICES ASSUME doing[b].mp = o
               PROVE  FALSE
    OBVIOUS
  <2>1. doing[b].at \in Ending
    BY <1>2, UnreferencedIsLeft
  <2> QED
    BY <1>0, <1>8, <2>1 DEF MachInv, Alone, Ending
<1>9. doing'[a].at \notin Busy
  BY <1>4 DEF Busy, Taking, Telling, Ending
<1>10. ASSUME NEW b \in Actors
       PROVE  Placed(b)' /\ Informing(b)'
  <2>1. CASE b = a
    <3>1. Placed(a)'
      BY <1>4 DEF Placed, Keeping, Taking, Telling, Ending, Using
    <3>2. Informing(a)'
      BY <1>4 DEF Informing, Telling
    <3> QED
      BY <2>1, <3>1, <3>2
  <2>2. CASE b # a
    <3>1. Placed(b) /\ Informing(b) /\ doing'[b] = doing[b]
      BY <2>2, <1>3, ActorFacts
    <3>2. doing[b].at \in Busy => doing[b].mp \in MachPorts /\ doing[b].mp # o
      BY <2>2, <1>8, <3>1 DEF Busy, Placed, Taking, Telling, Ending
    <3>3. doing[b].at \in Ending => Unreferenced(doing[b].mp)'
      <4>1. doing[b].at \in Ending =>
              doing[b].mp \in MachPorts /\ Unreferenced(doing[b].mp)
        BY <3>1, <3>2 DEF Placed, Busy
      <4>2. doing'[b].mp = doing[b].mp
        BY <3>1
      <4> QED
        BY <4>1, <4>2, <1>7 DEF Unreferenced
    <3>4. b \in MachPorts /\ doing[b].at # "idle" =>
            mp'[b].state \notin {"none", "ready"}
      BY <1>5, <3>1 DEF Placed
    <3>5. Placed(b)'
      BY <1>1, <1>5, <3>1, <3>2, <3>3, <3>4, PlacedStays
    <3>6. Informing(b)'
      BY <1>5, <3>1, <3>2, InformingStays DEF Busy
    <3> QED
      BY <3>5, <3>6
  <2> QED
    BY <2>1, <2>2
<1>11. Alone'
  <2>1. Alone
    BY DEF MachInv
  <2> QED
    BY <1>3, <1>9, <2>1 DEF Alone, Busy
<1>12. ASSUME NEW q \in MachPorts
       PROVE  Sound(q)'
  <2>1. Sound(q)
    BY DEF MachInv
  <2>2. CASE q = o
    <3>1. Unreferenced(o)' /\ \A b \in Actors : doing'[b].mp # o
      BY <1>2, <1>3, <1>4, <1>7, <1>8
    <3> QED
      BY <1>1, <1>2, <1>5, <2>2, <3>1 DEF Sound
  <2>3. CASE q # o
    <3>1. mp[q].state = "invalidating" =>
            \E b \in Actors : doing'[b].at \in Taking /\ doing'[b].mp = q
      BY <1>3, <2>1, <2>3 DEF Sound
    <3>2. mp[q].state \in {"none", "deallocating"} =>
            Unreferenced(q)' /\ \A b \in Actors : doing'[b].mp # q
      BY <1>3, <1>4, <1>7, <2>1, <2>3 DEF Sound
    <3> QED
      BY <1>1, <1>5, <2>1, <2>3, <3>1, <3>2, SoundStays
  <2> QED
    BY <2>2, <2>3
<1>13. Sourced'
  <2>1. Sourced
    BY DEF MachInv
  <2>2. \A b \in Actors : doing'[b].rls = doing[b].rls
    BY <1>2, <1>3, <1>4
  <2> QED
    BY <1>1, <1>5, <2>1, <2>2 DEF Sourced
<1>14. InfoCounted'
  <2>1. \A b \in Actors :
          \/ doing'[b].at = doing[b].at /\ doing'[b].mp = doing[b].mp
          \/ /\ doing'[b].at \notin {"giving", "performing"}
             /\ doing[b].at \notin {"giving", "performing"}
    BY <1>0, <1>3, <1>4
  <2> QED
    BY <1>1, <1>5, <2>1, CountsStay DEF MachInv
<1> QED
  BY <1>6, <1>10, <1>11, <1>12, <1>13, <1>14 DEF MachInv

LEMMA UnusedFacts ==
  /\ Unused \in Object /\ Unused.state = "none" /\ Unused.source = Nothing
  /\ Unused.told = 0 /\ ~Unused.info
  BY DEF Unused, Object, SomeSource

\* Memory that is handed out again: nothing refers to it.
LEMMA DropRightsKeeps ==
  ASSUME MachInv, NEW o \in MachPorts, DropRights(o)
  PROVE  MachInv'
<1> USE ConstantFacts
<1>t. MachTypeOK /\ mp \in [MachPorts -> Object]
  BY DEF MachInv, MachTypeOK
<1>1. /\ mp[o].state = "deallocating" /\ mp' = [mp EXCEPT ![o] = Unused]
      /\ UNCHANGED <<allMachPorts, info, rls, doing, holds>>
  BY DEF DropRights
<1>2. /\ Sound(o) /\ Unreferenced(o) /\ ~mp[o].info /\ mp[o].source = Nothing
      /\ \A b \in Actors : doing[b].mp # o
  BY <1>1 DEF MachInv, Sound
<1>3. /\ mp' \in [MachPorts -> Object] /\ mp'[o] = Unused
      /\ \A q \in MachPorts : q # o => mp'[q] = mp[q]
  BY <1>t, <1>1, UnusedFacts
<1>4. MachTypeOK'
  BY <1>t, <1>1, <1>3 DEF MachTypeOK
<1>5. ASSUME NEW q, Unreferenced(q)
      PROVE  Unreferenced(q)'
  BY <1>1, <1>5 DEF Unreferenced
<1>6. ASSUME NEW b \in Actors
      PROVE  Placed(b)' /\ Informing(b)'
  <2>1. Placed(b) /\ Informing(b) /\ doing'[b] = doing[b] /\ doing[b].mp # o
    BY <1>1, <1>2, ActorFacts
  <2>2. doing[b].at \in Busy => doing[b].mp \in MachPorts
    BY <2>1 DEF Busy, Placed, Taking, Telling, Ending
  <2>3. doing[b].at \in Ending => Unreferenced(doing[b].mp)'
    BY <1>1, <2>1 DEF Placed, Unreferenced
  <2>4. b \in MachPorts /\ doing[b].at # "idle" =>
          mp'[b].state \notin {"none", "ready"}
    BY <1>3, <2>1 DEF Placed
  <2>5. Placed(b)'
    BY <1>1, <1>3, <2>1, <2>2, <2>3, <2>4, PlacedStays
  <2>6. Informing(b)'
    BY <1>3, <2>1, <2>2, InformingStays DEF Busy
  <2> QED
    BY <2>5, <2>6
<1>7. Alone'
  BY <1>1 DEF MachInv, Alone
<1>8. ASSUME NEW q \in MachPorts
      PROVE  Sound(q)'
  <2>1. Sound(q)
    BY DEF MachInv
  <2>2. CASE q = o
    BY <1>1, <1>2, <1>3, <1>5, <2>1, <2>2, UnusedFacts DEF Sound
  <2>3. CASE q # o
    <3>1. mp[q].state = "invalidating" =>
            \E b \in Actors : doing'[b].at \in Taking /\ doing'[b].mp = q
      BY <1>1, <2>1 DEF Sound
    <3>2. mp[q].state \in {"none", "deallocating"} =>
            Unreferenced(q)' /\ \A b \in Actors : doing'[b].mp # q
      BY <1>1, <1>5, <2>1 DEF Sound
    <3> QED
      BY <1>1, <1>3, <2>1, <2>3, <3>1, <3>2, SoundStays
  <2> QED
    BY <2>2, <2>3
<1>9. Sourced'
  <2>1. Sourced
    BY DEF MachInv
  <2>2. \A s \in PortSources, q \in MachPorts : mp[q].source = s =>
          mp'[q].source = s
    BY <1>2, <1>3
  <2> QED
    BY <1>1, <2>1, <2>2 DEF Sourced
<1>10. InfoCounted'
  <2>1. \A q \in MachPorts : mp'[q].info = mp[q].info
    <3>1. mp[o].info \in BOOLEAN /\ mp'[o].info \in BOOLEAN
      BY <1>t, <1>3 DEF Object
    <3>2. mp'[o].info = mp[o].info
      BY <1>2, <1>3, <3>1, UnusedFacts
    <3> QED
      BY <1>3, <3>2
  <2> QED
    BY <1>1, <2>1, CountsStay DEF MachInv
<1> QED
  BY <1>4, <1>6, <1>7, <1>8, <1>9, <1>10 DEF MachInv

LEMMA MakePortKeeps ==
  ASSUME MachInv, NEW u \in PortUsers, MakePort(u)
  PROVE  MachInv'
<1> USE ConstantFacts
<1>t. /\ MachTypeOK /\ mp \in [MachPorts -> Object]
      /\ info \in [MachPorts -> Nat] /\ doing[u] \in Doing
  BY ActorFacts DEF MachInv, MachTypeOK
<1>0. doing[u].at = "make" /\ doing[u].rls = Nothing /\ doing[u].mp = Nothing
  BY ActorFacts DEF MakePort, InStep, Placed, Telling
<1> DEFINE New(p) ==
      [Unused EXCEPT !.state = "ready", !.port = p, !.info = TRUE]
           Goes(o, p) ==
      [Resting EXCEPT !.at = IF p \in SendPorts THEN "watch" ELSE "check",
                      !.mp = o, !.keeps = TRUE]
<1> PICK p : p = doing[u].port
  OBVIOUS
<1>1. PICK o \in MachPorts :
        /\ mp[o].state = "none" /\ mp' = [mp EXCEPT ![o] = New(p)]
        /\ info' = [info EXCEPT ![o] = 1]
        /\ allMachPorts' = allMachPorts \cup {o}
        /\ doing' = [doing EXCEPT ![u] = Goes(o, p)]
        /\ UNCHANGED <<rls, holds>>
  <2> DEFINE free == {o \in MachPorts : mp[o].state = "none"}
             new  == CHOOSE o \in free : TRUE
  <2>1. free # {}
    BY DEF MakePort
  <2>2. new \in free
    BY <2>1
  <2>3. new \in MachPorts /\ mp[new].state = "none"
    BY <2>2
  <2>4. /\ mp' = [mp EXCEPT ![new] = New(p)]
        /\ info' = [info EXCEPT ![new] = 1]
        /\ allMachPorts' = allMachPorts \cup {new}
        /\ doing' = [doing EXCEPT ![u] = Goes(new, p)]
        /\ UNCHANGED <<rls, holds>>
    BY DEF MakePort
  <2> HIDE DEF new, New, Goes
  <2> QED
    BY <2>3, <2>4
<1>2. /\ Sound(o) /\ Unreferenced(o) /\ ~mp[o].info /\ mp[o].source = Nothing
      /\ \A b \in Actors : doing[b].mp # o
  BY <1>1 DEF MachInv, Sound
<1>p. p \in PortNames \cup {Nothing}
  BY <1>t DEF Doing
<1>3. /\ New(p) \in Object /\ New(p).state = "ready" /\ New(p).source = Nothing
      /\ New(p).told = 0 /\ New(p).info
  BY <1>p, UnusedFacts DEF Object
<1>4. /\ Goes(o, p) \in Doing /\ Goes(o, p).at \in {"watch", "check"}
      /\ Goes(o, p).mp = o /\ Goes(o, p).rls = Nothing /\ Goes(o, p).keeps
      /\ Goes(o, p).keeps \in BOOLEAN
  BY RestingFacts DEF Doing, Places, Keeping, SomePort
<1> HIDE DEF New, Goes
<1>5. /\ mp' \in [MachPorts -> Object] /\ mp'[o] = New(p)
      /\ \A q \in MachPorts : q # o => mp'[q] = mp[q]
  BY <1>t, <1>1, <1>3
<1>6. /\ doing'[u] = Goes(o, p) /\ doing' \in [Actors -> Doing]
      /\ \A b \in Actors : b # u => doing'[b] = doing[b]
  BY <1>t, <1>1, <1>4, DoingMoves
<1>7. MachTypeOK'
  BY <1>t, <1>1, <1>5, <1>6 DEF MachTypeOK
<1>8. ASSUME NEW q, q # o, Unreferenced(q)
      PROVE  Unreferenced(q)'
  BY <1>1, <1>4, <1>6, <1>8 DEF Unreferenced
<1>9. doing'[u].at \notin Busy /\ doing[u].at \notin Busy
  BY <1>0, <1>4, <1>6 DEF Busy, Taking, Telling, Ending
<1>10. ASSUME NEW b \in Actors
       PROVE  Placed(b)' /\ Informing(b)'
  <2>1. CASE b = u
    <3>1. doing'[u].at \in {"watch", "check"} /\ doing'[u].mp = o
          /\ doing'[u].rls = Nothing /\ doing'[u].keeps
          /\ doing'[u].keeps \in BOOLEAN
      BY <1>4, <1>6
    <3>2. Placed(u)'
      BY <3>1 DEF Placed, Keeping, Taking, Telling, Ending, Using
    <3>3. Informing(u)'
      BY <3>1 DEF Informing, Telling
    <3> QED
      BY <2>1, <3>2, <3>3
  <2>2. CASE b # u
    <3>1. Placed(b) /\ Informing(b) /\ doing'[b] = doing[b] /\ doing[b].mp # o
      BY <2>2, <1>2, <1>6, ActorFacts
    <3>2. doing[b].at \in Busy => doing[b].mp \in MachPorts
      BY <3>1 DEF Busy, Placed, Taking, Telling, Ending
    <3>3. doing[b].at \in Ending => Unreferenced(doing[b].mp)'
      <4>1. doing[b].at \in Ending => Unreferenced(doing[b].mp)
        BY <3>1 DEF Placed
      <4>2. doing'[b].mp = doing[b].mp /\ doing[b].mp # o
        BY <3>1
      <4> QED
        BY <4>1, <4>2, <1>8 DEF Unreferenced
    <3>4. b \in MachPorts /\ doing[b].at # "idle" =>
            mp'[b].state \notin {"none", "ready"}
      <4>1. b \in MachPorts /\ doing[b].at # "idle" =>
              b # o /\ mp[b].state \notin {"none", "ready"}
        BY <1>1, <3>1 DEF Placed
      <4> QED
        BY <4>1, <1>5
    <3>5. Placed(b)'
      BY <1>1, <1>5, <3>1, <3>2, <3>3, <3>4, PlacedStays
    <3>6. Informing(b)'
      BY <1>5, <3>1, <3>2, InformingStays DEF Busy
    <3> QED
      BY <3>5, <3>6
  <2> QED
    BY <2>1, <2>2
<1>11. Alone'
  <2>1. Alone
    BY DEF MachInv
  <2> QED
    BY <1>6, <1>9, <2>1 DEF Alone, Busy
<1>12. ASSUME NEW q \in MachPorts
       PROVE  Sound(q)'
  <2>1. Sound(q)
    BY DEF MachInv
  <2>2. CASE q = o
    BY <1>1, <1>3, <1>5, <2>2 DEF Sound
  <2>3. CASE q # o
    <3>1. mp[q].state = "invalidating" =>
            \E b \in Actors : doing'[b].at \in Taking /\ doing'[b].mp = q
      BY <1>6, <1>9, <2>1 DEF Sound, Busy
    <3>2. mp[q].state \in {"none", "deallocating"} =>
            Unreferenced(q)' /\ \A b \in Actors : doing'[b].mp # q
      BY <1>4, <1>6, <1>8, <2>1, <2>3 DEF Sound
    <3>3. q \in allMachPorts' <=> q \in allMachPorts
      BY <1>1, <2>3
    <3> QED
      BY <1>1, <1>5, <2>1, <2>3, <3>1, <3>2, <3>3, SoundStays
  <2> QED
    BY <2>2, <2>3
<1>13. Sourced'
  <2>1. Sourced
    BY DEF MachInv
  <2>2. \A s \in PortSources, q \in MachPorts : mp[q].source = s =>
          mp'[q].source = s
    BY <1>2, <1>5
  <2>3. \A b \in Actors : doing'[b].rls = doing[b].rls
    BY <1>0, <1>4, <1>6
  <2> QED
    BY <1>1, <2>1, <2>2, <2>3 DEF Sourced
<1>14. InfoCounted'
  <2>1. ASSUME NEW q \in MachPorts, q # o
        PROVE  InfoUsers(q)' = InfoUsers(q)
    <3>1. {doing'[u].at, doing[u].at} \cap {"giving", "performing"} = {}
      BY <1>0, <1>4, <1>6
    <3> QED
      BY <1>6, <3>1 DEF InfoUsers
  <2>2. InfoUsers(o)' = {}
    <3>1. doing'[u].at \notin {"giving", "performing"}
      BY <1>4, <1>6
    <3> QED
      BY <1>2, <1>6, <3>1 DEF InfoUsers
  <2>3. info'[o] = (IF mp'[o].info THEN 1 ELSE 0) + Cardinality(InfoUsers(o)')
    <3>1. Cardinality(InfoUsers(o)') = 0 /\ info'[o] = 1
      BY <2>2, <1>1, <1>t, FS_EmptySet
    <3>2. mp'[o].info
      BY <1>3, <1>5
    <3> QED
      BY <3>1, <3>2
  <2>4. InfoCounted
    BY DEF MachInv
  <2> QED
    BY <1>1, <1>5, <1>t, <2>1, <2>3, <2>4 DEF InfoCounted
<1> QED
  BY <1>7, <1>10, <1>11, <1>12, <1>13, <1>14 DEF MachInv

-----------------------------------------------------------------------------
(* Taking down.                                                            *)

LEMMA TakenDownFacts ==
  ASSUME NEW x \in Object
  PROVE  /\ TakenDown(x) \in Object
         /\ TakenDown(x).state = "invalidating" /\ TakenDown(x).source = Nothing
         /\ TakenDown(x).told = x.told /\ TakenDown(x).info = x.info
  BY DEF TakenDown, Object, SomeSource

\* Objects that are ready are taken down under their locks, each by an actor
\* that was at rest.
LEMMA TakeDownKeeps ==
  ASSUME MachInv, NEW D \in SUBSET MachPorts, NEW by \in [D -> Actors],
         \A o \in D : /\ mp[o].state = "ready" /\ doing[by[o]].at = "idle"
                      /\ by[o] \in MachPorts => by[o] = o,
         \A o, q \in D : by[o] = by[q] => o = q,
         allMachPorts' = allMachPorts \ D,
         \A o \in MachPorts :
           mp'[o] = IF o \in D THEN TakenDown(mp[o]) ELSE mp[o],
         mp' \in [MachPorts -> Object], doing' \in [Actors -> Doing],
         \A o \in D : /\ doing'[by[o]].at \in {"queued", "callback"}
                      /\ doing'[by[o]].mp = o /\ doing'[by[o]].keeps
                      /\ doing'[by[o]].rls = mp[o].source,
         \A b \in Actors : (\A o \in D : by[o] # b) => doing'[b] = doing[b],
         info' = info, rls' = rls, holds' = holds
  PROVE  MachInv'
<1> USE ConstantFacts
<1>t. MachTypeOK /\ mp \in [MachPorts -> Object]
  BY DEF MachInv, MachTypeOK
<1>1. MachTypeOK'
  BY <1>t DEF MachTypeOK
<1>2. \A o \in D :
        /\ o \in MachPorts /\ by[o] \in Actors /\ o \in allMachPorts
        /\ mp[o].told = 0 /\ mp[o].info
        /\ mp[o].source # Nothing => rls[mp[o].source].of = o
        /\ ~Unreferenced(o)
  BY DEF MachInv, Sound, Unreferenced
<1>3. \A o \in D :
        /\ mp'[o].state = "invalidating" /\ mp'[o].source = Nothing
        /\ mp'[o].told = 0 /\ mp'[o].info
  BY <1>2, <1>t, TakenDownFacts
<1>i. \A o \in MachPorts : mp'[o].info = mp[o].info
  BY <1>t, TakenDownFacts
<1>4. \A o \in MachPorts : o \notin D => mp'[o] = mp[o]
  OBVIOUS
<1>5. \A o \in D : doing[by[o]].rls = Nothing /\ doing[by[o]].at \notin Busy
  BY <1>2, IdleFacts
<1>6. ASSUME NEW b \in Actors
      PROVE  \/ \E o \in D : b = by[o]
             \/ (\A o \in D : b # by[o]) /\ doing'[b] = doing[b]
  OBVIOUS
<1>7. ASSUME NEW q, Unreferenced(q)
      PROVE  Unreferenced(q)'
  <2>1. q \notin D
    BY <1>2, <1>7
  <2>2. \A b \in Actors : doing'[b].mp = q => ~doing'[b].keeps
    <3> SUFFICES ASSUME NEW b \in Actors, doing'[b].mp = q
                 PROVE  ~doing'[b].keeps
      OBVIOUS
    <3>1. CASE \E o \in D : b = by[o]
      BY <3>1, <2>1
    <3>2. CASE doing'[b] = doing[b]
      BY <3>2, <1>7 DEF Unreferenced
    <3> QED
      BY <3>1, <3>2, <1>6
  <2> QED
    BY <1>7, <2>2 DEF Unreferenced
<1>8. ASSUME NEW b \in Actors, doing[b].at \in Busy
      PROVE  doing[b].mp \in MachPorts \ D
  <2>1. Placed(b) /\ doing[b].mp \in MachPorts
    BY <1>8, ActorFacts DEF Busy, Placed, Taking, Telling, Ending
  <2>2. mp[doing[b].mp].state # "ready"
    BY <1>8, <2>1 DEF Placed, Busy
  <2> QED
    BY <2>1, <2>2
<1>9. ASSUME NEW b \in Actors
      PROVE  Placed(b)' /\ Informing(b)'
  <2>1. ASSUME NEW o \in D, b = by[o]
        PROVE  Placed(b)' /\ Informing(b)'
    <3>1. /\ doing'[b].at \in {"queued", "callback"} /\ doing'[b].mp = o
          /\ doing'[b].keeps /\ doing'[b].keeps \in BOOLEAN
          /\ doing'[b].rls = mp[o].source /\ o \in MachPorts
          /\ b \in MachPorts => b = o
      BY <2>1 DEF Doing
    <3>2. /\ mp'[o].state = "invalidating"
          /\ mp[o].source # Nothing => rls'[mp[o].source].of = o
      BY <1>2, <1>3
    <3>3. Placed(b)'
      BY <3>1, <3>2 DEF Placed, Keeping, Taking, Telling, Ending, Using
    <3>4. Informing(b)'
      BY <1>3, <3>1 DEF Informing, Telling
    <3> QED
      BY <3>3, <3>4
  <2>2. ASSUME \A o \in D : b # by[o], doing'[b] = doing[b]
        PROVE  Placed(b)' /\ Informing(b)'
    <3>1. Placed(b) /\ Informing(b)
      BY ActorFacts
    <3>2. doing[b].at \in Busy => mp'[doing[b].mp] = mp[doing[b].mp]
      BY <1>4, <1>8
    <3>3. doing[b].at \in Ending => Unreferenced(doing[b].mp)'
      <4>1. doing[b].at \in Ending => Unreferenced(doing[b].mp)
        BY <3>1 DEF Placed
      <4>2. doing'[b].mp = doing[b].mp
        BY <2>2
      <4> QED
        BY <4>1, <4>2, <1>7 DEF Unreferenced
    <3>4. b \in MachPorts /\ doing[b].at # "idle" =>
            mp'[b].state \notin {"none", "ready"}
      <4>1. b \in MachPorts /\ doing[b].at # "idle" =>
              mp[b].state \notin {"none", "ready"}
        BY <3>1 DEF Placed
      <4> QED
        BY <4>1, <1>3, <1>4
    <3>5. Placed(b)'
      BY <2>2, <3>1, <3>2, <3>3, <3>4, PlacedStays
    <3>6. Informing(b)'
      BY <2>2, <3>1, <3>2, InformingStays DEF Busy
    <3> QED
      BY <3>5, <3>6
  <2> QED
    BY <1>6, <2>1, <2>2
<1>10. Alone'
  <2> SUFFICES ASSUME NEW b \in Actors, NEW c \in Actors,
                      doing'[b].at \in Busy, doing'[c].at \in Busy,
                      doing'[b].mp = doing'[c].mp
               PROVE  b = c
    BY DEF Alone, Busy
  <2>1. ASSUME NEW o \in D, b = by[o]
        PROVE  b = c
    <3>1. CASE \E q \in D : c = by[q]
      BY <2>1, <3>1
    <3>2. CASE doing'[c] = doing[c]
      BY <2>1, <3>2, <1>8
    <3> QED
      BY <3>1, <3>2, <1>6
  <2>2. ASSUME NEW o \in D, c = by[o], doing'[b] = doing[b]
        PROVE  b = c
    BY <2>2, <1>8
  <2>3. ASSUME doing'[b] = doing[b], doing'[c] = doing[c]
        PROVE  b = c
    BY <2>3 DEF MachInv, Alone, Busy
  <2> QED
    BY <2>1, <2>2, <2>3, <1>6
<1>11. ASSUME NEW q \in MachPorts
       PROVE  Sound(q)'
  <2>1. Sound(q)
    BY DEF MachInv
  <2>2. CASE q \in D
    <3>1. \E b \in Actors : doing'[b].at \in Taking /\ doing'[b].mp = q
      <4>1. by[q] \in Actors /\ doing'[by[q]].at \in Taking
            /\ doing'[by[q]].mp = q
        BY <1>2, <2>2 DEF Taking, Telling
      <4> QED
        BY <4>1
    <3> QED
      BY <1>3, <2>2, <3>1 DEF Sound
  <2>3. CASE q \notin D
    <3>1. mp[q].state = "invalidating" =>
            \E b \in Actors : doing'[b].at \in Taking /\ doing'[b].mp = q
      <4> SUFFICES ASSUME mp[q].state = "invalidating"
                   PROVE  \E b \in Actors :
                            doing'[b].at \in Taking /\ doing'[b].mp = q
        OBVIOUS
      <4>1. PICK b \in Actors : doing[b].at \in Taking /\ doing[b].mp = q
        BY <2>1 DEF Sound
      <4>2. doing'[b] = doing[b]
        BY <4>1, <1>5, <1>6 DEF Busy
      <4> QED
        BY <4>1, <4>2
    <3>2. mp[q].state \in {"none", "deallocating"} =>
            Unreferenced(q)' /\ \A b \in Actors : doing'[b].mp # q
      <4> SUFFICES ASSUME mp[q].state \in {"none", "deallocating"},
                          NEW b \in Actors
                   PROVE  Unreferenced(q)' /\ doing'[b].mp # q
        BY ConstantFacts DEF Sound
      <4>1. Unreferenced(q) /\ doing[b].mp # q
        BY <2>1 DEF Sound
      <4>2. CASE \E o \in D : b = by[o]
        BY <2>3, <4>1, <4>2, <1>7
      <4>3. CASE doing'[b] = doing[b]
        BY <4>1, <4>3, <1>7
      <4> QED
        BY <4>2, <4>3, <1>6
    <3>3. q \in allMachPorts' <=> q \in allMachPorts
      BY <2>3
    <3> QED
      BY <1>4, <2>1, <2>3, <3>1, <3>2, <3>3, SoundStays
  <2> QED
    BY <2>2, <2>3
<1>12. Sourced'
  <2>1. Sourced
    BY DEF MachInv
  <2>2. ASSUME NEW s \in PortSources, rls[s].valid
        PROVE  \/ \E o \in MachPorts : mp'[o].source = s
               \/ \E a \in Actors : doing'[a].rls = s
    <3>1. ASSUME NEW o \in MachPorts, mp[o].source = s
          PROVE  \/ \E q \in MachPorts : mp'[q].source = s
                 \/ \E a \in Actors : doing'[a].rls = s
      <4>1. CASE o \in D
        BY <3>1, <4>1, <1>2
      <4>2. CASE o \notin D
        BY <3>1, <4>2, <1>4
      <4> QED
        BY <4>1, <4>2
    <3>2. ASSUME NEW a \in Actors, doing[a].rls = s
          PROVE  doing'[a].rls = s
      BY <3>2, <1>5, <1>6
    <3> QED
      BY <2>1, <2>2, <3>1, <3>2 DEF Sourced
  <2> QED
    BY <2>1, <2>2 DEF Sourced
<1>13. InfoCounted'
  <2>1. ASSUME NEW b \in Actors
        PROVE  \/ doing'[b].at = doing[b].at /\ doing'[b].mp = doing[b].mp
               \/ /\ doing'[b].at \notin {"giving", "performing"}
                  /\ doing[b].at \notin {"giving", "performing"}
    <3>1. CASE \E o \in D : b = by[o]
      BY <3>1
    <3>2. CASE doing'[b] = doing[b]
      BY <3>2
    <3> QED
      BY <3>1, <3>2, <1>6
  <2> QED
    BY <1>i, <2>1, CountsStay DEF MachInv
<1> QED
  BY <1>1, <1>9, <1>10, <1>11, <1>12, <1>13 DEF MachInv

LEMMA TakingDownFacts ==
  ASSUME MachTypeOK, NEW o \in MachPorts, NEW place \in {"queued", "callback"}
  PROVE  /\ TakingDown(o, place) \in Doing
         /\ TakingDown(o, place).at = place /\ TakingDown(o, place).mp = o
         /\ TakingDown(o, place).rls = mp[o].source
         /\ TakingDown(o, place).keeps
<1>1. mp[o].source \in SomeSource
  BY DEF MachTypeOK, Object
<1> QED
  BY <1>1, RestingFacts
  DEF TakingDown, Doing, Places, Keeping, Taking, Telling, SomePort

LEMMA InvalidateKeeps ==
  ASSUME MachInv, NEW u \in PortUsers, Invalidate(u)
  PROVE  MachInv'
<1> USE ConstantFacts
<1>1. CASE ~IsReady(holds[u].mp)
  BY <1>1, InvalidateAgainKeeps
<1>2. CASE IsReady(holds[u].mp)
  <2>t. MachTypeOK /\ mp \in [MachPorts -> Object]
    BY DEF MachInv, MachTypeOK
  <2>0. holds[u].mp \in MachPorts
    BY UserFacts DEF Invalidate
  <2> PICK o \in MachPorts : o = holds[u].mp
    BY <2>0
  <2>1. /\ doing[u].at = "idle" /\ mp[o].state = "ready"
        /\ allMachPorts' = allMachPorts \ {o}
        /\ mp' = [mp EXCEPT ![o] = TakenDown(@)]
        /\ doing' = [doing EXCEPT ![u] = TakingDown(o, "callback")]
        /\ info' = info /\ rls' = rls /\ holds' = holds
    BY <1>2 DEF Invalidate, InStep, IsReady
  <2>2. /\ TakingDown(o, "callback") \in Doing
        /\ TakingDown(o, "callback").at = "callback"
        /\ TakingDown(o, "callback").mp = o
        /\ TakingDown(o, "callback").rls = mp[o].source
        /\ TakingDown(o, "callback").keeps
    BY <2>t, TakingDownFacts
  <2>3. /\ doing'[u] = TakingDown(o, "callback") /\ doing' \in [Actors -> Doing]
        /\ \A b \in Actors : b # u => doing'[b] = doing[b]
    BY <2>t, <2>1, <2>2, DoingMoves
  <2>4. TakenDown(mp[o]) \in Object
    BY <2>t, TakenDownFacts
  <2>5. /\ mp' \in [MachPorts -> Object] /\ mp'[o] = TakenDown(mp[o])
        /\ \A q \in MachPorts : q # o => mp'[q] = mp[q]
    BY <2>t, <2>1, <2>4
  <2> DEFINE by == [q \in {o} |-> u]
  <2>6. by \in [{o} -> Actors] /\ by[o] = u /\ \A q \in {o} : q = o /\ by[q] = u
    OBVIOUS
  <2> HIDE DEF by
  <2>7. {o} \in SUBSET MachPorts
    OBVIOUS
  <2>8. \A q \in MachPorts :
          mp'[q] = IF q \in {o} THEN TakenDown(mp[q]) ELSE mp[q]
    BY <2>5
  <2>9. \A q \in {o} :
          /\ mp[q].state = "ready" /\ doing[by[q]].at = "idle"
          /\ by[q] \in MachPorts => by[q] = q
          /\ doing'[by[q]].at \in {"queued", "callback"}
          /\ doing'[by[q]].mp = q /\ doing'[by[q]].keeps
          /\ doing'[by[q]].rls = mp[q].source
    BY <2>1, <2>2, <2>3, <2>6
  <2>10. \A b \in Actors : (\A q \in {o} : by[q] # b) => doing'[b] = doing[b]
    BY <2>3, <2>6
  <2>11. \A q, r \in {o} : by[q] = by[r] => q = r
    OBVIOUS
  <2> QED
    BY <2>1, <2>3, <2>5, <2>6, <2>7, <2>8, <2>9, <2>10, <2>11, TakeDownKeeps
<1> QED
  BY <1>1, <1>2

LEMMA CheckerKeeps ==
  ASSUME MachInv, Checker
  PROVE  MachInv'
<1> USE ConstantFacts
<1> DEFINE gone == {o \in allMachPorts : mp[o].port \in dead \/ RetainCount(o) = 1}
           D == {o \in gone : IsReady(o)}
<1>t. MachTypeOK /\ mp \in [MachPorts -> Object] /\ doing \in [Actors -> Doing]
  BY DEF MachInv, MachTypeOK
<1>1. /\ allMachPorts' = allMachPorts \ gone
      /\ mp' = [o \in MachPorts |->
                  IF o \in D THEN TakenDown(mp[o]) ELSE mp[o]]
      /\ doing' = [a \in Actors |-> IF a \in D THEN TakingDown(a, "queued")
                                    ELSE doing[a]]
      /\ info' = info /\ rls' = rls /\ holds' = holds
  BY DEF Checker
<1>2. gone \subseteq MachPorts /\ \A o \in gone : mp[o].state = "ready"
  BY <1>t DEF MachTypeOK, MachInv, Sound
<1>3. D = gone /\ \A o \in D : o \in MachPorts /\ mp[o].state = "ready"
  BY <1>2 DEF IsReady
<1> HIDE DEF gone, D
<1>4. allMachPorts' = allMachPorts \ D /\ D \in SUBSET MachPorts
  BY <1>1, <1>2, <1>3
<1>5. \A o \in MachPorts : TakenDown(mp[o]) \in Object
  BY <1>t, TakenDownFacts
<1>6. /\ mp' \in [MachPorts -> Object]
      /\ \A o \in MachPorts :
           mp'[o] = IF o \in D THEN TakenDown(mp[o]) ELSE mp[o]
  BY <1>t, <1>1, <1>5
<1>7. \A o \in D : /\ TakingDown(o, "queued") \in Doing
                   /\ TakingDown(o, "queued").at = "queued"
                   /\ TakingDown(o, "queued").mp = o
                   /\ TakingDown(o, "queued").rls = mp[o].source
                   /\ TakingDown(o, "queued").keeps
  BY <1>t, <1>3, TakingDownFacts
<1>8. /\ doing' \in [Actors -> Doing]
      /\ \A o \in D : doing'[o] = TakingDown(o, "queued")
      /\ \A b \in Actors : b \notin D => doing'[b] = doing[b]
  BY <1>t, <1>1, <1>3, <1>7
<1>9. \A o \in D : doing[o].at = "idle"
  <2> SUFFICES ASSUME NEW o \in D
               PROVE  doing[o].at = "idle"
    OBVIOUS
  <2>1. o \in MachPorts /\ o \in Actors /\ mp[o].state = "ready"
    BY <1>3
  <2>2. Placed(o)
    BY <2>1, ActorFacts
  <2> QED
    BY <2>1, <2>2 DEF Placed
<1> DEFINE by == [o \in D |-> o]
<1>10. by \in [D -> Actors] /\ \A o \in D : by[o] = o
  BY <1>3
<1> HIDE DEF by
<1>11. \A o \in D :
         /\ mp[o].state = "ready" /\ doing[by[o]].at = "idle"
         /\ by[o] \in MachPorts => by[o] = o
         /\ doing'[by[o]].at \in {"queued", "callback"}
         /\ doing'[by[o]].mp = o /\ doing'[by[o]].keeps
         /\ doing'[by[o]].rls = mp[o].source
  BY <1>3, <1>7, <1>8, <1>9, <1>10
<1>12. \A b \in Actors : (\A o \in D : by[o] # b) => doing'[b] = doing[b]
  BY <1>8, <1>10
<1>13. \A o, q \in D : by[o] = by[q] => o = q
  BY <1>10
<1> QED
  BY <1>1, <1>4, <1>6, <1>8, <1>10, <1>11, <1>12, <1>13, TakeDownKeeps

-----------------------------------------------------------------------------
(* Run loop sources that are made, and given up.                           *)

\* A source is made for an object that is ready, in place of one that has been
\* invalidated, if there is one.
LEMMA NewSourceKeeps ==
  ASSUME MachInv, NEW u \in PortUsers, doing[u].at = "create",
         NEW o \in MachPorts, o = doing[u].mp, IsReady(o),
         NEW new \in PortSources, rls[new].of = Nothing,
         mp[o].source # Nothing => ~rls[mp[o].source].valid,
         rls' = [s \in PortSources |->
                   IF s = new THEN [of |-> o, valid |-> TRUE]
                   ELSE IF s = mp[o].source /\ SourceCount(s) = 1 THEN NoSource
                   ELSE rls[s]],
         mp' = [mp EXCEPT ![o].source = new],
         holds' = [holds EXCEPT ![u].rls = new],
         Stop(u), allMachPorts' = allMachPorts, info' = info
  PROVE  MachInv'
<1> USE ConstantFacts
<1> PICK old \in SomeSource : old = mp[o].source
  BY DEF MachInv, MachTypeOK, Object
<1>t. /\ MachTypeOK /\ mp \in [MachPorts -> Object]
      /\ rls \in [PortSources -> Source] /\ holds \in [PortUsers -> Hold]
  BY DEF MachInv, MachTypeOK
<1>1. /\ Sound(o) /\ mp[o].state = "ready" /\ holds[u].mp = o
      /\ old # Nothing => rls[old].of = o
      /\ doing[u].rls = Nothing /\ doing[u].at \notin Busy
  BY ActorFacts DEF MachInv, Sound, IsReady, Placed, Telling, Busy, Taking, Ending
<1>2. /\ doing'[u] = Resting /\ doing' \in [Actors -> Doing]
      /\ \A b \in Actors : b # u => doing'[b] = doing[b]
  BY <1>t, RestingFacts, DoingMoves DEF Stop
<1>3. /\ doing'[u].at = "idle" /\ doing'[u].mp = Nothing
      /\ doing'[u].rls = Nothing /\ ~doing'[u].keeps
      /\ doing'[u].keeps \in BOOLEAN
  BY <1>2, RestingFacts DEF Doing
<1>4. /\ holds' \in [PortUsers -> Hold]
      /\ \A v \in PortUsers : holds'[v].mp = holds[v].mp
      /\ \A v \in PortUsers : v # u => holds'[v] = holds[v]
      /\ holds'[u].rls = new
  BY <1>t DEF Hold, SomeSource
<1>5. /\ mp' \in [MachPorts -> Object]
      /\ \A q \in MachPorts :
           /\ mp'[q].state = mp[q].state /\ mp'[q].told = mp[q].told
           /\ mp'[q].info = mp[q].info /\ mp'[q].icallout = mp[q].icallout
           /\ q # o => mp'[q].source = mp[q].source
      /\ mp'[o].source = new
  <2>1. new \in SomeSource
    BY DEF SomeSource
  <2>2. mp' = [mp EXCEPT ![o].source = new] /\ mp \in [MachPorts -> Object]
    BY <1>t
  <2> QED
    BY <2>1, <2>2 DEF Object
<1>6. /\ rls' \in [PortSources -> Source] /\ rls'[new].of = o
      /\ \A s \in PortSources : s # new /\ s # old => rls'[s] = rls[s]
      /\ \A s \in PortSources : s # new /\ rls'[s].of # rls[s].of =>
           s = old /\ SourceCount(s) = 1 /\ rls'[s].of = Nothing
      /\ \A s \in PortSources : s # new /\ rls'[s].valid => rls[s].valid /\ s # old
  BY <1>t, <1>1 DEF Source, NoSource, SomePort
<1>7. new # old
  BY <1>1
<1>8. MachTypeOK'
  BY <1>t, <1>2, <1>4, <1>5, <1>6 DEF MachTypeOK
\* Nobody has the new source yet, and if the old one is freed it was the
\* object's alone.
<1>9. /\ \A v \in PortUsers : holds[v].rls # new
      /\ \A q \in MachPorts : mp[q].source # new
      /\ \A b \in Actors : doing[b].rls # new
  <2>1. \A v \in PortUsers : holds[v].rls # new
    BY UserFacts
  <2>2. \A q \in MachPorts : mp[q].source # new
    BY DEF MachInv, Sound
  <2>3. \A b \in Actors : doing[b].rls # new
    <3> SUFFICES ASSUME NEW b \in Actors, doing[b].rls = new
                 PROVE  FALSE
      OBVIOUS
    <3>1. Placed(b)
      BY ActorFacts
    <3>2. doing[b].at \in Telling /\ rls[new].of = doing[b].mp
      BY <3>1 DEF Placed
    <3>3. doing[b].mp \in MachPorts
      BY <3>1, <3>2 DEF Placed, Telling
    <3> QED
      BY <3>2, <3>3
  <2> QED
    BY <2>1, <2>2, <2>3
<1>10. ASSUME NEW s \in PortSources, s # new, rls'[s].of # rls[s].of
       PROVE  /\ \A v \in PortUsers : holds[v].rls # s
              /\ \A q \in MachPorts : q # o => mp[q].source # s
              /\ \A b \in Actors : doing[b].rls # s
  <2>1. SourceCount(s) = 1 /\ mp[o].source = s
    BY <1>6, <1>10
  <2> QED
    BY <1>t, <2>1, LastOfSource
<1>11. ASSUME NEW q, q # o, Unreferenced(q), q \in MachPorts
       PROVE  Unreferenced(q)'
  <2>1. \A s \in PortSources : rls'[s].of # q
    BY <1>6, <1>11 DEF Unreferenced
  <2>2. \A b \in Actors : doing'[b].mp = q => ~doing'[b].keeps
    BY <1>2, <1>3, <1>11 DEF Unreferenced
  <2> QED
    BY <1>4, <1>11, <2>1, <2>2 DEF Unreferenced
<1>12. ~Unreferenced(o)
  BY <1>1 DEF Unreferenced
<1>13. ASSUME NEW b \in Actors
       PROVE  Placed(b)' /\ Informing(b)'
  <2>1. CASE b = u
    <3>1. Placed(u)'
      BY <1>3 DEF Placed, Keeping, Taking, Telling, Ending, Using
    <3>2. Informing(u)'
      BY <1>3 DEF Informing, Telling
    <3> QED
      BY <2>1, <3>1, <3>2
  <2>2. CASE b # u
    <3>1. Placed(b) /\ Informing(b) /\ doing[b] \in Doing /\ doing'[b] = doing[b]
      BY <2>2, <1>2, ActorFacts
    <3>2. doing[b].at \in Busy => doing[b].mp \in MachPorts
      BY <3>1 DEF Busy, Placed, Taking, Telling, Ending
    <3>3. doing[b].at \in Ending => Unreferenced(doing[b].mp)'
      <4>1. ASSUME doing[b].at \in Ending
            PROVE  Unreferenced(doing[b].mp) /\ doing[b].mp \in MachPorts \ {o}
        BY <4>1, <3>1, <3>2, <1>12 DEF Placed, Busy
      <4>2. doing'[b].mp = doing[b].mp
        BY <3>1
      <4> QED
        BY <4>1, <4>2, <1>11 DEF Unreferenced
    <3>4. b \in MachPorts /\ doing[b].at # "idle" =>
            mp'[b].state \notin {"none", "ready"}
      BY <1>5, <3>1 DEF Placed
    <3>5. doing[b].rls # Nothing => rls'[doing[b].rls].of = rls[doing[b].rls].of
      <4>1. doing[b].rls # Nothing => doing[b].rls \in PortSources
        BY <3>1 DEF Doing, SomeSource
      <4> QED
        BY <4>1, <1>9, <1>10
    <3>6. doing[b].at \in Using => rls'[holds[b].rls].of = rls[holds[b].rls].of
      <4>1. doing[b].at \in Using => b \in PortUsers /\ holds[b].rls \in PortSources
        BY <3>1 DEF Placed
      <4> QED
        BY <4>1, <1>9, <1>10
    <3>7. Placed(b)'
      BY <1>4, <1>5, <2>2, <3>1, <3>2, <3>3, <3>4, <3>5, <3>6, PlacedStays
    <3>8. Informing(b)'
      BY <1>5, <3>1, <3>2, InformingStays DEF Busy
    <3> QED
      BY <3>7, <3>8
  <2> QED
    BY <2>1, <2>2
<1>14. doing'[u].at \notin Busy
  BY <1>3 DEF Busy, Taking, Telling, Ending
<1>15. Alone'
  <2>1. Alone
    BY DEF MachInv
  <2> QED
    BY <1>2, <1>14, <2>1 DEF Alone, Busy
<1>16. ASSUME NEW q \in MachPorts
       PROVE  Sound(q)'
  <2>1. Sound(q)
    BY DEF MachInv
  <2>2. CASE q = o
    BY <1>1, <1>5, <1>6, <2>2 DEF Sound
  <2>3. CASE q # o
    <3>1. mp[q].state = "invalidating" =>
            \E b \in Actors : doing'[b].at \in Taking /\ doing'[b].mp = q
      BY <1>1, <1>2, <2>1 DEF Sound, Busy
    <3>2. mp[q].state \in {"none", "deallocating"} =>
            Unreferenced(q)' /\ \A b \in Actors : doing'[b].mp # q
      BY <1>2, <1>3, <1>11, <2>1, <2>3 DEF Sound
    <3>3. mp[q].source # Nothing =>
            rls'[mp[q].source].of = rls[mp[q].source].of
      <4>1. mp[q].source # Nothing => mp[q].source \in PortSources
        BY <1>t DEF Object, SomeSource
      <4> QED
        BY <4>1, <1>9, <1>10, <2>3
    <3> QED
      BY <1>5, <2>1, <2>3, <3>1, <3>2, <3>3, SoundStays
  <2> QED
    BY <2>2, <2>3
<1>17. Sourced'
  <2>1. Sourced
    BY DEF MachInv
  <2>2. ASSUME NEW v \in PortUsers, holds'[v].rls # Nothing
        PROVE  rls'[holds'[v].rls].of # Nothing
    <3>1. CASE v = u
      BY <1>4, <1>6, <3>1
    <3>2. CASE v # u
      <4>1. holds'[v].rls = holds[v].rls
        BY <1>4, <3>2
      <4>2. holds[v].rls \in PortSources /\ rls[holds[v].rls].of # Nothing
        BY <2>2, <4>1, UserFacts
      <4> QED
        BY <4>1, <4>2, <1>9, <1>10
    <3> QED
      BY <3>1, <3>2
  <2>3. ASSUME NEW s \in PortSources, rls'[s].valid
        PROVE  \/ \E q \in MachPorts : mp'[q].source = s
               \/ \E b \in Actors : doing'[b].rls = s
    <3>1. CASE s = new
      BY <1>5, <3>1
    <3>2. CASE s # new
      <4>1. rls[s].valid /\ s # old
        BY <1>6, <2>3, <3>2
      <4>2. \A q \in MachPorts : mp[q].source = s => mp'[q].source = s
        BY <1>5, <4>1
      <4>3. \A b \in Actors : doing[b].rls = s => doing'[b].rls = s
        BY <1>1, <1>2
      <4> QED
        BY <2>1, <4>1, <4>2, <4>3 DEF Sourced
    <3> QED
      BY <3>1, <3>2
  <2> QED
    BY <2>2, <2>3 DEF Sourced
<1>18. InfoCounted'
  <2>1. \A b \in Actors :
          \/ doing'[b].at = doing[b].at /\ doing'[b].mp = doing[b].mp
          \/ /\ doing'[b].at \notin {"giving", "performing"}
             /\ doing[b].at \notin {"giving", "performing"}
    BY <1>2, <1>3
  <2> QED
    BY <1>5, <2>1, CountsStay DEF MachInv
<1> QED
  BY <1>8, <1>13, <1>15, <1>16, <1>17, <1>18 DEF MachInv

LEMMA CreateSourceKeeps ==
  ASSUME MachInv, NEW u \in PortUsers, CreateSource(u)
  PROVE  MachInv'
<1> USE ConstantFacts
<1>0. doing[u].at = "create" /\ doing[u].mp \in MachPorts
  BY ActorFacts DEF CreateSource, InStep
<1> PICK o \in MachPorts : o = doing[u].mp
  BY <1>0
<1>t. MachTypeOK /\ holds \in [PortUsers -> Hold]
  BY DEF MachInv, MachTypeOK
<1>1. /\ Stop(u) /\ allMachPorts' = allMachPorts /\ info' = info
      /\ doing[u].at \notin Busy /\ doing[u].at # "performing"
  BY <1>0 DEF CreateSource, Busy, Taking, Telling, Ending
<1>2. \A q : Unreferenced(q) => holds[u].mp # q
  BY DEF Unreferenced
<1>3. CASE ~IsReady(o) /\ UNCHANGED <<mp, rls, holds>>
  BY <1>t, <1>1, <1>2, <1>3, UserFacts, StopKeeps
<1>4. CASE IsReady(o) /\ GiveSource(u, o)
  <2> DEFINE old == mp[o].source
             free == {s \in PortSources : rls[s].of = Nothing}
             new == CHOOSE s \in free : TRUE
  <2>1. CASE /\ old # Nothing /\ holds' = [holds EXCEPT ![u].rls = old]
             /\ UNCHANGED <<mp, rls>>
    <3>1. old \in SomeSource /\ rls[old].of = o
      BY <1>t, <2>1 DEF MachTypeOK, Object, MachInv, Sound
    <3> HIDE DEF old
    <3>2. /\ holds' \in [PortUsers -> Hold] /\ holds'[u].mp = holds[u].mp
          /\ holds'[u].rls = old
          /\ \A v \in PortUsers : v # u => holds'[v] = holds[v]
      BY <1>t, <2>1, <3>1 DEF Hold
    <3> QED
      BY <1>1, <1>2, <2>1, <3>1, <3>2, StopKeeps
  <2>2. CASE /\ old # Nothing => ~rls[old].valid
             /\ free # {}
             /\ rls' = [s \in PortSources |->
                          IF s = new THEN [of |-> o, valid |-> TRUE]
                          ELSE IF s = old /\ SourceCount(s) = 1 THEN NoSource
                          ELSE rls[s]]
             /\ mp' = [mp EXCEPT ![o].source = new]
             /\ holds' = [holds EXCEPT ![u].rls = new]
    <3>1. new \in free
      BY <2>2
    <3>2. new \in PortSources /\ rls[new].of = Nothing
      BY <3>1
    <3> HIDE DEF new, free
    <3> QED
      BY <1>0, <1>1, <1>4, <2>2, <3>2, NewSourceKeeps
  <2> QED
    BY <1>4, <2>1, <2>2 DEF GiveSource
<1> QED
  BY <1>3, <1>4 DEF CreateSource

\* What holds of others when a client gives its reference to a source up, and
\* the source is freed if that was the last.
LEMMA ReleaseSourceKeeps ==
  ASSUME MachInv, NEW u \in PortUsers, ReleaseSource(u)
  PROVE  MachInv'
<1> USE ConstantFacts
<1>0. /\ doing[u].at = "idle" /\ holds[u].rls \in PortSources
      /\ rls[holds[u].rls].of \in MachPorts
      /\ ~Unreferenced(rls[holds[u].rls].of)
  BY UserFacts DEF ReleaseSource, InStep
<1> PICK s \in PortSources : s = holds[u].rls
  BY <1>0
<1> PICK o \in MachPorts : o = rls[s].of
  BY <1>0
<1>t. /\ MachTypeOK /\ mp \in [MachPorts -> Object]
      /\ rls \in [PortSources -> Source] /\ holds \in [PortUsers -> Hold]
  BY DEF MachInv, MachTypeOK
<1>1. /\ holds' = [holds EXCEPT ![u].rls = Nothing]
      /\ UNCHANGED <<allMachPorts, mp, info>>
  BY DEF ReleaseSource
<1>2. /\ holds' \in [PortUsers -> Hold] /\ holds'[u].rls = Nothing
      /\ \A v \in PortUsers : holds'[v].mp = holds[v].mp
      /\ \A v \in PortUsers : v # u => holds'[v] = holds[v]
  BY <1>t, <1>1 DEF Hold, SomeSource
<1>3. /\ doing[u].mp = Nothing /\ ~doing[u].keeps
      /\ doing[u].rls = Nothing /\ doing[u].at \notin Busy
      /\ doing[u].keeps \in BOOLEAN
  BY <1>0, <1>t, IdleFacts, ActorFacts DEF Doing
<1>4. CASE UNCHANGED <<rls, doing>>
  <2>1. MachTypeOK'
    BY <1>t, <1>1, <1>2, <1>4 DEF MachTypeOK
  <2>2. Placed(u)'
    BY <1>0, <1>3, <1>4 DEF Placed, Keeping, Taking, Telling, Ending, Using
  <2>3. Informing(u)'
    BY <1>0, <1>4 DEF Informing, Telling
  <2>4. \A q \in MachPorts : Unreferenced(q) => holds'[u].mp # q
    BY <1>2 DEF Unreferenced
  <2>5. mp' = mp /\ allMachPorts' = allMachPorts /\ info' = info /\ rls' = rls
        /\ doing' = doing
    BY <1>1, <1>4
  <2> QED
    BY <1>0, <1>2, <1>3, <2>1, <2>2, <2>3, <2>4, <2>5, MoveKeeps
<1>5. CASE /\ SourceCount(s) = 1
           /\ rls' = [rls EXCEPT ![s] = NoSource]
           /\ \/ /\ RetainCount(o) = 1
                 /\ doing' = [doing EXCEPT ![u] =
                      [Resting EXCEPT !.at = "deallocate", !.mp = o]]
              \/ UNCHANGED doing
  <2>1. /\ rls' \in [PortSources -> Source] /\ rls'[s] = NoSource
        /\ \A t \in PortSources : t # s => rls'[t] = rls[t]
        /\ NoSource.of = Nothing /\ ~NoSource.valid
    BY <1>t, <1>5 DEF Source, NoSource, SomePort
  <2>2. /\ \A v \in PortUsers : holds[v].rls = s => v = u
        /\ \A q \in MachPorts : mp[q].source # s
        /\ \A b \in Actors : doing[b].rls # s
    BY <1>t, <1>5, LastOfSource
  <2> DEFINE d == [Resting EXCEPT !.at = "deallocate", !.mp = o]
  <2>3. /\ d \in Doing /\ d.at = "deallocate" /\ d.mp = o /\ d.rls = Nothing
        /\ ~d.keeps /\ d.keeps \in BOOLEAN
    BY RestingFacts DEF Doing, Places, Ending, SomePort
  <2> HIDE DEF d
  <2>4. /\ doing' \in [Actors -> Doing]
        /\ \A b \in Actors : b # u => doing'[b] = doing[b]
        /\ \/ doing'[u] = doing[u]
           \/ doing'[u] = d /\ RetainCount(o) = 1
    <3>1. CASE RetainCount(o) = 1 /\ doing' = [doing EXCEPT ![u] = d]
      BY <1>t, <2>3, <3>1, DoingMoves
    <3>2. CASE UNCHANGED doing
      BY <1>t, <3>2 DEF MachTypeOK
    <3> QED
      BY <1>5, <3>1, <3>2 DEF d
  <2>5. MachTypeOK'
    BY <1>t, <1>1, <1>2, <2>1, <2>4 DEF MachTypeOK
  <2>6. /\ doing'[u].rls = Nothing /\ ~doing'[u].keeps
        /\ doing'[u].keeps \in BOOLEAN
        /\ doing'[u].at \in {"idle", "deallocate"}
    BY <1>0, <1>3, <2>3, <2>4
  <2>7. ASSUME NEW q, q \in MachPorts, Unreferenced(q)
        PROVE  Unreferenced(q)'
    <3>1. \A t \in PortSources : rls'[t].of # q
      BY <2>1, <2>7 DEF Unreferenced
    <3>2. \A b \in Actors : doing'[b].mp = q => ~doing'[b].keeps
      BY <2>4, <2>6, <2>7 DEF Unreferenced
    <3> QED
      BY <1>1, <1>2, <2>7, <3>1, <3>2 DEF Unreferenced
  \* If the object is to be freed, nobody else has it.
  <2>8. ASSUME doing'[u] = d, RetainCount(o) = 1
        PROVE  /\ mp[o].state = "invalid" /\ Unreferenced(o)'
               /\ \A b \in Actors : doing[b].at \in Busy => doing[b].mp # o
    <3>1. /\ o \notin allMachPorts
          /\ \A v \in PortUsers : holds[v].mp # o
          /\ \A b \in Actors : doing[b].mp = o => ~doing[b].keeps
          /\ \A t \in PortSources : rls[t].of = o => t = s
      BY <1>t, <2>8, LastSource
    <3>2. \A b \in Actors : doing[b].at \in Taking => doing[b].mp # o
      <4> SUFFICES ASSUME NEW b \in Actors, doing[b].at \in Taking
                   PROVE  doing[b].keeps
        BY <3>1
      <4> QED
        BY ActorFacts DEF Placed, Keeping
    <3>3. /\ mp[o].state = "invalid"
          /\ \A b \in Actors : doing[b].at \in Busy => doing[b].mp # o
      BY <1>0, <3>1, <3>2, LastReference
    <3>4. \A b \in Actors : doing'[b].mp = o => ~doing'[b].keeps
      BY <2>4, <2>6, <3>1
    <3>5. \A t \in PortSources : rls'[t].of # o
      BY <2>1, <3>1
    <3> QED
      BY <1>1, <1>2, <3>1, <3>3, <3>4, <3>5 DEF Unreferenced
  <2>9. ASSUME NEW b \in Actors
        PROVE  Placed(b)' /\ Informing(b)'
    <3>1. CASE b = u
      <4>1. CASE doing'[u] = doing[u]
        <5>1. Placed(u)'
          BY <1>0, <1>3, <4>1 DEF Placed, Keeping, Taking, Telling, Ending, Using
        <5>2. Informing(u)'
          BY <1>0, <4>1 DEF Informing, Telling
        <5> QED
          BY <3>1, <5>1, <5>2
      <4>2. CASE doing'[u] = d /\ RetainCount(o) = 1
        <5>1. /\ doing'[u].at = "deallocate" /\ doing'[u].mp = o
              /\ mp'[o].state = "invalid"
          BY <1>1, <2>3, <2>8, <4>2
        <5>2. Unreferenced(doing[u].mp)'
          BY <2>8, <4>2, <5>1 DEF Unreferenced
        <5>3. Placed(u)'
          BY <2>6, <5>1, <5>2
          DEF Placed, Keeping, Taking, Telling, Ending, Using
        <5>4. Informing(u)'
          BY <5>1 DEF Informing, Telling
        <5> QED
          BY <3>1, <5>3, <5>4
      <4> QED
        BY <2>4, <4>1, <4>2
    <3>2. CASE b # u
      <4>1. Placed(b) /\ Informing(b) /\ doing[b] \in Doing /\ doing'[b] = doing[b]
        BY <3>2, <2>4, ActorFacts
      <4>2. doing[b].at \in Ending => Unreferenced(doing[b].mp)'
        <5>1. ASSUME doing[b].at \in Ending
              PROVE  Unreferenced(doing[b].mp) /\ doing[b].mp \in MachPorts
          BY <4>1, <5>1 DEF Placed, Ending
        <5>2. doing'[b].mp = doing[b].mp
          BY <4>1
        <5> QED
          BY <5>1, <5>2, <2>7 DEF Unreferenced
      <4>3. doing[b].rls # Nothing => rls'[doing[b].rls].of = rls[doing[b].rls].of
        BY <4>1, <2>1, <2>2 DEF Doing, SomeSource
      <4>4. doing[b].at \in Using => rls'[holds[b].rls].of = rls[holds[b].rls].of
        <5>1. doing[b].at \in Using =>
                b \in PortUsers /\ holds[b].rls \in PortSources
          BY <4>1 DEF Placed
        <5> QED
          BY <3>2, <5>1, <2>1, <2>2
      <4>5. b \in MachPorts /\ doing[b].at # "idle" =>
              mp'[b].state \notin {"none", "ready"}
        BY <1>1, <4>1 DEF Placed
      <4>6. Placed(b)'
        BY <1>1, <1>2, <3>2, <4>1, <4>2, <4>3, <4>4, <4>5, PlacedStays
      <4>7. Informing(b)'
        BY <1>1, <4>1, InformingStays
      <4> QED
        BY <4>6, <4>7
    <3> QED
      BY <3>1, <3>2
  <2>10. doing'[u].at \notin Taking
    BY <2>6 DEF Taking, Telling
  <2>11. doing'[u].at \in Busy => doing'[u] = d /\ RetainCount(o) = 1
    BY <1>3, <2>4
  <2>12. Alone'
    <3> SUFFICES ASSUME NEW b \in Actors, NEW c \in Actors,
                        doing'[b].at \in Busy, doing'[c].at \in Busy,
                        doing'[b].mp = doing'[c].mp
                 PROVE  b = c
      BY DEF Alone, Busy
    <3>1. CASE b # u /\ c # u
      BY <2>4, <3>1 DEF MachInv, Alone, Busy
    <3>2. CASE b = u
      BY <2>3, <2>4, <2>8, <2>11, <3>2
    <3>3. CASE c = u
      BY <2>3, <2>4, <2>8, <2>11, <3>3
    <3> QED
      BY <3>1, <3>2, <3>3
  <2>13. ASSUME NEW q \in MachPorts
         PROVE  Sound(q)'
    <3>1. Sound(q)
      BY DEF MachInv
    <3>2. mp[q].state = "invalidating" =>
            \E b \in Actors : doing'[b].at \in Taking /\ doing'[b].mp = q
      BY <1>3, <2>4, <3>1 DEF Sound, Busy
    <3>3. mp[q].state \in {"none", "deallocating"} =>
            Unreferenced(q)' /\ \A b \in Actors : doing'[b].mp # q
      <4>1. mp[q].state \in {"none", "deallocating"} =>
              Unreferenced(q)' /\ \A b \in Actors : doing[b].mp # q
        BY <2>7, <3>1 DEF Sound
      <4>2. mp[o].state \notin {"none", "deallocating"}
        BY <1>0, ReferencedFacts
      <4> QED
        BY <2>3, <2>4, <4>1, <4>2
    <3>4. mp[q].source # Nothing => rls'[mp[q].source].of = rls[mp[q].source].of
      <4>1. mp[q].source # Nothing => mp[q].source \in PortSources
        BY <1>t DEF Object, SomeSource
      <4> QED
        BY <4>1, <2>1, <2>2
    <3> QED
      BY <1>1, <3>1, <3>2, <3>3, <3>4, SoundStays
  <2>14. Sourced'
    <3>1. Sourced
      BY DEF MachInv
    <3>2. ASSUME NEW v \in PortUsers, holds'[v].rls # Nothing
          PROVE  rls'[holds'[v].rls].of # Nothing
      <4>1. v # u /\ holds'[v].rls = holds[v].rls
        BY <1>2, <3>2
      <4>2. holds[v].rls \in PortSources /\ rls[holds[v].rls].of # Nothing
        BY <3>2, <4>1, UserFacts
      <4> QED
        BY <4>1, <4>2, <2>1, <2>2
    <3>3. \A t \in PortSources : rls'[t].valid => rls[t].valid
      BY <2>1
    <3>4. \A b \in Actors : doing'[b].rls = doing[b].rls
      BY <1>3, <2>4, <2>6
    <3> QED
      BY <1>1, <3>1, <3>2, <3>3, <3>4 DEF Sourced
  <2>15. InfoCounted'
    <3>1. \A b \in Actors :
            \/ doing'[b].at = doing[b].at /\ doing'[b].mp = doing[b].mp
            \/ /\ doing'[b].at \notin {"giving", "performing"}
               /\ doing[b].at \notin {"giving", "performing"}
      BY <1>0, <2>4, <2>6
    <3> QED
      BY <1>1, <3>1, CountsStay DEF MachInv
  <2> QED
    BY <2>5, <2>9, <2>12, <2>13, <2>14, <2>15 DEF MachInv
<1> QED
  BY <1>4, <1>5 DEF ReleaseSource

-----------------------------------------------------------------------------
(* The invariant, and what it means.                                       *)

LEMMA InitHasMachInv ==
  ASSUME MachInit
  PROVE  MachInv
<1> USE ConstantFacts
<1>1. /\ \A a \in Actors : doing[a] = Resting
      /\ \A o \in MachPorts : mp[o] = Unused /\ info[o] = 0
      /\ \A s \in PortSources : rls[s] = NoSource
      /\ \A u \in PortUsers : holds[u] = NoHold
      /\ allMachPorts = {}
  BY DEF MachInit
<1>2. NoSource \in Source /\ NoSource.of = Nothing /\ ~NoSource.valid
  BY DEF NoSource, Source, SomePort
<1>3. NoHold \in Hold /\ NoHold.mp = Nothing /\ NoHold.rls = Nothing
  BY DEF NoHold, Hold, SomePort, SomeSource
<1>4. MachTypeOK
  BY <1>2, <1>3, RestingFacts, UnusedFacts DEF MachInit, MachTypeOK
<1>5. \A o \in MachPorts : Unreferenced(o) /\ \A a \in Actors : doing[a].mp # o
  BY <1>1, <1>2, <1>3, RestingFacts DEF Unreferenced
<1>6. ASSUME NEW a \in Actors
      PROVE  Placed(a) /\ Informing(a)
  <2>1. /\ doing[a].at = "idle" /\ doing[a].mp = Nothing
        /\ doing[a].rls = Nothing /\ ~doing[a].keeps
        /\ doing[a].keeps \in BOOLEAN
    BY <1>1, RestingFacts DEF Doing
  <2>2. Placed(a)
    BY <2>1 DEF Placed, Keeping, Taking, Telling, Ending, Using
  <2>3. Informing(a)
    BY <2>1 DEF Informing, Telling
  <2> QED
    BY <2>2, <2>3
<1>7. Alone
  BY <1>1, RestingFacts DEF Alone, Taking, Telling, Ending
<1>8. \A o \in MachPorts : Sound(o)
  BY <1>1, <1>5, UnusedFacts DEF Sound
<1>9. Sourced
  BY <1>1, <1>2, <1>3 DEF Sourced
<1>10. InfoCounted
  <2>1. \A o : InfoUsers(o) = {}
    BY <1>1, RestingFacts DEF InfoUsers
  <2>2. \A o \in MachPorts : ~mp[o].info /\ info[o] = 0
    BY <1>1, UnusedFacts
  <2> QED
    BY <2>1, <2>2, FS_EmptySet DEF InfoCounted
<1> QED
  BY <1>4, <1>6, <1>7, <1>8, <1>9, <1>10 DEF MachInv

\* Whether rights are gone is nothing that the invariant depends on.
LEMMA UntouchedKeeps ==
  ASSUME MachInv, UNCHANGED <<allMachPorts, mp, info, rls, doing, holds>>
  PROVE  MachInv'
<1>1. \A o : Unreferenced(o)' = Unreferenced(o)
  BY DEF Unreferenced
<1>2. \A o : InfoUsers(o)' = InfoUsers(o)
  BY DEF InfoUsers
<1> QED
  BY <1>1, <1>2 DEF MachInv, MachTypeOK, Placed, Informing, Alone, Sound,
     Sourced, InfoCounted

LEMMA NextKeepsMachInv ==
  ASSUME MachInv, [MachNext]_machVars
  PROVE  MachInv'
<1>1. ASSUME NEW u \in PortUsers, NEW p \in PortNames, FindPort(u, p)
      PROVE  MachInv'
  BY <1>1, FindPortKeeps
<1>2. ASSUME NEW u \in PortUsers,
             MakePort(u) \/ WatchPort(u) \/ CheckPort(u) \/ Invalidate(u)
               \/ CFReleasePort(u)
      PROVE  MachInv'
  BY <1>2, MakePortKeeps, WatchPortKeeps, CheckPortKeeps, InvalidateKeeps,
     CFReleasePortKeeps
<1>3. ASSUME NEW u \in PortUsers, NEW callout \in BOOLEAN,
             SetCallBack(u, callout)
      PROVE  MachInv'
  BY <1>3, SetCallBackKeeps
<1>4. ASSUME NEW u \in PortUsers,
             CalledDirectly(u) \/ AskForSource(u) \/ CreateSource(u)
               \/ InvalidateSource(u) \/ ReleaseSource(u)
      PROVE  MachInv'
  BY <1>4, CalledDirectlyKeeps, AskForSourceKeeps, CreateSourceKeeps,
     InvalidateSourceKeeps, ReleaseSourceKeeps
<1>5. ASSUME NEW u \in PortUsers, Message(u) \/ Perform(u) \/ Performed(u)
      PROVE  MachInv'
  BY <1>5, MessageKeeps, PerformKeeps, PerformedKeeps
<1>6. ASSUME NEW a \in Actors,
             CallBack(a) \/ Told(a) \/ Unsource(a) \/ GiveUpInfo(a)
      PROVE  MachInv'
  BY <1>6, CallBackKeeps, ToldKeeps, UnsourceKeeps, GiveUpInfoKeeps
<1>7. ASSUME NEW a \in Actors,
             Invalidated(a) \/ ReleasePort(a) \/ DeallocatePort(a) \/ HandOver(a)
      PROVE  MachInv'
  BY <1>7, InvalidatedKeeps, ReleasePortKeeps, DeallocatePortKeeps, HandOverKeeps
<1>8. ASSUME NEW o \in MachPorts, RunBlock(o) \/ Canceled(o) \/ DropRights(o)
      PROVE  MachInv'
  BY <1>8, RunBlockKeeps, CanceledKeeps, DropRightsKeeps
<1>9. ASSUME NEW p \in PortNames, PortDies(p) \/ PortReused(p)
      PROVE  MachInv'
  BY <1>9, UntouchedKeeps DEF PortDies, PortReused
<1>10. CASE Checker
  BY <1>10, CheckerKeeps
<1>11. CASE UNCHANGED machVars
  BY <1>11, UntouchedKeeps DEF machVars
<1> QED
  BY <1>1, <1>2, <1>3, <1>4, <1>5, <1>6, <1>7, <1>8, <1>9, <1>10, <1>11
  DEF MachNext

LEMMA MachInvHolds == MachSpec => []MachInv
<1>1. MachInit => MachInv
  BY InitHasMachInv
<1>2. MachInv /\ [MachNext]_machVars => MachInv'
  BY NextKeepsMachInv
<1> QED
  BY <1>1, <1>2, PTL DEF MachSpec

LEMMA MachInvComesApart ==
  ASSUME MachInv
  PROVE  ComesApart
<1> USE ConstantFacts
<1>t. /\ MachTypeOK /\ DOMAIN mp = MachPorts /\ DOMAIN rls = PortSources
      /\ mp \in [MachPorts -> Object]
  BY DEF MachInv, MachTypeOK
<1> SUFFICES ASSUME NEW o \in MachPorts
             PROVE  /\ mp[o].state \notin {"none", "ready"} =>
                         o \notin allMachPorts /\ mp[o].source = Nothing
                    /\ mp[o].state \in {"invalid", "deallocating"} =>
                         /\ mp[o].icallout => mp[o].told = 1
                         /\ \A s \in PortSources :
                              rls[s].of = o => ~rls[s].valid
                    /\ mp[o].state # "none" /\ RetainCount(o) = 0 =>
                         mp[o].state \in {"invalid", "deallocating"}
  BY <1>t DEF ComesApart
<1>1. Sound(o)
  BY DEF MachInv
<1>2. mp[o].state \notin {"none", "ready"} =>
        o \notin allMachPorts /\ mp[o].source = Nothing
  BY <1>1 DEF Sound
<1>3. mp[o].state \in {"invalid", "deallocating"} /\ mp[o].icallout =>
        mp[o].told = 1
  BY <1>1 DEF Sound
\* A valid source is had by an object that is ready, or by who takes it down.
<1>4. ASSUME mp[o].state \in {"invalid", "deallocating"},
             NEW s \in PortSources, rls[s].of = o, rls[s].valid
      PROVE  FALSE
  <2>1. \/ \E q \in MachPorts : mp[q].source = s
        \/ \E a \in Actors : doing[a].rls = s
    BY <1>4 DEF MachInv, Sourced
  <2>2. ASSUME NEW q \in MachPorts, mp[q].source = s
        PROVE  FALSE
    BY <1>4, <2>2 DEF MachInv, Sound
  <2>3. ASSUME NEW a \in Actors, doing[a].rls = s
        PROVE  FALSE
    BY <1>4, <2>3, ActorFacts DEF Placed, Taking
  <2> QED
    BY <2>1, <2>2, <2>3
\* Who takes an object down keeps a reference to it.
<1>5. ASSUME mp[o].state # "none", RetainCount(o) = 0
      PROVE  mp[o].state \in {"invalid", "deallocating"}
  <2>1. Unreferenced(o)
    BY <1>5, <1>t, ZeroMeansUnreferenced
  <2>2. mp[o].state # "ready"
    BY <1>1, <2>1 DEF Sound, Unreferenced
  <2>3. mp[o].state # "invalidating"
    <3> SUFFICES ASSUME mp[o].state = "invalidating"
                 PROVE  FALSE
      OBVIOUS
    <3>1. PICK a \in Actors : doing[a].at \in Taking /\ doing[a].mp = o
      BY <1>1 DEF Sound
    <3>2. doing[a].keeps
      BY <3>1, ActorFacts DEF Placed, Keeping
    <3> QED
      BY <2>1, <3>1, <3>2 DEF Unreferenced
  <2> QED
    BY <1>5, <1>t, <2>2, <2>3 DEF Object
<1> QED
  BY <1>2, <1>3, <1>4, <1>5

\* __CFMachPortChecker, CFMachPortInvalidate, __CFMachPortDeallocate and
\* CFMachPortCreateRunLoopSource: an object of any of any number of ports,
\* taken down by any of any number of threads or by the checker, comes apart in
\* order: it is out of the table and has no source from then on, its callback
\* has been called once and its sources are invalid when it is, and what has no
\* references left is invalid.
THEOREM PortsComeApart == MachSpec => []ComesApart
<1>1. MachInv => ComesApart
  BY MachInvComesApart
<1> QED
  BY <1>1, MachInvHolds, PTL

LEMMA MachInvInfoKept ==
  ASSUME MachInv
  PROVE  InfoKept
<1>t. DOMAIN doing = Actors /\ info \in [MachPorts -> Nat]
  BY DEF MachInv, MachTypeOK
<1> SUFFICES ASSUME NEW a \in Actors, doing[a].at \in {"performing", "telling"}
             PROVE  info[doing[a].mp] > 0
  BY <1>t DEF InfoKept
<1>1. /\ doing[a].mp \in MachPorts
      /\ doing[a].at = "telling" => mp[doing[a].mp].info
  BY ActorFacts DEF Informing, Telling
<1> PICK o \in MachPorts : o = doing[a].mp
  BY <1>1
<1>2. info[o] = (IF mp[o].info THEN 1 ELSE 0) + Cardinality(InfoUsers(o))
      /\ Cardinality(InfoUsers(o)) \in Nat
  BY InfoUsersFinite DEF MachInv, InfoCounted
<1>3. CASE doing[a].at = "telling"
  BY <1>1, <1>2, <1>3
<1>4. CASE doing[a].at = "performing"
  <2>1. a \in InfoUsers(o)
    BY <1>4 DEF InfoUsers
  <2>2. Cardinality(InfoUsers(o)) # 0
    BY <2>1, InfoUsersFinite, FS_EmptySet
  <2> QED
    BY <1>2, <2>2
<1> QED
  BY <1>3, <1>4

\* __CFMachPortPerform and __CFMachPortInvalidateLocked: of any number of
\* threads that call out with the info of an object while others take the
\* object down, each has a reference to the info, or the object has one for it.
THEOREM InfoOutlivesCallouts == MachSpec => []InfoKept
<1>1. MachInv => InfoKept
  BY MachInvInfoKept
<1> QED
  BY <1>1, MachInvHolds, PTL
=============================================================================
