------------------------ MODULE RunLoopModesProofs ------------------------
(* Proofs about RunLoopModes for any number of threads, loops, modes and    *)
(* sources.                                                                 *)
EXTENDS RunLoopModes, TLAPS, FiniteSetTheorems

\* The modes of loop l that source s is in.
ModesWith(s, l) == {m \in Modes : s \in members[l][m]}

\* A source's bag never counts more modes than it is in, and counts them all
\* while it is valid.
Bags ==
  \A s \in Sources, l \in Loops :
    /\ runLoops[s][l] <= Cardinality(ModesWith(s, l))
    /\ s \in valid => runLoops[s][l] = Cardinality(ModesWith(s, l))

\* TypeOK without what Bags gives.
Types ==
  /\ valid \subseteq Sources
  /\ members \in [Loops -> [Modes -> SUBSET Sources]]
  /\ commonModes \in [Loops -> SUBSET Modes]
  /\ commonItems \in [Loops -> SUBSET Sources]
  /\ runLoops \in [Sources -> [Loops -> Nat]]
  /\ lock \in [Loops -> Threads \cup {Free}]
  /\ guard \in [Sources -> Threads \cup {Free}]
  /\ work \in [Threads -> Work]
  /\ told \in [Sources -> [Loops -> [Modes -> Int]]]
  /\ late \subseteq Sources
  /\ taken \subseteq Sources \X Loops \X Modes

-----------------------------------------------------------------------------
(* Types.                                                                   *)

LEMMA IdleType ==
  /\ Idle \in Work /\ Idle.pc = "idle" /\ Idle.todo = {} /\ Idle.loops = {}
  /\ ~Idle.held /\ ~Idle.adds /\ ~Idle.common
  BY ModesAssumption DEF Idle, Work, Pairs

\* Changing one entry of a table.
LEMMA NewMembers ==
  ASSUME Types, NEW l \in Loops, NEW m \in Modes, NEW S \in SUBSET Sources,
         members' = [members EXCEPT ![l][m] = S]
  PROVE  /\ members' \in [Loops -> [Modes -> SUBSET Sources]]
         /\ \A k \in Loops, n \in Modes :
              members'[k][n] = IF k = l /\ n = m THEN S ELSE members[k][n]
  BY DEF Types

LEMMA NewCount ==
  ASSUME Types, NEW s \in Sources, NEW l \in Loops, NEW n \in Nat,
         runLoops' = [runLoops EXCEPT ![s][l] = n]
  PROVE  /\ runLoops' \in [Sources -> [Loops -> Nat]]
         /\ \A r \in Sources, k \in Loops :
              runLoops'[r][k] = IF r = s /\ k = l THEN n ELSE runLoops[r][k]
  BY DEF Types

\* A new record for thread t.
LEMMA NowType ==
  ASSUME Types, NEW t \in Threads, NEW w \in Work, Now(t, w)
  PROVE  /\ work' \in [Threads -> Work]
         /\ work'[t] = w /\ \A u \in Threads \ {t} : work'[u] = work[u]
  BY DEF Types, Now

LEMMA CallTypes ==
  ASSUME Types, NEW t \in Threads, Call(t)
  PROVE  Types'
<1> USE IdleType
<1>1. CASE \E l \in Loops, s \in Sources, m \in Modes :
             AddSource(t, l, s, m) \/ RemoveSource(t, l, s, m)
  <2>1. PICK l \in Loops, s \in Sources, m \in Modes :
               AddSource(t, l, s, m) \/ RemoveSource(t, l, s, m)
    BY <1>1
  <2>2. CASE AddSource(t, l, s, m)
    <3>1. [Idle EXCEPT !.pc = "insert", !.adds = TRUE, !.loop = l,
                       !.source = s, !.mode = m] \in Work
      BY DEF Work
    <3> QED
      BY <2>2, <3>1, NowType DEF AddSource, Types, sets
  <2>3. CASE RemoveSource(t, l, s, m)
    <3>1. [Idle EXCEPT !.pc = "next", !.loop = l, !.todo = {<<s, m>>}] \in Work
      <4>1. {<<s, m>>} \in SUBSET Pairs
        BY DEF Pairs
      <4> QED
        BY <4>1 DEF Work
    <3> QED
      BY <2>3, <3>1, NowType DEF RemoveSource, Types, sets
  <2> QED
    BY <2>1, <2>2, <2>3
<1>2. CASE \E l \in Loops, s \in Sources :
             AddToCommonModes(t, l, s) \/ RemoveFromCommonModes(t, l, s)
  <2>1. PICK l \in Loops, s \in Sources :
               AddToCommonModes(t, l, s) \/ RemoveFromCommonModes(t, l, s)
    BY <1>2
  <2>2. CASE AddToCommonModes(t, l, s)
    <3>1. [Idle EXCEPT !.pc = "enter", !.adds = TRUE, !.loop = l,
                       !.source = s] \in Work
      BY DEF Work
    <3> QED
      BY <2>2, <3>1, NowType DEF AddToCommonModes, Types, sets
  <2>3. CASE RemoveFromCommonModes(t, l, s)
    <3>1. [Idle EXCEPT !.pc = "next", !.loop = l, !.source = s,
                       !.held = TRUE, !.common = TRUE] \in Work
      BY DEF Work
    <3> QED
      BY <2>3, <3>1, NowType DEF RemoveFromCommonModes, Types, sets, Hold
  <2> QED
    BY <2>1, <2>2, <2>3
<1>3. CASE \E l \in Loops, m \in Modes :
             AddCommonMode(t, l, m) \/ RemoveAllSources(t, l, m)
  <2>1. PICK l \in Loops, m \in Modes :
               AddCommonMode(t, l, m) \/ RemoveAllSources(t, l, m)
    BY <1>3
  <2>2. CASE AddCommonMode(t, l, m)
    <3>1. [Idle EXCEPT !.pc = "next", !.adds = TRUE, !.loop = l, !.held = TRUE,
                       !.todo = commonItems[l] \X {m}] \in Work
      BY DEF Work, Types, Pairs
    <3> QED
      BY <2>2, <3>1, NowType DEF AddCommonMode, Types, sets, Hold
  <2>3. CASE RemoveAllSources(t, l, m)
    <3>1. [Idle EXCEPT !.pc = "next", !.loop = l, !.held = TRUE,
                       !.todo = members[l][m] \X {m}] \in Work
      <4>1. members[l][m] \in SUBSET Sources
        BY DEF Types
      <4>2. members[l][m] \X {m} \in SUBSET Pairs
        BY <4>1 DEF Pairs
      <4> QED
        BY <4>2 DEF Work
    <3> QED
      BY <2>3, <3>1, NowType DEF RemoveAllSources, Types, sets, Hold
  <2> QED
    BY <2>1, <2>2, <2>3
<1>4. CASE \E s \in Sources : SourceInvalidate(t, s)
  <2>1. PICK s \in Sources : SourceInvalidate(t, s)
    BY <1>4
  <2>2. [Idle EXCEPT !.pc = "loops", !.source = s,
                     !.loops = {l \in Loops : runLoops[s][l] > 0}] \in Work
    BY DEF Work
  <2> QED
    BY <2>1, <2>2, NowType DEF SourceInvalidate, Types
<1>5. CASE \E s \in Sources, l \in Loops : TakeGuard(t, s, l)
  <2>1. PICK s \in Sources, l \in Loops : TakeGuard(t, s, l)
    BY <1>5
  <2>2. [Idle EXCEPT !.pc = "query", !.loop = l, !.source = s] \in Work
    BY DEF Work
  <2> QED
    BY <2>1, <2>2, NowType DEF TakeGuard, Types, sets
<1> QED
  BY <1>1, <1>2, <1>3, <1>4, <1>5 DEF Call

LEMMA ContinueTypes ==
  ASSUME Types, NEW t \in Threads, Continue(t)
  PROVE  Types'
<1> DEFINE w == work[t]
<1> USE IdleType
<1>w. /\ w \in Work /\ w.loop \in Loops
      /\ w.source \in Sources /\ w.mode \in Modes /\ w.todo \in SUBSET Pairs
      /\ w.loops \in SUBSET Loops
  BY DEF Types, Work
<1>1. CASE EnterCommon(t)
  <2>1. {w.source} \X commonModes[w.loop] \in SUBSET Pairs
    BY <1>w DEF Types, Pairs
  <2>2. [w EXCEPT !.pc = "next", !.held = TRUE,
                  !.todo = {w.source} \X commonModes[w.loop]] \in Work
    BY <1>w, <2>1 DEF Work
  <2>3. commonItems' \in [Loops -> SUBSET Sources] /\ late' \subseteq Sources
    BY <1>1, <1>w DEF EnterCommon, Types
  <2>4. lock' \in [Loops -> Threads \cup {Free}]
    BY <1>1, <1>w DEF EnterCommon, Types, Hold
  <2> QED
    BY <1>1, <2>2, <2>3, <2>4, NowType DEF EnterCommon, Types
<1>2. CASE RemoveCommonItem(t)
  <2>1. /\ {w.source} \X commonModes[w.loop] \in SUBSET Pairs
        /\ {} \in SUBSET Pairs
    BY <1>w DEF Types, Pairs
  <2>2. [w EXCEPT !.common = FALSE,
                  !.todo = IF w.source \in commonItems[w.loop]
                             THEN {w.source} \X commonModes[w.loop]
                             ELSE {}] \in Work
    BY <1>w, <2>1 DEF Work
  <2>3. commonItems' \in [Loops -> SUBSET Sources]
    BY <1>2, <1>w DEF RemoveCommonItem, Types
  <2> QED
    BY <1>2, <2>2, <2>3, NowType DEF RemoveCommonItem, Types
<1>3. CASE Return(t)
  <2>1. (IF w.loops = {}
           THEN Idle ELSE [w EXCEPT !.pc = "loops", !.held = FALSE]) \in Work
    BY <1>w DEF Work
  <2>2. lock' \in [Loops -> Threads \cup {Free}]
    BY <1>3, <1>w DEF Return, Types
  <2> QED
    BY <1>3, <2>1, <2>2, NowType DEF Return, Types, sets
<1>4. CASE \E l \in Loops : LeaveLoop(t, l)
  <2>1. PICK l \in Loops : LeaveLoop(t, l)
    BY <1>4
  <2>2. {w.source} \X Modes \in SUBSET Pairs
    BY <1>w DEF Pairs
  <2>3. [w EXCEPT !.pc = "next", !.loop = l, !.held = TRUE,
                  !.loops = @ \ {l}, !.common = TRUE,
                  !.todo = {w.source} \X Modes] \in Work
    BY <1>w, <2>2 DEF Work
  <2>4. lock' \in [Loops -> Threads \cup {Free}]
    BY <2>1 DEF LeaveLoop, Types, Hold
  <2> QED
    BY <2>1, <2>3, <2>4, NowType DEF LeaveLoop, Types, sets
<1>5. CASE LeftLoops(t)
  BY <1>5, NowType DEF LeftLoops, Types, sets
<1>6. CASE \E s \in Sources, m \in Modes : InnerAdd(t, s, m) \/ Remove(t, s, m)
  <2>1. PICK s \in Sources, m \in Modes : InnerAdd(t, s, m) \/ Remove(t, s, m)
    BY <1>6
  <2>2. CASE InnerAdd(t, s, m)
    <3>1. [w EXCEPT !.pc = IF s \in valid THEN "insert" ELSE "next",
                    !.todo = @ \ {<<s, m>>}, !.source = s, !.mode = m] \in Work
      BY <1>w DEF Work
    <3> QED
      BY <2>2, <3>1, NowType DEF InnerAdd, Types, sets
  <2>3. CASE Remove(t, s, m)
    <3>1. [w EXCEPT !.pc = IF s \in members[w.loop][m] THEN "callout"
                                                       ELSE "next",
                    !.todo = @ \ {<<s, m>>}, !.source = s, !.mode = m] \in Work
      BY <1>w DEF Work
    <3>2. members' \in [Loops -> [Modes -> SUBSET Sources]]
      <4>1. members[w.loop][m] \ {s} \in SUBSET Sources
        BY <1>w DEF Types
      <4>2. members' = [members EXCEPT ![w.loop][m] = members[w.loop][m] \ {s}]
        BY <2>3 DEF Remove
      <4> QED
        BY <4>1, <4>2, <1>w, NewMembers
    <3>3. runLoops' \in [Sources -> [Loops -> Nat]]
      <4>1. CASE s \in members[w.loop][m] /\ runLoops[s][w.loop] > 0
        <5>1. runLoops' = [runLoops EXCEPT ![s][w.loop] =
                                             runLoops[s][w.loop] - 1]
          BY <2>3, <4>1 DEF Remove
        <5>2. runLoops[s][w.loop] - 1 \in Nat
          BY <4>1, <1>w DEF Types
        <5> QED
          BY <5>1, <5>2, <1>w, NewCount
      <4>2. CASE ~(s \in members[w.loop][m] /\ runLoops[s][w.loop] > 0)
        BY <2>3, <4>2 DEF Remove, Types
      <4> QED
        BY <4>1, <4>2
    <3>4. taken' \subseteq Sources \X Loops \X Modes
      BY <2>3, <1>w DEF Remove, Types
    <3> QED
      BY <2>3, <3>1, <3>2, <3>3, <3>4, NowType DEF Remove, Types
  <2> QED
    BY <2>1, <2>2, <2>3
<1>7. CASE Insert(t)
  <2>1. /\ [w EXCEPT !.pc = "next"] \in Work
        /\ [w EXCEPT !.pc = "callout"] \in Work
    BY <1>w DEF Work
  <2>2. \/ UNCHANGED <<members, runLoops>>
        \/ /\ members' = [members EXCEPT ![w.loop][w.mode] =
                                   members[w.loop][w.mode] \cup {w.source}]
           /\ runLoops' = [runLoops EXCEPT ![w.source][w.loop] =
                                   runLoops[w.source][w.loop] + 1]
    BY <1>7 DEF Insert, PutInMode
  <2>3. /\ members' \in [Loops -> [Modes -> SUBSET Sources]]
        /\ runLoops' \in [Sources -> [Loops -> Nat]]
    <3>1. /\ members[w.loop][w.mode] \cup {w.source} \in SUBSET Sources
          /\ runLoops[w.source][w.loop] + 1 \in Nat
      BY <1>w DEF Types
    <3>2. CASE UNCHANGED <<members, runLoops>>
      BY <3>2 DEF Types
    <3>3. CASE ~UNCHANGED <<members, runLoops>>
      <4>1. members' \in [Loops -> [Modes -> SUBSET Sources]]
        BY <2>2, <3>1, <3>3, <1>w, NewMembers
      <4>2. runLoops' \in [Sources -> [Loops -> Nat]]
        BY <2>2, <3>1, <3>3, <1>w, NewCount
      <4> QED
        BY <4>1, <4>2
    <3> QED
      BY <3>2, <3>3
  <2>4. late' \subseteq Sources /\ taken' \subseteq Sources \X Loops \X Modes
    BY <1>7, <1>w DEF Insert, PutInMode, Types
  <2>5. work' \in [Threads -> Work]
    BY <1>7, <2>1, NowType DEF Insert
  <2> QED
    BY <1>7, <2>3, <2>4, <2>5 DEF Insert, Types
<1>8. CASE BeginCallout(t)
  <2>1. [w EXCEPT !.pc = "calling"] \in Work
    BY <1>w DEF Work
  <2>2. told' \in [Sources -> [Loops -> [Modes -> Int]]]
    BY <1>8, <1>w DEF BeginCallout, Types
  <2>3. guard' \in [Sources -> Threads \cup {Free}]
    BY <1>8, <1>w DEF BeginCallout, Types
  <2> QED
    BY <1>8, <2>1, <2>2, <2>3, NowType DEF BeginCallout, Types, sets
<1>9. CASE EndCallout(t) \/ ContainsSource(t)
  <2>1. [w EXCEPT !.pc = "next"] \in Work
    BY <1>w DEF Work
  <2>2. guard' \in [Sources -> Threads \cup {Free}]
    BY <1>9, <1>w DEF EndCallout, ContainsSource, Types
  <2> QED
    BY <1>9, <2>1, <2>2, NowType DEF EndCallout, ContainsSource, Types, sets
<1> QED
  BY <1>1, <1>2, <1>3, <1>4, <1>5, <1>6, <1>7, <1>8, <1>9 DEF Continue

-----------------------------------------------------------------------------
(* The bag of loops.                                                        *)

LEMMA ModesFinite ==
  ASSUME NEW s, NEW l
  PROVE  /\ IsFiniteSet(ModesWith(s, l))
         /\ Cardinality(ModesWith(s, l)) \in 0..Cardinality(Modes)
         /\ Cardinality(Modes) \in Nat
<1>1. ModesWith(s, l) \in SUBSET Modes
  BY DEF ModesWith
<1>2. IsFiniteSet(ModesWith(s, l))
      /\ Cardinality(ModesWith(s, l)) <= Cardinality(Modes)
  BY <1>1, FS_Subset, ModesAssumption
<1> QED
  BY <1>2, FS_CardinalityType, ModesAssumption

\* s joins mode m of loop l.
LEMMA JoinCounts ==
  ASSUME Types, Bags, NEW s \in Sources, NEW l \in Loops, NEW m \in Modes,
         s \notin members[l][m],
         members' = [members EXCEPT ![l][m] = members[l][m] \cup {s}],
         runLoops' = [runLoops EXCEPT ![s][l] = runLoops[s][l] + 1],
         valid' = valid
  PROVE  Bags'
<1>1. SUFFICES ASSUME NEW r \in Sources, NEW k \in Loops
               PROVE  /\ runLoops'[r][k] <= Cardinality(ModesWith(r, k)')
                      /\ r \in valid' =>
                           runLoops'[r][k] = Cardinality(ModesWith(r, k)')
  BY DEF Bags
<1>2. members[l][m] \cup {s} \in SUBSET Sources /\ runLoops[s][l] + 1 \in Nat
  BY DEF Types
<1>3. /\ \A i \in Loops, n \in Modes :
           members'[i][n] = IF i = l /\ n = m THEN members[l][m] \cup {s}
                                              ELSE members[i][n]
      /\ runLoops'[r][k] = IF r = s /\ k = l THEN runLoops[s][l] + 1
                                             ELSE runLoops[r][k]
  <2>1. runLoops'[r][k] = IF r = s /\ k = l THEN runLoops[s][l] + 1
                                            ELSE runLoops[r][k]
    BY <1>2, NewCount
  <2> QED
    BY <1>2, <2>1, NewMembers
<1>4. /\ runLoops[r][k] \in Nat
      /\ runLoops[r][k] <= Cardinality(ModesWith(r, k))
      /\ r \in valid => runLoops[r][k] = Cardinality(ModesWith(r, k))
  BY DEF Types, Bags
<1>5. CASE r = s /\ k = l
  <2>1. ModesWith(r, k)' = ModesWith(r, k) \cup {m} /\ m \notin ModesWith(r, k)
    BY <1>3, <1>5 DEF ModesWith
  <2>2. Cardinality(ModesWith(r, k)') = Cardinality(ModesWith(r, k)) + 1
    BY <2>1, ModesFinite, FS_AddElement
  <2> QED
    BY <2>2, <1>3, <1>4, <1>5, ModesFinite
<1>6. CASE ~(r = s /\ k = l)
  <2>1. ModesWith(r, k)' = ModesWith(r, k)
    BY <1>3, <1>6 DEF ModesWith
  <2> QED
    BY <2>1, <1>3, <1>4, <1>6
<1> QED
  BY <1>5, <1>6

\* s leaves mode m of loop l.
LEMMA LeaveCounts ==
  ASSUME Types, Bags, NEW s \in Sources, NEW l \in Loops, NEW m \in Modes,
         s \in members[l][m],
         members' = [members EXCEPT ![l][m] = members[l][m] \ {s}],
         runLoops' = IF runLoops[s][l] > 0
                       THEN [runLoops EXCEPT ![s][l] = runLoops[s][l] - 1]
                       ELSE runLoops,
         valid' = valid
  PROVE  Bags'
<1>1. SUFFICES ASSUME NEW r \in Sources, NEW k \in Loops
               PROVE  /\ runLoops'[r][k] <= Cardinality(ModesWith(r, k)')
                      /\ r \in valid' =>
                           runLoops'[r][k] = Cardinality(ModesWith(r, k)')
  BY DEF Bags
<1>2. members[l][m] \ {s} \in SUBSET Sources
  BY DEF Types
<1>3. \A i \in Loops, n \in Modes :
        members'[i][n] = IF i = l /\ n = m THEN members[l][m] \ {s}
                                           ELSE members[i][n]
  BY <1>2, NewMembers
<1>4. /\ runLoops[r][k] \in Nat
      /\ runLoops[r][k] <= Cardinality(ModesWith(r, k))
      /\ r \in valid => runLoops[r][k] = Cardinality(ModesWith(r, k))
  BY DEF Types, Bags
<1>5. runLoops'[r][k] = IF r = s /\ k = l /\ runLoops[r][k] > 0
                          THEN runLoops[r][k] - 1 ELSE runLoops[r][k]
  <2>1. CASE runLoops[s][l] > 0
    <3>1. runLoops[s][l] - 1 \in Nat
      BY <2>1 DEF Types
    <3> QED
      BY <2>1, <3>1, NewCount
  <2>2. CASE ~(runLoops[s][l] > 0)
    BY <2>2
  <2> QED
    BY <2>1, <2>2
<1>6. CASE r = s /\ k = l
  <2>1. ModesWith(r, k)' = ModesWith(r, k) \ {m} /\ m \in ModesWith(r, k)
    BY <1>3, <1>6 DEF ModesWith
  <2>2. Cardinality(ModesWith(r, k)') = Cardinality(ModesWith(r, k)) - 1
        /\ Cardinality(ModesWith(r, k)) > 0
    BY <2>1, ModesFinite, FS_RemoveElement, FS_EmptySet
  <2> QED
    BY <2>2, <1>4, <1>5, <1>6, ModesFinite
<1>7. CASE ~(r = s /\ k = l)
  <2>1. ModesWith(r, k)' = ModesWith(r, k)
    BY <1>3, <1>7 DEF ModesWith
  <2> QED
    BY <2>1, <1>4, <1>5, <1>7
<1> QED
  BY <1>6, <1>7

LEMMA RemovesNothing ==
  ASSUME Types, NEW t \in Threads, NEW s \in Sources, NEW m \in Modes,
         Remove(t, s, m), s \notin members[work[t].loop][m]
  PROVE  UNCHANGED <<valid, members, runLoops>>
<1>1. work[t].loop \in Loops
  BY DEF Types, Work
<1>2. UNCHANGED <<valid, runLoops>>
      /\ members' = [members EXCEPT ![work[t].loop][m] =
                                      members[work[t].loop][m] \ {s}]
  BY DEF Remove
<1>3. members[work[t].loop][m] \ {s} = members[work[t].loop][m]
  OBVIOUS
<1>4. members' = [members EXCEPT ![work[t].loop][m] = members[work[t].loop][m]]
  BY <1>2, <1>3
<1>5. members' = members
  BY <1>1, <1>4 DEF Types
<1> QED
  BY <1>2, <1>5

LEMMA BagsStep ==
  ASSUME Types, Bags, NEW t \in Threads, Call(t) \/ Continue(t)
  PROVE  Bags'
<1> DEFINE w == work[t]
<1>w. /\ w \in Work /\ w.loop \in Loops
      /\ w.source \in Sources /\ w.mode \in Modes
  BY DEF Types, Work
<1>1. CASE UNCHANGED <<valid, members, runLoops>>
  BY <1>1 DEF Bags, ModesWith
<1>2. CASE \E s \in Sources : SourceInvalidate(t, s)
  <2>1. PICK s \in Sources : SourceInvalidate(t, s)
    BY <1>2
  <2>2. /\ valid' = valid \ {s} /\ members' = members
        /\ \A r \in Sources, k \in Loops :
             runLoops'[r][k] = IF r = s THEN 0 ELSE runLoops[r][k]
    BY <2>1 DEF SourceInvalidate, Types
  <2>3. ASSUME NEW r \in Sources, NEW k \in Loops
        PROVE  /\ ModesWith(r, k)' = ModesWith(r, k)
               /\ 0 <= Cardinality(ModesWith(r, k))
    <3>1. ModesWith(r, k)' = ModesWith(r, k)
      BY <2>2 DEF ModesWith
    <3> QED
      BY <3>1, ModesFinite
  <2> QED
    BY <2>2, <2>3 DEF Bags
<1>3. CASE \E s \in Sources, m \in Modes : Remove(t, s, m)
  <2>1. PICK s \in Sources, m \in Modes : Remove(t, s, m)
    BY <1>3
  <2>2. CASE s \in members[w.loop][m]
    <3>1. /\ members' = [members EXCEPT ![w.loop][m] =
                                          members[w.loop][m] \ {s}]
          /\ runLoops' = IF runLoops[s][w.loop] > 0
                           THEN [runLoops EXCEPT ![s][w.loop] =
                                                   runLoops[s][w.loop] - 1]
                           ELSE runLoops
          /\ valid' = valid
      BY <2>1, <2>2 DEF Remove
    <3> QED
      BY <3>1, <2>2, <1>w, LeaveCounts
  <2>3. CASE s \notin members[w.loop][m]
    <3>1. UNCHANGED <<valid, members, runLoops>>
      BY <2>1, <2>3, RemovesNothing
    <3> QED
      BY <3>1 DEF Bags, ModesWith
  <2> QED
    BY <2>2, <2>3
<1>4. CASE Insert(t) /\ ~UNCHANGED <<members, runLoops>>
  <2>1. /\ w.source \notin members[w.loop][w.mode]
        /\ members' = [members EXCEPT ![w.loop][w.mode] =
                                   members[w.loop][w.mode] \cup {w.source}]
        /\ runLoops' = [runLoops EXCEPT ![w.source][w.loop] =
                                   runLoops[w.source][w.loop] + 1]
        /\ valid' = valid
    BY <1>4 DEF Insert, PutInMode
  <2> QED
    BY <2>1, <1>w, JoinCounts
<1>5. Continue(t) /\ ~Insert(t)
      /\ ~(\E s \in Sources, m \in Modes : Remove(t, s, m))
        => UNCHANGED <<valid, members, runLoops>>
  BY DEF Continue, EnterCommon, RemoveCommonItem, Return, LeaveLoop, LeftLoops,
         InnerAdd, BeginCallout, EndCallout, ContainsSource, sets
<1>6. Call(t) /\ ~(\E s \in Sources : SourceInvalidate(t, s))
        => UNCHANGED <<valid, members, runLoops>>
  BY DEF Call, AddSource, RemoveSource, AddToCommonModes,
         RemoveFromCommonModes, AddCommonMode, RemoveAllSources, TakeGuard,
         sets
<1>7. Insert(t) => valid' = valid
  BY DEF Insert
<1> QED
  BY <1>1, <1>2, <1>3, <1>4, <1>5, <1>6, <1>7

LEMMA TypesInit == Init => Types /\ Bags
<1> SUFFICES ASSUME Init PROVE Types /\ Bags
  OBVIOUS
<1>1. Types
  BY IdleType, ModesAssumption DEF Init, Types
<1>2. ASSUME NEW s \in Sources, NEW l \in Loops
      PROVE  ModesWith(s, l) = {} /\ runLoops[s][l] = 0
  BY DEF Init, ModesWith
<1> QED
  BY <1>1, <1>2, FS_EmptySet DEF Bags

LEMMA TypesStep == Types /\ Bags /\ [Next]_vars => Types' /\ Bags'
<1> SUFFICES ASSUME Types, Bags, [Next]_vars
             PROVE  Types' /\ Bags'
  OBVIOUS
<1>1. CASE UNCHANGED vars
  BY <1>1 DEF vars, Types, Bags, ModesWith
<1>2. CASE Next
  BY <1>2, CallTypes, ContinueTypes, BagsStep DEF Next
<1> QED
  BY <1>1, <1>2

LEMMA TypesAlways == Spec => [](Types /\ Bags)
  BY TypesInit, TypesStep, PTL DEF Spec

\* Every variable keeps its type.
THEOREM TypeCorrectness == Spec => []TypeOK
<1>1. Types /\ Bags => TypeOK
  BY ModesFinite DEF Types, Bags, TypeOK
<1> QED
  BY <1>1, TypesAlways, PTL

\* CFRunLoopSourceInvalidate finds the loops of a source in its bag.
THEOREM BagsAreExact == Spec => []BagCountsModes
<1>1. Types /\ Bags => BagCountsModes
  BY DEF Types, Bags, BagCountsModes, ModesWith
<1> QED
  BY <1>1, TypesAlways, PTL

-----------------------------------------------------------------------------
(* Schedule and cancel callouts.                                            *)

Change(w) == IF w.adds THEN "add" ELSE "remove"

\* The record w is that of a thread about to tell source s of the change, its
\* addition to or removal from mode m of loop l.
Tells(w, s, l, m, change) ==
  /\ w.pc = "callout" /\ Change(w) = change
  /\ w.source = s /\ w.loop = l /\ w.mode = m

Telling(s, l, m, change) ==
  {t \in Threads : Tells(work[t], s, l, m, change)}

\* What a source has been told lags behind its membership by the callouts that
\* threads are about to make.
Told ==
  \A s \in Sources, l \in Loops, m \in Modes :
    told[s][l][m] = (IF s \in members[l][m] THEN 1 ELSE 0)
                      - Cardinality(Telling(s, l, m, "add"))
                      + Cardinality(Telling(s, l, m, "remove"))

InsertsAdd == \A t \in Threads : work[t].pc = "insert" => work[t].adds

LEMMA TellingFinite ==
  ASSUME NEW s, NEW l, NEW m, NEW b
  PROVE  /\ IsFiniteSet(Telling(s, l, m, b))
         /\ Cardinality(Telling(s, l, m, b)) \in Nat
<1>1. Telling(s, l, m, b) \in SUBSET Threads
  BY DEF Telling
<1> QED
  BY <1>1, FS_Subset, FS_CardinalityType, ModesAssumption

\* Only thread t takes a step.
OnlyMoves(t) ==
  /\ work' \in [Threads -> Work]
  /\ \A u \in Threads \ {t} : work'[u] = work[u]

LEMMA TellingChange ==
  ASSUME NEW t \in Threads, OnlyMoves(t), NEW s, NEW l, NEW m, NEW b
  PROVE  Cardinality(Telling(s, l, m, b)')
           = Cardinality(Telling(s, l, m, b))
               - (IF Tells(work[t], s, l, m, b) THEN 1 ELSE 0)
               + (IF Tells(work'[t], s, l, m, b) THEN 1 ELSE 0)
<1> DEFINE old == Telling(s, l, m, b)
           rest == old \ {t}
<1>1. Telling(s, l, m, b)' = IF Tells(work'[t], s, l, m, b)
                               THEN rest \cup {t} ELSE rest
  BY DEF Telling, OnlyMoves, Tells
<1>2. t \in old <=> Tells(work[t], s, l, m, b)
  BY DEF Telling
<1>3. /\ IsFiniteSet(rest) /\ Cardinality(old) \in Nat
      /\ Cardinality(rest) = IF t \in old THEN Cardinality(old) - 1
                                          ELSE Cardinality(old)
  BY TellingFinite, FS_RemoveElement
<1>4. Cardinality(rest \cup {t}) = Cardinality(rest) + 1
  BY <1>3, FS_AddElement
<1> QED
  BY <1>1, <1>2, <1>3, <1>4

\* A step of t that neither changes a mode nor begins or makes a callout.
Quiet(t) ==
  /\ work[t].pc # "callout" /\ work'[t].pc # "callout"
  /\ work'[t].pc = "insert" => work'[t].adds
  /\ UNCHANGED <<members, told>>

LEMMA Moves ==
  ASSUME Types, NEW t \in Threads, NEW w, Now(t, w)
  PROVE  work'[t] = w /\ \A u \in Threads \ {t} : work'[u] = work[u]
  BY DEF Types, Now

LEMMA RecordType ==
  ASSUME Types, NEW t \in Threads
  PROVE  work[t] \in Work /\ work[t].loop \in Loops /\ work[t].mode \in Modes
         /\ work[t].source \in Sources
  BY DEF Types, Work

LEMMA CallQuiet ==
  ASSUME Types, NEW t \in Threads, Call(t)
  PROVE  Quiet(t) /\ \A u \in Threads \ {t} : work'[u] = work[u]
<1> DEFINE Q == Quiet(t) /\ \A u \in Threads \ {t} : work'[u] = work[u]
<1> USE IdleType
<1>1. ASSUME NEW l \in Loops, NEW s \in Sources, NEW m \in Modes,
             AddSource(t, l, s, m)
      PROVE  Q
  <2>1. work'[t] = [Idle EXCEPT !.pc = "insert", !.adds = TRUE, !.loop = l,
                                !.source = s, !.mode = m]
    BY <1>1, Moves DEF AddSource
  <2> QED
    BY <1>1, <2>1, Moves DEF AddSource, Quiet, Resting, Work, sets
<1>2. ASSUME NEW l \in Loops, NEW s \in Sources, NEW m \in Modes,
             RemoveSource(t, l, s, m)
      PROVE  Q
  <2>1. work'[t] = [Idle EXCEPT !.pc = "next", !.loop = l,
                                !.todo = {<<s, m>>}]
    BY <1>2, Moves DEF RemoveSource
  <2> QED
    BY <1>2, <2>1, Moves DEF RemoveSource, Quiet, Resting, Work, sets
<1>3. ASSUME NEW l \in Loops, NEW s \in Sources, AddToCommonModes(t, l, s)
      PROVE  Q
  <2>1. work'[t] = [Idle EXCEPT !.pc = "enter", !.adds = TRUE, !.loop = l,
                                !.source = s]
    BY <1>3, Moves DEF AddToCommonModes
  <2> QED
    BY <1>3, <2>1, Moves DEF AddToCommonModes, Quiet, Resting, Work, sets
<1>4. ASSUME NEW l \in Loops, NEW s \in Sources, RemoveFromCommonModes(t, l, s)
      PROVE  Q
  <2>1. work'[t] = [Idle EXCEPT !.pc = "next", !.loop = l, !.source = s,
                                !.held = TRUE, !.common = TRUE]
    BY <1>4, Moves DEF RemoveFromCommonModes
  <2> QED
    BY <1>4, <2>1, Moves DEF RemoveFromCommonModes, Quiet, Resting, Work, sets
<1>5. ASSUME NEW l \in Loops, NEW m \in Modes, AddCommonMode(t, l, m)
      PROVE  Q
  <2>1. work'[t] = [Idle EXCEPT !.pc = "next", !.adds = TRUE, !.loop = l,
                                !.held = TRUE, !.todo = commonItems[l] \X {m}]
    BY <1>5, Moves DEF AddCommonMode
  <2> QED
    BY <1>5, <2>1, Moves DEF AddCommonMode, Quiet, Resting, Work, sets
<1>6. ASSUME NEW l \in Loops, NEW m \in Modes, RemoveAllSources(t, l, m)
      PROVE  Q
  <2>1. work'[t] = [Idle EXCEPT !.pc = "next", !.loop = l, !.held = TRUE,
                                !.todo = members[l][m] \X {m}]
    BY <1>6, Moves DEF RemoveAllSources
  <2> QED
    BY <1>6, <2>1, Moves DEF RemoveAllSources, Quiet, Resting, Work, sets
<1>7. ASSUME NEW s \in Sources, SourceInvalidate(t, s)
      PROVE  Q
  <2>1. work'[t] = [Idle EXCEPT !.pc = "loops", !.source = s,
                                !.loops = {l \in Loops : runLoops[s][l] > 0}]
    BY <1>7, Moves DEF SourceInvalidate
  <2> QED
    BY <1>7, <2>1, Moves DEF SourceInvalidate, Quiet, Resting, Work, sets
<1>8. ASSUME NEW s \in Sources, NEW l \in Loops, TakeGuard(t, s, l)
      PROVE  Q
  <2>1. work'[t] = [Idle EXCEPT !.pc = "query", !.loop = l, !.source = s]
    BY <1>8, Moves DEF TakeGuard
  <2> QED
    BY <1>8, <2>1, Moves DEF TakeGuard, Quiet, Resting, Work, sets
<1> QED
  BY <1>1, <1>2, <1>3, <1>4, <1>5, <1>6, <1>7, <1>8 DEF Call

LEMMA ContinueQuiet ==
  ASSUME Types, NEW t \in Threads, Continue(t), ~Insert(t), ~BeginCallout(t),
         ~(\E s \in Sources, m \in Modes : Remove(t, s, m))
  PROVE  Quiet(t) /\ \A u \in Threads \ {t} : work'[u] = work[u]
<1> DEFINE w == work[t]
           Q == Quiet(t) /\ \A u \in Threads \ {t} : work'[u] = work[u]
<1> USE IdleType, RecordType
<1>1. ASSUME EnterCommon(t)
      PROVE  Q
  <2>1. work'[t] = [w EXCEPT !.pc = "next", !.held = TRUE,
                             !.todo = {w.source} \X commonModes[w.loop]]
    BY <1>1, Moves DEF EnterCommon
  <2> QED
    BY <1>1, <2>1, Moves DEF EnterCommon, Quiet, Work, sets
<1>2. ASSUME RemoveCommonItem(t)
      PROVE  Q
  <2>1. work'[t] = [w EXCEPT !.common = FALSE,
                             !.todo = IF w.source \in commonItems[w.loop]
                                        THEN {w.source} \X commonModes[w.loop]
                                        ELSE {}]
    BY <1>2, Moves DEF RemoveCommonItem
  <2> QED
    BY <1>2, <2>1, Moves DEF RemoveCommonItem, Quiet, Work, sets
<1>3. ASSUME Return(t)
      PROVE  Q
  <2>1. work'[t] = IF w.loops = {} THEN Idle
                   ELSE [w EXCEPT !.pc = "loops", !.held = FALSE]
    BY <1>3, Moves DEF Return
  <2> QED
    BY <1>3, <2>1, Moves DEF Return, Quiet, Work, sets
<1>4. ASSUME NEW l \in Loops, LeaveLoop(t, l)
      PROVE  Q
  <2>1. work'[t] = [w EXCEPT !.pc = "next", !.loop = l, !.held = TRUE,
                             !.loops = @ \ {l}, !.common = TRUE,
                             !.todo = {w.source} \X Modes]
    BY <1>4, Moves DEF LeaveLoop
  <2> QED
    BY <1>4, <2>1, Moves DEF LeaveLoop, Quiet, Work, sets
<1>5. ASSUME LeftLoops(t)
      PROVE  Q
  <2>1. work'[t] = Idle
    BY <1>5, Moves DEF LeftLoops
  <2> QED
    BY <1>5, <2>1, Moves DEF LeftLoops, Quiet, Work, sets
<1>6. ASSUME NEW s \in Sources, NEW m \in Modes, InnerAdd(t, s, m)
      PROVE  Q
  <2>1. work'[t] = [w EXCEPT !.pc = IF s \in valid THEN "insert" ELSE "next",
                             !.todo = @ \ {<<s, m>>}, !.source = s, !.mode = m]
    BY <1>6, Moves DEF InnerAdd
  <2> QED
    BY <1>6, <2>1, Moves DEF InnerAdd, Quiet, Work, sets
<1>7. ASSUME EndCallout(t)
      PROVE  Q
  <2>1. work'[t] = [w EXCEPT !.pc = "next"]
    BY <1>7, Moves DEF EndCallout
  <2> QED
    BY <1>7, <2>1, Moves DEF EndCallout, Quiet, Work, sets
<1>8. ASSUME ContainsSource(t)
      PROVE  Q
  <2>1. work'[t] = Idle
    BY <1>8, Moves DEF ContainsSource
  <2> QED
    BY <1>8, <2>1, Moves DEF ContainsSource, Quiet, Work, sets
<1> QED
  BY <1>1, <1>2, <1>3, <1>4, <1>5, <1>6, <1>7, <1>8 DEF Continue

LEMMA ToldQuiet ==
  ASSUME Types', Told, NEW t \in Threads, Quiet(t),
         \A u \in Threads \ {t} : work'[u] = work[u]
  PROVE  Told'
<1>1. SUFFICES ASSUME NEW s \in Sources, NEW l \in Loops, NEW m \in Modes
               PROVE  told'[s][l][m]
                        = (IF s \in members'[l][m] THEN 1 ELSE 0)
                            - Cardinality(Telling(s, l, m, "add")')
                            + Cardinality(Telling(s, l, m, "remove")')
  BY DEF Told
<1>2. ASSUME NEW b
      PROVE  Cardinality(Telling(s, l, m, b)')
               = Cardinality(Telling(s, l, m, b))
  <2>1. /\ OnlyMoves(t)
        /\ ~Tells(work[t], s, l, m, b) /\ ~Tells(work'[t], s, l, m, b)
    BY DEF OnlyMoves, Types, Quiet, Tells
  <2> QED
    BY <2>1, TellingChange, TellingFinite
<1> QED
  BY <1>2 DEF Told, Quiet

\* The step that puts a source into a mode, or takes it out of one, begins the
\* callout that says so.
LEMMA ToldMove ==
  ASSUME Types, Types', Told, NEW t \in Threads,
         \A u \in Threads \ {t} : work'[u] = work[u],
         NEW s \in Sources, NEW l \in Loops, NEW m \in Modes,
         NEW b \in {"add", "remove"},
         work[t].pc # "callout", Tells(work'[t], s, l, m, b),
         members' = [members EXCEPT ![l][m] =
                       IF b = "add" THEN members[l][m] \cup {s}
                                    ELSE members[l][m] \ {s}],
         s \in members[l][m] <=> b = "remove",
         told' = told
  PROVE  Told'
<1>1. SUFFICES ASSUME NEW r \in Sources, NEW k \in Loops, NEW n \in Modes
               PROVE  told'[r][k][n]
                        = (IF r \in members'[k][n] THEN 1 ELSE 0)
                            - Cardinality(Telling(r, k, n, "add")')
                            + Cardinality(Telling(r, k, n, "remove")')
  BY DEF Told
<1>2. ASSUME NEW c
      PROVE  Cardinality(Telling(r, k, n, c)')
               = Cardinality(Telling(r, k, n, c))
                   + (IF r = s /\ k = l /\ n = m /\ c = b THEN 1 ELSE 0)
  <2>1. /\ OnlyMoves(t) /\ ~Tells(work[t], r, k, n, c)
        /\ Tells(work'[t], r, k, n, c) <=> r = s /\ k = l /\ n = m /\ c = b
    BY DEF OnlyMoves, Types, Tells, Change
  <2> QED
    BY <2>1, TellingChange, TellingFinite
<1>3. r \in members'[k][n] <=> IF r = s /\ k = l /\ n = m
                                 THEN b = "add" ELSE r \in members[k][n]
  <2>1. (IF b = "add" THEN members[l][m] \cup {s}
                      ELSE members[l][m] \ {s})
          \in SUBSET Sources
    BY DEF Types
  <2>2. members'[k][n] = IF k = l /\ n = m
                           THEN IF b = "add" THEN members[l][m] \cup {s}
                                             ELSE members[l][m] \ {s}
                           ELSE members[k][n]
    BY <2>1, NewMembers
  <2> QED
    BY <2>2
<1>4. /\ Cardinality(Telling(r, k, n, "add")) \in Nat
      /\ Cardinality(Telling(r, k, n, "remove")) \in Nat
      /\ told[r][k][n] = (IF r \in members[k][n] THEN 1 ELSE 0)
                           - Cardinality(Telling(r, k, n, "add"))
                           + Cardinality(Telling(r, k, n, "remove"))
  BY TellingFinite DEF Told
<1>5. /\ Cardinality(Telling(r, k, n, "add")')
           = Cardinality(Telling(r, k, n, "add"))
               + (IF r = s /\ k = l /\ n = m /\ "add" = b THEN 1 ELSE 0)
      /\ Cardinality(Telling(r, k, n, "remove")')
           = Cardinality(Telling(r, k, n, "remove"))
               + (IF r = s /\ k = l /\ n = m /\ "remove" = b THEN 1 ELSE 0)
  BY <1>2
<1>6. CASE b = "add"
  BY <1>3, <1>4, <1>5, <1>6
<1>7. CASE b = "remove"
  BY <1>3, <1>4, <1>5, <1>7
<1> QED
  BY <1>6, <1>7

LEMMA ToldCallout ==
  ASSUME Types, Types', Told, NEW t \in Threads, BeginCallout(t)
  PROVE  Told'
<1> DEFINE w == work[t]
<1>1. /\ w.pc = "callout" /\ w \in Work /\ w.loop \in Loops
      /\ w.source \in Sources /\ w.mode \in Modes /\ w.adds \in BOOLEAN
  BY RecordType DEF BeginCallout, Work
<1>2. work'[t].pc = "calling" /\ OnlyMoves(t)
  <2>1. work'[t] = [w EXCEPT !.pc = "calling"]
        /\ \A u \in Threads \ {t} : work'[u] = work[u]
    BY Moves DEF BeginCallout
  <2> QED
    BY <2>1, <1>1 DEF OnlyMoves, Types, Work
<1>3. SUFFICES ASSUME NEW r \in Sources, NEW k \in Loops, NEW n \in Modes
               PROVE  told'[r][k][n]
                        = (IF r \in members'[k][n] THEN 1 ELSE 0)
                            - Cardinality(Telling(r, k, n, "add")')
                            + Cardinality(Telling(r, k, n, "remove")')
  BY DEF Told
<1>4. ASSUME NEW c
      PROVE  Cardinality(Telling(r, k, n, c)')
               = Cardinality(Telling(r, k, n, c))
                   - (IF Tells(w, r, k, n, c) THEN 1 ELSE 0)
  <2>1. ~Tells(work'[t], r, k, n, c)
    BY <1>2 DEF Tells
  <2> QED
    BY <1>2, <2>1, TellingChange, TellingFinite
<1>5. told'[r][k][n] =
        IF r = w.source /\ k = w.loop /\ n = w.mode
          THEN IF w.adds THEN told[r][k][n] + 1 ELSE told[r][k][n] - 1
          ELSE told[r][k][n]
  BY <1>1 DEF BeginCallout, Types
<1>6. /\ Cardinality(Telling(r, k, n, "add")) \in Nat
      /\ Cardinality(Telling(r, k, n, "remove")) \in Nat
      /\ told[r][k][n] = (IF r \in members[k][n] THEN 1 ELSE 0)
                           - Cardinality(Telling(r, k, n, "add"))
                           + Cardinality(Telling(r, k, n, "remove"))
  BY TellingFinite DEF Told
<1>7. /\ Cardinality(Telling(r, k, n, "add")')
           = Cardinality(Telling(r, k, n, "add"))
               - (IF Tells(w, r, k, n, "add") THEN 1 ELSE 0)
      /\ Cardinality(Telling(r, k, n, "remove")')
           = Cardinality(Telling(r, k, n, "remove"))
               - (IF Tells(w, r, k, n, "remove") THEN 1 ELSE 0)
  BY <1>4
<1>8. members' = members
  BY DEF BeginCallout, sets
<1>9. CASE w.adds
  BY <1>1, <1>5, <1>6, <1>7, <1>8, <1>9 DEF Tells, Change
<1>10. CASE ~w.adds
  BY <1>1, <1>5, <1>6, <1>7, <1>8, <1>10 DEF Tells, Change
<1> QED
  BY <1>9, <1>10

LEMMA ToldStep ==
  ASSUME Types, Types', Told, InsertsAdd,
         NEW t \in Threads, Call(t) \/ Continue(t)
  PROVE  Told' /\ InsertsAdd'
<1> DEFINE w == work[t]
<1>w. /\ w \in Work /\ w.loop \in Loops
      /\ w.source \in Sources /\ w.mode \in Modes
  BY RecordType
<1>1. CASE Quiet(t) /\ \A u \in Threads \ {t} : work'[u] = work[u]
  BY <1>1, ToldQuiet DEF InsertsAdd, Quiet
<1>2. CASE \E s \in Sources, m \in Modes : Remove(t, s, m)
  <2>1. PICK s \in Sources, m \in Modes : Remove(t, s, m)
    BY <1>2
  <2>2. /\ work'[t] = [w EXCEPT !.pc = IF s \in members[w.loop][m]
                                         THEN "callout" ELSE "next",
                                !.todo = @ \ {<<s, m>>},
                                !.source = s, !.mode = m]
        /\ \A u \in Threads \ {t} : work'[u] = work[u]
    BY <2>1, Moves DEF Remove
  <2>3. w.pc = "next" /\ ~w.adds /\ told' = told
    BY <2>1 DEF Remove
  <2>4. InsertsAdd'
    BY <1>w, <2>2, <2>3 DEF InsertsAdd, Work
  <2>5. CASE s \in members[w.loop][m]
    <3>1. Tells(work'[t], s, w.loop, m, "remove")
      BY <1>w, <2>2, <2>3, <2>5 DEF Tells, Change, Work
    <3>2. members' = [members EXCEPT ![w.loop][m] = members[w.loop][m] \ {s}]
      BY <2>1 DEF Remove
    <3> QED
      BY <1>w, <2>2, <2>3, <2>4, <2>5, <3>1, <3>2, ToldMove
  <2>6. CASE s \notin members[w.loop][m]
    <3>1. members' = members
      BY <2>1, <2>6, RemovesNothing
    <3>2. Quiet(t)
      BY <1>w, <2>2, <2>3, <2>6, <3>1 DEF Quiet, Work
    <3> QED
      BY <2>2, <2>4, <3>2, ToldQuiet
  <2> QED
    BY <2>5, <2>6
<1>3. CASE Insert(t)
  <2>1. w.pc = "insert" /\ w.adds /\ told' = told
    BY <1>3 DEF Insert, InsertsAdd
  <2>2. CASE w.source \in members[w.loop][w.mode]
    <3>1. /\ work'[t] = [w EXCEPT !.pc = "next"] /\ members' = members
          /\ \A u \in Threads \ {t} : work'[u] = work[u]
      BY <1>3, <2>2, Moves DEF Insert
    <3>2. Quiet(t)
      BY <1>w, <2>1, <3>1 DEF Quiet, Work
    <3> QED
      BY <3>1, <3>2, ToldQuiet DEF InsertsAdd, Quiet
  <2>3. CASE w.source \notin members[w.loop][w.mode]
    <3>1. /\ work'[t] = [w EXCEPT !.pc = "callout"]
          /\ \A u \in Threads \ {t} : work'[u] = work[u]
      BY <1>3, <2>3, Moves DEF Insert
    <3>2. members' = [members EXCEPT ![w.loop][w.mode] =
                                members[w.loop][w.mode] \cup {w.source}]
      BY <1>3, <2>3 DEF Insert, PutInMode
    <3>3. Tells(work'[t], w.source, w.loop, w.mode, "add")
      BY <1>w, <2>1, <3>1 DEF Tells, Change, Work
    <3>4. InsertsAdd'
      BY <1>w, <3>1 DEF InsertsAdd, Work
    <3> QED
      BY <1>w, <2>1, <2>3, <3>1, <3>2, <3>3, <3>4, ToldMove
  <2> QED
    BY <2>2, <2>3
<1>4. CASE BeginCallout(t)
  <2>1. /\ work'[t] = [w EXCEPT !.pc = "calling"]
        /\ \A u \in Threads \ {t} : work'[u] = work[u]
    BY <1>4, Moves DEF BeginCallout
  <2>2. InsertsAdd'
    BY <1>w, <2>1 DEF InsertsAdd, Work
  <2> QED
    BY <1>4, <2>2, ToldCallout
<1> QED
  BY <1>1, <1>2, <1>3, <1>4, CallQuiet, ContinueQuiet

\* CFRunLoopAddSource and CFRunLoopRemoveSource call out after unlocking: in
\* whatever order the callouts come, they balance.
THEOREM CalloutsDoBalance == Spec => []CalloutsBalance
<1> DEFINE I == Types /\ Bags /\ Told /\ InsertsAdd
<1>1. Init => I
  <2> SUFFICES ASSUME Init PROVE I
    OBVIOUS
  <2>1. InsertsAdd
    BY IdleType DEF Init, InsertsAdd
  <2>2. ASSUME NEW s \in Sources, NEW l \in Loops, NEW m \in Modes, NEW b
        PROVE  Telling(s, l, m, b) = {}
    BY IdleType DEF Init, Telling, Tells
  <2>3. Told
    <3>1. ASSUME NEW s \in Sources, NEW l \in Loops, NEW m \in Modes
          PROVE  told[s][l][m] = 0 /\ s \notin members[l][m]
      BY DEF Init
    <3> QED
      BY <2>2, <3>1, FS_EmptySet DEF Told
  <2> QED
    BY <2>1, <2>3, TypesInit
<1>2. I /\ [Next]_vars => I'
  <2> SUFFICES ASSUME I, [Next]_vars
               PROVE  I'
    OBVIOUS
  <2>1. Types' /\ Bags'
    BY TypesStep
  <2>2. CASE UNCHANGED vars
    <3>1. InsertsAdd'
      BY <2>2 DEF vars, InsertsAdd
    <3>2. \A s, l, m, c : Telling(s, l, m, c)' = Telling(s, l, m, c)
      BY <2>2 DEF vars, Telling
    <3>3. Told'
      BY <2>2, <3>2 DEF vars, Told
    <3> QED
      BY <2>1, <3>1, <3>3
  <2>3. CASE Next
    BY <2>1, <2>3, ToldStep DEF Next
  <2> QED
    BY <2>2, <2>3
<1>3. I => CalloutsBalance
  <2> SUFFICES ASSUME I, NEW s \in Sources, NEW l \in Loops, NEW m \in Modes,
                      \A t \in Threads :
                        ~(/\ work[t].pc = "callout" /\ work[t].source = s
                          /\ work[t].loop = l /\ work[t].mode = m)
               PROVE  told[s][l][m] = IF s \in members[l][m] THEN 1 ELSE 0
    BY DEF CalloutsBalance
  <2>1. ASSUME NEW b PROVE Telling(s, l, m, b) = {}
    BY DEF Telling, Tells
  <2> QED
    BY <2>1, FS_EmptySet DEF Told
<1> QED
  BY <1>1, <1>2, <1>3, PTL DEF Spec

-----------------------------------------------------------------------------
(* Invalidation.                                                            *)

\* Thread t has yet to take the invalid source s out of mode m of loop l.
Leaving(t, s, l, m) ==
  LET w == work[t] IN
  /\ w.source = s /\ ~w.adds /\ w.todo \subseteq {s} \X Modes
  /\ \/ w.pc = "loops" /\ l \in w.loops
     \/ /\ w.held /\ w.pc \in {"next", "callout", "calling"}
        /\ l \in w.loops \/ (w.loop = l /\ <<s, m>> \in w.todo)

\* Whatever an invalid source is still in, unless it came late, is going to be
\* left by the thread that invalidates it.
Left ==
  \A s \in Sources \ (valid \cup late), l \in Loops, m \in Modes :
    s \in members[l][m] => \E t \in Threads : Leaving(t, s, l, m)

\* A source joins a mode only by an insertion, which is late if it is invalid.
LEMMA OnlyInsertJoins ==
  ASSUME Types, NEW t \in Threads, Call(t) \/ Continue(t),
         NEW s \in Sources, NEW l \in Loops, NEW m \in Modes,
         s \in members'[l][m], s \notin members[l][m]
  PROVE  /\ Insert(t) /\ PutInMode(s, l, m)
         /\ work[t].source = s /\ work[t].loop = l /\ work[t].mode = m
<1> DEFINE w == work[t]
<1>w. /\ w \in Work /\ w.loop \in Loops
      /\ w.source \in Sources /\ w.mode \in Modes
  BY RecordType
<1>1. Call(t) => members' = members
  BY DEF Call, AddSource, RemoveSource, AddToCommonModes, SourceInvalidate,
         RemoveFromCommonModes, AddCommonMode, RemoveAllSources, TakeGuard,
         sets
<1>2. ASSUME NEW r \in Sources, NEW n \in Modes, Remove(t, r, n)
      PROVE  FALSE
  <2>1. members' = [members EXCEPT ![w.loop][n] = members[w.loop][n] \ {r}]
    BY <1>2 DEF Remove
  <2>2. members[w.loop][n] \ {r} \in SUBSET Sources
    BY <1>w DEF Types
  <2> QED
    BY <1>w, <2>1, <2>2, NewMembers
<1>3. Insert(t)
  <2>1. Continue(t) /\ ~(\E r \in Sources, n \in Modes : Remove(t, r, n))
        /\ ~Insert(t) => members' = members
    BY DEF Continue, EnterCommon, RemoveCommonItem, Return, LeaveLoop,
           LeftLoops, InnerAdd, BeginCallout, EndCallout, ContainsSource, sets
  <2> QED
    BY <1>1, <1>2, <2>1
<1>4. /\ PutInMode(w.source, w.loop, w.mode)
      /\ members' = [members EXCEPT ![w.loop][w.mode] =
                                      members[w.loop][w.mode] \cup {w.source}]
  BY <1>3 DEF Insert, PutInMode
<1>5. members[w.loop][w.mode] \cup {w.source} \in SUBSET Sources
  BY <1>w DEF Types
<1>6. w.source = s /\ w.loop = l /\ w.mode = m
  BY <1>w, <1>4, <1>5, NewMembers
<1> QED
  BY <1>3, <1>4, <1>6

\* A thread that has to take s out of a mode goes on to do it.
LEMMA LeavingGoesOn ==
  ASSUME Types, NEW t \in Threads, Call(t) \/ Continue(t),
         NEW s \in Sources, NEW l \in Loops, NEW m \in Modes,
         Leaving(t, s, l, m), s \in members'[l][m]
  PROVE  Leaving(t, s, l, m)'
<1> DEFINE w == work[t]
<1>w. /\ w \in Work /\ w.loop \in Loops
      /\ w.source \in Sources /\ w.mode \in Modes
      /\ w.todo \in SUBSET Pairs /\ w.loops \in SUBSET Loops
  BY RecordType DEF Work
<1>1. ~Call(t)
  BY DEF Leaving, Call, AddSource, RemoveSource, AddToCommonModes, Resting,
         SourceInvalidate, RemoveFromCommonModes, AddCommonMode,
         RemoveAllSources, TakeGuard
<1>2. ~EnterCommon(t) /\ ~Insert(t) /\ ~ContainsSource(t) /\ ~LeftLoops(t)
  BY DEF Leaving, EnterCommon, Insert, ContainsSource, LeftLoops
<1>3. ASSUME NEW r \in Sources, NEW n \in Modes, InnerAdd(t, r, n)
      PROVE  FALSE
  BY <1>3 DEF Leaving, InnerAdd
<1>4. CASE RemoveCommonItem(t)
  <2>1. work'[t] = [w EXCEPT !.common = FALSE,
                             !.todo = IF w.source \in commonItems[w.loop]
                                        THEN {w.source} \X commonModes[w.loop]
                                        ELSE {}]
    BY <1>4, Moves DEF RemoveCommonItem
  <2>2. commonModes[w.loop] \subseteq Modes
    BY <1>w DEF Types
  <2>3. /\ work'[t].source = s /\ ~work'[t].adds /\ work'[t].held
        /\ work'[t].pc = "next" /\ l \in work'[t].loops
    BY <1>4, <1>w, <2>1 DEF RemoveCommonItem, Leaving, Work
  <2>4. work'[t].todo \subseteq {s} \X Modes
    BY <1>w, <2>1, <2>2 DEF Leaving, Work
  <2> QED
    BY <2>3, <2>4 DEF Leaving
<1>5. CASE Return(t)
  <2>1. l \in w.loops /\ w.todo = {} /\ w.source = s /\ ~w.adds
    BY <1>5 DEF Return, Leaving
  <2>2. work'[t] = [w EXCEPT !.pc = "loops", !.held = FALSE]
    BY <1>5, <2>1, Moves DEF Return
  <2> QED
    BY <1>w, <2>1, <2>2 DEF Leaving, Work
<1>6. ASSUME NEW k \in Loops, LeaveLoop(t, k)
      PROVE  Leaving(t, s, l, m)'
  <2>1. work'[t] = [w EXCEPT !.pc = "next", !.loop = k, !.held = TRUE,
                             !.loops = @ \ {k}, !.common = TRUE,
                             !.todo = {w.source} \X Modes]
    BY <1>6, Moves DEF LeaveLoop
  <2>2. w.source = s /\ ~w.adds /\ l \in w.loops
    BY <1>6 DEF LeaveLoop, Leaving
  <2> QED
    BY <1>w, <2>1, <2>2 DEF Leaving, Work
<1>7. ASSUME NEW r \in Sources, NEW n \in Modes, Remove(t, r, n)
      PROVE  Leaving(t, s, l, m)'
  <2>1. work'[t] = [w EXCEPT !.pc = IF r \in members[w.loop][n]
                                      THEN "callout" ELSE "next",
                             !.todo = @ \ {<<r, n>>},
                             !.source = r, !.mode = n]
    BY <1>7, Moves DEF Remove
  <2>2. /\ w.pc = "next" /\ <<r, n>> \in w.todo
        /\ w.todo \subseteq {s} \X Modes
        /\ ~w.adds /\ w.held
        /\ l \in w.loops \/ (w.loop = l /\ <<s, m>> \in w.todo)
    BY <1>7 DEF Remove, Leaving
  <2>3. r = s
    BY <2>2
  <2>4. ~(w.loop = l /\ n = m)
    <3>1. members' = [members EXCEPT ![w.loop][n] = members[w.loop][n] \ {r}]
      BY <1>7 DEF Remove
    <3>2. members[w.loop][n] \ {r} \in SUBSET Sources
      BY <1>w DEF Types
    <3> QED
      BY <1>w, <2>3, <3>1, <3>2, NewMembers
  <2>5. /\ work'[t].source = r /\ work'[t].adds = w.adds
        /\ work'[t].held = w.held
    BY <1>w, <2>1 DEF Work
  <2>6. work'[t].pc \in {"next", "callout"}
    BY <1>w, <2>1 DEF Work
  <2>7. /\ work'[t].loops = w.loops /\ work'[t].loop = w.loop
        /\ work'[t].todo = w.todo \ {<<r, n>>}
    BY <1>w, <2>1 DEF Work
  <2>8. <<s, m>> \in w.todo /\ w.loop = l => <<s, m>> \in work'[t].todo
    BY <2>4, <2>7
  <2> QED
    BY <2>2, <2>3, <2>5, <2>6, <2>7, <2>8 DEF Leaving
<1>8. CASE BeginCallout(t)
  <2>1. work'[t] = [w EXCEPT !.pc = "calling"] /\ w.pc = "callout"
    BY <1>8, Moves DEF BeginCallout
  <2> QED
    BY <1>w, <2>1 DEF Leaving, Work
<1>9. CASE EndCallout(t)
  <2>1. work'[t] = [w EXCEPT !.pc = "next"] /\ w.pc = "calling"
    BY <1>9, Moves DEF EndCallout
  <2> QED
    BY <1>w, <2>1 DEF Leaving, Work
<1> QED
  BY <1>1, <1>2, <1>3, <1>4, <1>5, <1>6, <1>7, <1>8, <1>9 DEF Continue

\* The other threads stay where they are.
LEMMA OthersStay ==
  ASSUME Types, NEW t \in Threads, Call(t) \/ Continue(t)
  PROVE  \A u \in Threads \ {t} : work'[u] = work[u]
<1>2. ASSUME NEW s \in Sources, NEW m \in Modes, Remove(t, s, m)
      PROVE  \A u \in Threads \ {t} : work'[u] = work[u]
  BY <1>2, Moves DEF Remove
<1>3. CASE Insert(t)
  BY <1>3, Moves DEF Insert
<1>4. CASE BeginCallout(t)
  BY <1>4, Moves DEF BeginCallout
<1> QED
  BY <1>2, <1>3, <1>4, CallQuiet, ContinueQuiet

\* Validity only ever goes, and lateness only ever comes.
LEMMA ValidGoes ==
  ASSUME Types, NEW t \in Threads, Call(t) \/ Continue(t)
  PROVE  valid' \subseteq valid /\ late \subseteq late'
<1>1. CASE Call(t)
  BY <1>1 DEF Call, AddSource, RemoveSource, AddToCommonModes, Types,
              SourceInvalidate, RemoveFromCommonModes, AddCommonMode,
              RemoveAllSources, TakeGuard,
         sets
<1>2. CASE Continue(t)
  BY <1>2 DEF Continue, EnterCommon, RemoveCommonItem, Return, LeaveLoop,
              LeftLoops, InnerAdd, Remove, Insert, PutInMode, BeginCallout,
              EndCallout, ContainsSource, sets
<1> QED
  BY <1>1, <1>2

\* Only an invalidation makes a source invalid.
LEMMA OnlyInvalidates ==
  ASSUME Types, NEW t \in Threads, Call(t) \/ Continue(t),
         NEW s \in valid, s \notin valid'
  PROVE  SourceInvalidate(t, s)
<1>1. CASE Call(t)
  BY <1>1 DEF Call, AddSource, RemoveSource, AddToCommonModes,
              SourceInvalidate, RemoveFromCommonModes, AddCommonMode,
              RemoveAllSources, TakeGuard,
         sets
<1>2. CASE Continue(t)
  BY <1>2 DEF Continue, EnterCommon, RemoveCommonItem, Return, LeaveLoop,
              LeftLoops, InnerAdd, Remove, Insert, BeginCallout,
              EndCallout, ContainsSource, sets
<1> QED
  BY <1>1, <1>2

\* The bag of a valid source leads its invalidation to every mode it is in.
LEMMA InvalidateLeaves ==
  ASSUME Types, Bags, NEW t \in Threads, NEW s \in Sources,
         SourceInvalidate(t, s), NEW l \in Loops, NEW m \in Modes,
         s \in members[l][m]
  PROVE  Leaving(t, s, l, m)'
<1>1. runLoops[s][l] > 0
  <2>1. IsFiniteSet(ModesWith(s, l)) /\ m \in ModesWith(s, l)
    BY ModesFinite DEF ModesWith
  <2>2. Cardinality(ModesWith(s, l)) # 0
    BY <2>1, FS_EmptySet
  <2> QED
    BY <2>1, <2>2, FS_CardinalityType DEF Bags, SourceInvalidate, Types
<1>2. work'[t] = [Idle EXCEPT !.pc = "loops", !.source = s,
                              !.loops = {k \in Loops : runLoops[s][k] > 0}]
  BY Moves DEF SourceInvalidate
<1> QED
  BY <1>1, <1>2, IdleType DEF Leaving, Work

LEMMA LeftStep ==
  ASSUME Types, Bags, Left, NEW t \in Threads, Call(t) \/ Continue(t)
  PROVE  Left'
<1> SUFFICES ASSUME NEW s \in Sources, s \notin valid', s \notin late',
                    NEW l \in Loops, NEW m \in Modes, s \in members'[l][m]
             PROVE  \E u \in Threads : Leaving(u, s, l, m)'
  BY DEF Left
<1>1. CASE s \in valid
  <2>1. SourceInvalidate(t, s)
    BY <1>1, OnlyInvalidates
  <2>2. members' = members
    BY <2>1 DEF SourceInvalidate
  <2> QED
    BY <2>1, <2>2, InvalidateLeaves
<1>2. CASE s \notin valid
  <2>1. s \in members[l][m]
    <3> SUFFICES ASSUME s \notin members[l][m] PROVE FALSE
      OBVIOUS
    <3>1. PutInMode(s, l, m)
      BY OnlyInsertJoins
    <3> QED
      BY <1>2, <3>1 DEF PutInMode
  <2>2. PICK u \in Threads : Leaving(u, s, l, m)
    BY <1>2, <2>1, ValidGoes DEF Left
  <2>3. CASE u = t
    BY <2>2, <2>3, LeavingGoesOn
  <2>4. CASE u # t
    <3>1. work'[u] = work[u]
      BY <2>4, OthersStay
    <3> QED
      BY <2>2, <3>1 DEF Leaving
  <2> QED
    BY <2>3, <2>4
<1> QED
  BY <1>1, <1>2

\* CFRunLoopSourceInvalidate takes the source out of every mode before it
\* returns, unless an add that saw it valid comes after.
THEOREM InvalidDoLeave == Spec => []InvalidLeaves
<1> DEFINE I == Types /\ Bags /\ Left
<1>1. Init => I
  <2> SUFFICES ASSUME Init PROVE I
    OBVIOUS
  <2>1. Left
    BY DEF Init, Left
  <2> QED
    BY <2>1, TypesInit
<1>2. I /\ [Next]_vars => I'
  <2> SUFFICES ASSUME I, [Next]_vars
               PROVE  I'
    OBVIOUS
  <2>1. Types' /\ Bags'
    BY TypesStep
  <2>2. CASE UNCHANGED vars
    BY <2>1, <2>2 DEF vars, Left, Leaving
  <2>3. CASE Next
    BY <2>1, <2>3, LeftStep DEF Next
  <2> QED
    BY <2>2, <2>3
<1>3. I => InvalidLeaves
  <2>1. ASSUME NEW t, NEW s, NEW l, NEW m, Leaving(t, s, l, m)
        PROVE  work[t].source = s /\ (work[t].pc = "loops" \/ work[t].held)
    BY <2>1, Zenon DEF Leaving
  <2> SUFFICES ASSUME I, NEW s \in Sources \ (valid \cup late),
                      NEW l \in Loops, NEW m \in Modes, s \in members[l][m]
               PROVE  \E t \in Threads :
                        /\ work[t].source = s
                        /\ work[t].pc = "loops" \/ work[t].held
    BY Zenon DEF InvalidLeaves
  <2>2. PICK t \in Threads : Leaving(t, s, l, m)
    BY SMT DEF Left
  <2>3. work[t].source = s /\ (work[t].pc = "loops" \/ work[t].held)
    BY <2>1, <2>2, Zenon
  <2> QED
    BY <2>3, Zenon
<1> QED
  BY <1>1, <1>2, <1>3, PTL DEF Spec

-----------------------------------------------------------------------------
(* The common modes.                                                        *)

\* Thread t owns the lock that its outer call holds.
Owner(t) == LET w == work[t] IN
  /\ w.held => lock[w.loop] = t
  /\ w.pc = "enter" => w.adds

Owners == \A t \in Threads : Owner(t)

\* A thread does not take a lock from another one.
LEMMA LocksStay ==
  ASSUME Types, Owners, NEW t \in Threads, Call(t) \/ Continue(t),
         NEW u \in Threads \ {t}, NEW k \in Loops, lock[k] = u
  PROVE  lock'[k] = u
<1>1. u # Free
  BY ModesAssumption
<1>2. ASSUME NEW l, Hold(t, l)
      PROVE  lock'[k] = u
  BY <1>1, <1>2 DEF Hold, Types
<1>3. CASE Return(t)
  <2>1. CASE work[t].held
    <3>1. lock[work[t].loop] = t
      BY <2>1 DEF Owners, Owner
    <3>2. lock' = [lock EXCEPT ![work[t].loop] = Free]
      BY <1>3, <2>1 DEF Return
    <3> QED
      BY <3>1, <3>2 DEF Types
  <2>2. CASE ~work[t].held
    BY <1>3, <2>2 DEF Return
  <2> QED
    BY <2>1, <2>2
<1>4. Call(t) => lock' = lock \/ \E l \in Loops : Hold(t, l)
  BY DEF Call, AddSource, RemoveSource, AddToCommonModes, TakeGuard,
         SourceInvalidate, RemoveFromCommonModes, AddCommonMode,
         RemoveAllSources
<1>5. Continue(t) /\ ~Return(t) => lock' = lock \/ \E l \in Loops : Hold(t, l)
  BY RecordType
     DEF Continue, EnterCommon, RemoveCommonItem, LeaveLoop, LeftLoops,
         InnerAdd, Remove, Insert, BeginCallout, EndCallout, ContainsSource
<1> QED
  BY <1>2, <1>3, <1>4, <1>5

\* A call that keeps the lock owns it.
LEMMA CallOwns ==
  ASSUME Types, NEW t \in Threads, Call(t)
  PROVE  Owner(t)'
<1> USE IdleType
<1>h. ASSUME NEW l \in Loops, Hold(t, l)
      PROVE  lock'[l] = t
  BY <1>h DEF Hold, Types
<1>1. ASSUME NEW l \in Loops, NEW s \in Sources, NEW m \in Modes,
             AddSource(t, l, s, m)
      PROVE  Owner(t)'
  <2>1. work'[t] = [Idle EXCEPT !.pc = "insert", !.adds = TRUE, !.loop = l,
                                !.source = s, !.mode = m]
    BY <1>1, Moves DEF AddSource
  <2> QED
    BY <2>1 DEF Owner, Work
<1>2. ASSUME NEW l \in Loops, NEW s \in Sources, NEW m \in Modes,
             RemoveSource(t, l, s, m)
      PROVE  Owner(t)'
  <2>1. work'[t] = [Idle EXCEPT !.pc = "next", !.loop = l,
                                !.todo = {<<s, m>>}]
    BY <1>2, Moves DEF RemoveSource
  <2> QED
    BY <2>1 DEF Owner, Work
<1>3. ASSUME NEW l \in Loops, NEW s \in Sources, AddToCommonModes(t, l, s)
      PROVE  Owner(t)'
  <2>1. work'[t] = [Idle EXCEPT !.pc = "enter", !.adds = TRUE, !.loop = l,
                                !.source = s]
    BY <1>3, Moves DEF AddToCommonModes
  <2> QED
    BY <2>1 DEF Owner, Work
<1>4. ASSUME NEW l \in Loops, NEW s \in Sources,
             RemoveFromCommonModes(t, l, s)
      PROVE  Owner(t)'
  <2>1. work'[t] = [Idle EXCEPT !.pc = "next", !.loop = l, !.source = s,
                                !.held = TRUE, !.common = TRUE]
    BY <1>4, Moves DEF RemoveFromCommonModes
  <2>2. lock'[l] = t
    BY <1>4, <1>h DEF RemoveFromCommonModes
  <2> QED
    BY <2>1, <2>2 DEF Owner, Work
<1>5. ASSUME NEW l \in Loops, NEW m \in Modes, AddCommonMode(t, l, m)
      PROVE  Owner(t)'
  <2>1. work'[t] = [Idle EXCEPT !.pc = "next", !.adds = TRUE, !.loop = l,
                                !.held = TRUE, !.todo = commonItems[l] \X {m}]
    BY <1>5, Moves DEF AddCommonMode
  <2>2. lock'[l] = t
    BY <1>5, <1>h DEF AddCommonMode
  <2> QED
    BY <2>1, <2>2 DEF Owner, Work
<1>6. ASSUME NEW l \in Loops, NEW m \in Modes, RemoveAllSources(t, l, m)
      PROVE  Owner(t)'
  <2>1. work'[t] = [Idle EXCEPT !.pc = "next", !.loop = l, !.held = TRUE,
                                !.todo = members[l][m] \X {m}]
    BY <1>6, Moves DEF RemoveAllSources
  <2>2. lock'[l] = t
    BY <1>6, <1>h DEF RemoveAllSources
  <2> QED
    BY <2>1, <2>2 DEF Owner, Work
<1>7. ASSUME NEW s \in Sources, SourceInvalidate(t, s)
      PROVE  Owner(t)'
  <2>1. work'[t] = [Idle EXCEPT !.pc = "loops", !.source = s,
                                !.loops = {l \in Loops : runLoops[s][l] > 0}]
    BY <1>7, Moves DEF SourceInvalidate
  <2> QED
    BY <2>1 DEF Owner, Work
<1>8. ASSUME NEW s \in Sources, NEW l \in Loops, TakeGuard(t, s, l)
      PROVE  Owner(t)'
  <2>1. work'[t] = [Idle EXCEPT !.pc = "query", !.loop = l, !.source = s]
    BY <1>8, Moves DEF TakeGuard
  <2> QED
    BY <2>1 DEF Owner, Work
<1> QED
  BY <1>1, <1>2, <1>3, <1>4, <1>5, <1>6, <1>7, <1>8 DEF Call

LEMMA ContinueOwns ==
  ASSUME Types, Owners, NEW t \in Threads, Continue(t)
  PROVE  Owner(t)'
<1> DEFINE w == work[t]
<1>w. /\ w \in Work /\ w.loop \in Loops
      /\ w.source \in Sources /\ w.mode \in Modes
  BY RecordType
<1>o. w.held => lock[w.loop] = t
  BY DEF Owners, Owner
<1>h. ASSUME NEW l \in Loops, Hold(t, l)
      PROVE  lock'[l] = t
  BY <1>h DEF Hold, Types
<1>i. ASSUME work'[t] = Idle
      PROVE  Owner(t)'
  BY <1>i, IdleType DEF Owner
<1>1. CASE EnterCommon(t)
  <2>1. work'[t] = [w EXCEPT !.pc = "next", !.held = TRUE,
                             !.todo = {w.source} \X commonModes[w.loop]]
    BY <1>1, Moves DEF EnterCommon
  <2>2. lock'[w.loop] = t
    BY <1>1, <1>w, <1>h DEF EnterCommon
  <2> QED
    BY <1>w, <2>1, <2>2 DEF Owner, Work
<1>2. CASE RemoveCommonItem(t)
  <2>1. work'[t] = [w EXCEPT !.common = FALSE,
                             !.todo = IF w.source \in commonItems[w.loop]
                                        THEN {w.source} \X commonModes[w.loop]
                                        ELSE {}]
    BY <1>2, Moves DEF RemoveCommonItem
  <2>2. lock' = lock /\ w.pc = "next"
    BY <1>2 DEF RemoveCommonItem
  <2> QED
    BY <1>w, <1>o, <2>1, <2>2 DEF Owner, Work
<1>3. CASE Return(t)
  <2>1. CASE w.loops = {}
    BY <1>3, <1>i, <2>1, Moves DEF Return
  <2>2. CASE w.loops # {}
    <3>1. work'[t] = [w EXCEPT !.pc = "loops", !.held = FALSE]
      BY <1>3, <2>2, Moves DEF Return
    <3> QED
      BY <1>w, <3>1 DEF Owner, Work
  <2> QED
    BY <2>1, <2>2
<1>4. ASSUME NEW l \in Loops, LeaveLoop(t, l)
      PROVE  Owner(t)'
  <2>1. work'[t] = [w EXCEPT !.pc = "next", !.loop = l, !.held = TRUE,
                             !.loops = @ \ {l}, !.common = TRUE,
                             !.todo = {w.source} \X Modes]
    BY <1>4, Moves DEF LeaveLoop
  <2>2. lock'[l] = t
    BY <1>4, <1>h DEF LeaveLoop
  <2> QED
    BY <1>w, <2>1, <2>2 DEF Owner, Work
<1>5. CASE LeftLoops(t) \/ ContainsSource(t)
  BY <1>5, <1>i, Moves DEF LeftLoops, ContainsSource
<1>6. ASSUME NEW s \in Sources, NEW m \in Modes, InnerAdd(t, s, m)
      PROVE  Owner(t)'
  <2>1. work'[t] = [w EXCEPT !.pc = IF s \in valid THEN "insert" ELSE "next",
                             !.todo = @ \ {<<s, m>>}, !.source = s,
                             !.mode = m]
    BY <1>6, Moves DEF InnerAdd
  <2>2. lock' = lock
    BY <1>6 DEF InnerAdd
  <2>3. work'[t].held = w.held /\ work'[t].loop = w.loop
    BY <1>w, <2>1 DEF Work
  <2>4. work'[t].pc # "enter"
    BY <1>w, <2>1 DEF Work
  <2> QED
    BY <1>o, <2>2, <2>3, <2>4 DEF Owner
<1>7. ASSUME NEW s \in Sources, NEW m \in Modes, Remove(t, s, m)
      PROVE  Owner(t)'
  <2>1. work'[t] = [w EXCEPT !.pc = IF s \in members[w.loop][m]
                                      THEN "callout" ELSE "next",
                             !.todo = @ \ {<<s, m>>}, !.source = s,
                             !.mode = m]
    BY <1>7, Moves DEF Remove
  <2>2. lock' = lock
    BY <1>7 DEF Remove
  <2>3. work'[t].held = w.held /\ work'[t].loop = w.loop
    BY <1>w, <2>1 DEF Work
  <2>4. work'[t].pc # "enter"
    BY <1>w, <2>1 DEF Work
  <2> QED
    BY <1>o, <2>2, <2>3, <2>4 DEF Owner
<1>8. CASE Insert(t) \/ BeginCallout(t) \/ EndCallout(t)
  <2>1. work'[t] = [w EXCEPT !.pc = "next"]
        \/ work'[t] = [w EXCEPT !.pc = "callout"]
        \/ work'[t] = [w EXCEPT !.pc = "calling"]
    BY <1>8, Moves DEF Insert, BeginCallout, EndCallout
  <2>2. lock' = lock
    BY <1>8 DEF Insert, BeginCallout, EndCallout
  <2> QED
    BY <1>w, <1>o, <2>1, <2>2 DEF Owner, Work
<1> QED
  BY <1>1, <1>2, <1>3, <1>4, <1>5, <1>6, <1>7, <1>8 DEF Continue

LEMMA OwnersStep ==
  ASSUME Types, Owners, NEW t \in Threads, Call(t) \/ Continue(t)
  PROVE  Owners'
<1> SUFFICES ASSUME NEW u \in Threads
             PROVE  Owner(u)'
  BY DEF Owners
<1>1. CASE u = t
  BY <1>1, CallOwns, ContinueOwns
<1>2. CASE u # t
  <2>1. work'[u] = work[u] /\ work[u].loop \in Loops
    BY <1>2, OthersStay, RecordType
  <2>2. lock[work[u].loop] = u => lock'[work[u].loop] = u
    BY <1>2, <2>1, LocksStay
  <2>3. Owner(u)
    BY DEF Owners
  <2> QED
    BY <2>1, <2>2, <2>3 DEF Owner
<1> QED
  BY <1>1, <1>2

\* Thread t has yet to put the source s into mode m of loop l.
Adding(t, s, l, m) ==
  LET w == work[t] IN
  /\ w.held /\ w.adds /\ w.loop = l
  /\ \/ w.pc \in {"next", "insert", "callout", "calling"}
        /\ <<s, m>> \in w.todo
     \/ w.pc = "insert" /\ w.source = s /\ w.mode = m

\* A valid source of the common modes is in each of them, or on its way.
Everywhere ==
  \A l \in Loops : \A s \in commonItems[l] \cap valid, m \in commonModes[l] :
    \/ s \in members[l][m] \/ <<s, l, m>> \in taken
    \/ \E t \in Threads : Adding(t, s, l, m)

\* A new item, or a new common mode, is put where it belongs by the thread
\* that brings it.
LEMMA ItemComes ==
  ASSUME Types, Owners, NEW t \in Threads, Call(t) \/ Continue(t),
         NEW l \in Loops, NEW s \in commonItems'[l],
         NEW m \in commonModes'[l],
         s \notin commonItems[l] \/ m \notin commonModes[l]
  PROVE  Adding(t, s, l, m)'
<1> DEFINE w == work[t]
<1>w. /\ w \in Work /\ w.loop \in Loops
      /\ w.source \in Sources /\ w.mode \in Modes
  BY RecordType
<1>1. EnterCommon(t) \/ \E k \in Loops, n \in Modes : AddCommonMode(t, k, n)
  <2>1. CASE RemoveCommonItem(t)
    <3>1. commonItems' = [commonItems EXCEPT ![w.loop] =
                                        commonItems[w.loop] \ {w.source}]
          /\ commonModes' = commonModes
      BY <2>1 DEF RemoveCommonItem
    <3>2. commonItems'[l] \subseteq commonItems[l]
      BY <1>w, <3>1 DEF Types
    <3> QED
      BY <3>1, <3>2
  <2>2. Call(t) => \/ commonItems' = commonItems /\ commonModes' = commonModes
                   \/ \E k \in Loops, n \in Modes : AddCommonMode(t, k, n)
    BY DEF Call, AddSource, RemoveSource, AddToCommonModes, SourceInvalidate,
           RemoveFromCommonModes, RemoveAllSources, TakeGuard,
         sets
  <2>3. Continue(t) /\ ~RemoveCommonItem(t) /\ ~EnterCommon(t)
        => commonItems' = commonItems /\ commonModes' = commonModes
    BY DEF Continue, Return, LeaveLoop, LeftLoops, InnerAdd, Remove, Insert,
           BeginCallout, EndCallout, ContainsSource, sets
  <2> QED
    BY <2>1, <2>2, <2>3
<1>2. CASE EnterCommon(t)
  <2>1. /\ commonItems' = [commonItems EXCEPT ![w.loop] =
                                        commonItems[w.loop] \cup {w.source}]
        /\ commonModes' = commonModes /\ w.pc = "enter"
    BY <1>2 DEF EnterCommon
  <2>2. l = w.loop /\ s = w.source
    BY <1>w, <2>1 DEF Types
  <2>3. work'[t] = [w EXCEPT !.pc = "next", !.held = TRUE,
                             !.todo = {w.source} \X commonModes[w.loop]]
    BY <1>2, Moves DEF EnterCommon
  <2>4. w.adds
    BY <2>1 DEF Owners, Owner
  <2>5. /\ work'[t].held /\ work'[t].adds /\ work'[t].loop = l
        /\ work'[t].pc = "next"
        /\ work'[t].todo = {s} \X commonModes[l]
    BY <1>w, <2>2, <2>3, <2>4 DEF Work
  <2> QED
    BY <2>1, <2>5 DEF Adding
<1>3. ASSUME NEW k \in Loops, NEW n \in Modes, AddCommonMode(t, k, n)
      PROVE  Adding(t, s, l, m)'
  <2>1. /\ commonModes' = [commonModes EXCEPT ![k] = commonModes[k] \cup {n}]
        /\ commonItems' = commonItems
    BY <1>3 DEF AddCommonMode
  <2>2. l = k /\ m = n
    BY <2>1 DEF Types
  <2>3. work'[t] = [Idle EXCEPT !.pc = "next", !.adds = TRUE, !.loop = k,
                                !.held = TRUE, !.todo = commonItems[k] \X {n}]
    BY <1>3, Moves DEF AddCommonMode
  <2>5. /\ work'[t].held /\ work'[t].adds /\ work'[t].loop = l
        /\ work'[t].pc = "next"
        /\ work'[t].todo = commonItems[l] \X {m}
    BY IdleType, <2>2, <2>3 DEF Work
  <2> QED
    BY <2>1, <2>5 DEF Adding
<1> QED
  BY <1>1, <1>2, <1>3

\* A source leaves a mode only by a removal, which is recorded; it is back
\* when the record goes.
LEMMA MemberOrTaken ==
  ASSUME Types, NEW t \in Threads, Call(t) \/ Continue(t),
         NEW s \in Sources, NEW l \in Loops, NEW m \in Modes,
         s \in members[l][m] \/ <<s, l, m>> \in taken
  PROVE  s \in members'[l][m] \/ <<s, l, m>> \in taken'
<1> DEFINE w == work[t]
<1>w. /\ w \in Work /\ w.loop \in Loops
      /\ w.source \in Sources /\ w.mode \in Modes
  BY RecordType
<1>1. ASSUME NEW r \in Sources, NEW n \in Modes, Remove(t, r, n)
      PROVE  s \in members'[l][m] \/ <<s, l, m>> \in taken'
  <2>1. /\ members' = [members EXCEPT ![w.loop][n] = members[w.loop][n] \ {r}]
        /\ taken' = IF r \in members[w.loop][n]
                      THEN taken \cup {<<r, w.loop, n>>} ELSE taken
    BY <1>1 DEF Remove
  <2>2. members[w.loop][n] \ {r} \in SUBSET Sources
    BY <1>w DEF Types
  <2>3. members'[l][m] = IF l = w.loop /\ m = n THEN members[w.loop][n] \ {r}
                                                 ELSE members[l][m]
    BY <1>w, <2>1, <2>2, NewMembers
  <2> QED
    BY <2>1, <2>3
<1>2. CASE Insert(t)
  <2>1. CASE w.source \in members[w.loop][w.mode]
    BY <1>2, <2>1 DEF Insert
  <2>2. CASE w.source \notin members[w.loop][w.mode]
    <3>1. /\ members' = [members EXCEPT ![w.loop][w.mode] =
                           members[w.loop][w.mode] \cup {w.source}]
          /\ taken' = taken \ {<<w.source, w.loop, w.mode>>}
      BY <1>2, <2>2 DEF Insert, PutInMode
    <3>2. members[w.loop][w.mode] \cup {w.source} \in SUBSET Sources
      BY <1>w DEF Types
    <3>3. members'[l][m] = IF l = w.loop /\ m = w.mode
                             THEN members[w.loop][w.mode] \cup {w.source}
                             ELSE members[l][m]
      BY <1>w, <3>1, <3>2, NewMembers
    <3> QED
      BY <3>1, <3>3
  <2> QED
    BY <2>1, <2>2
<1>3. Call(t) => members' = members /\ taken' = taken
  BY DEF Call, AddSource, RemoveSource, AddToCommonModes, SourceInvalidate,
         RemoveFromCommonModes, AddCommonMode, RemoveAllSources, TakeGuard,
         sets
<1>4. Continue(t) /\ ~(\E r \in Sources, n \in Modes : Remove(t, r, n))
      /\ ~Insert(t) => members' = members /\ taken' = taken
  BY DEF Continue, EnterCommon, RemoveCommonItem, Return, LeaveLoop,
         LeftLoops, InnerAdd, BeginCallout, EndCallout, ContainsSource, sets
<1> QED
  BY <1>1, <1>2, <1>3, <1>4

\* A thread that has to put s into a mode goes on to do it, s being valid.
LEMMA AddingGoesOn ==
  ASSUME Types, NEW t \in Threads, Call(t) \/ Continue(t),
         NEW s \in valid, NEW l \in Loops, NEW m \in Modes,
         Adding(t, s, l, m)
  PROVE  s \in members'[l][m] \/ Adding(t, s, l, m)'
<1> DEFINE w == work[t]
<1>w. /\ w \in Work /\ w.loop \in Loops
      /\ w.source \in Sources /\ w.mode \in Modes
      /\ w.todo \in SUBSET Pairs
  BY RecordType DEF Work
<1>a. w.held /\ w.adds /\ w.loop = l
      /\ w.pc \in {"next", "insert", "callout", "calling"}
  BY DEF Adding
<1>1. ~Call(t)
  BY <1>a DEF Call, AddSource, RemoveSource, AddToCommonModes, Resting,
         SourceInvalidate, RemoveFromCommonModes, AddCommonMode,
         RemoveAllSources, TakeGuard
<1>2. /\ ~EnterCommon(t) /\ ~LeftLoops(t) /\ ~ContainsSource(t)
      /\ ~(\E k \in Loops : LeaveLoop(t, k))
      /\ ~(\E r \in Sources, n \in Modes : Remove(t, r, n))
  BY <1>a DEF EnterCommon, LeftLoops, ContainsSource, LeaveLoop, Remove
<1>3. ~Return(t) /\ ~RemoveCommonItem(t)
  BY DEF Return, RemoveCommonItem, Adding
<1>4. ASSUME NEW r \in Sources, NEW n \in Modes, InnerAdd(t, r, n)
      PROVE  Adding(t, s, l, m)'
  <2>1. work'[t] = [w EXCEPT !.pc = IF r \in valid THEN "insert" ELSE "next",
                             !.todo = @ \ {<<r, n>>}, !.source = r,
                             !.mode = n]
    BY <1>4, Moves DEF InnerAdd
  <2>2. <<s, m>> \in w.todo
    BY <1>4 DEF InnerAdd, Adding
  <2>3. work'[t].held = w.held /\ work'[t].adds = w.adds
    BY <1>w, <2>1 DEF Work
  <2>4. /\ work'[t].loop = w.loop /\ work'[t].source = r /\ work'[t].mode = n
        /\ work'[t].todo = w.todo \ {<<r, n>>}
    BY <1>w, <2>1 DEF Work
  <2>5. work'[t].pc = IF r \in valid THEN "insert" ELSE "next"
    BY <1>w, <2>1 DEF Work
  <2> QED
    BY <1>a, <2>2, <2>3, <2>4, <2>5 DEF Adding
<1>5. CASE Insert(t)
  <2>1. CASE w.source = s /\ w.mode = m
    <3>1. CASE s \in members[l][m]
      BY <1>5, <1>a, <2>1, <3>1 DEF Insert
    <3>2. CASE s \notin members[l][m]
      <4>1. members' = [members EXCEPT ![l][m] = members[l][m] \cup {s}]
        BY <1>5, <1>a, <2>1, <3>2 DEF Insert, PutInMode
      <4>2. members[l][m] \cup {s} \in SUBSET Sources
        BY DEF Types
      <4> QED
        BY <4>1, <4>2, NewMembers
    <3> QED
      BY <3>1, <3>2
  <2>2. CASE ~(w.source = s /\ w.mode = m)
    <3>1. <<s, m>> \in w.todo
      BY <2>2 DEF Adding
    <3>2. work'[t] = [w EXCEPT !.pc = "next"]
          \/ work'[t] = [w EXCEPT !.pc = "callout"]
      BY <1>5, Moves DEF Insert
    <3> QED
      BY <1>w, <1>a, <3>1, <3>2 DEF Adding, Work
  <2> QED
    BY <2>1, <2>2
<1>6. CASE BeginCallout(t) \/ EndCallout(t)
  <2>1. <<s, m>> \in w.todo
    BY <1>6 DEF BeginCallout, EndCallout, Adding
  <2>2. work'[t] = [w EXCEPT !.pc = "next"]
        \/ work'[t] = [w EXCEPT !.pc = "calling"]
    BY <1>6, Moves DEF BeginCallout, EndCallout
  <2> QED
    BY <1>w, <1>a, <2>1, <2>2 DEF Adding, Work
<1> QED
  BY <1>1, <1>2, <1>3, <1>4, <1>5, <1>6 DEF Continue

LEMMA EverywhereStep ==
  ASSUME Types, Types', Owners, Everywhere, NEW t \in Threads,
         Call(t) \/ Continue(t)
  PROVE  Everywhere'
<1> SUFFICES ASSUME NEW l \in Loops, NEW s \in commonItems'[l] \cap valid',
                    NEW m \in commonModes'[l],
                    s \notin members'[l][m], <<s, l, m>> \notin taken'
             PROVE  \E u \in Threads : Adding(u, s, l, m)'
  BY DEF Everywhere
<1>1. s \in valid /\ s \in Sources /\ m \in Modes
  BY ValidGoes DEF Types
<1>2. CASE s \notin commonItems[l] \/ m \notin commonModes[l]
  BY <1>2, ItemComes
<1>3. CASE s \in commonItems[l] /\ m \in commonModes[l]
  <2>1. s \notin members[l][m] /\ <<s, l, m>> \notin taken
    BY <1>1, MemberOrTaken
  <2>2. PICK u \in Threads : Adding(u, s, l, m)
    BY <1>1, <1>3, <2>1 DEF Everywhere
  <2>3. CASE u = t
    BY <1>1, <2>2, <2>3, AddingGoesOn
  <2>4. CASE u # t
    <3>1. work'[u] = work[u]
      BY <2>4, OthersStay
    <3> QED
      BY <2>2, <3>1 DEF Adding
  <2> QED
    BY <2>3, <2>4
<1> QED
  BY <1>2, <1>3

\* CFRunLoopAddSource, CFRunLoopAddCommonMode: a valid source of the common
\* modes is in each of them when the loop is unlocked, removals excepted.
THEOREM CommonItemsAreEverywhere == Spec => []CommonItemsEverywhere
<1> DEFINE I == Types /\ Bags /\ Owners /\ Everywhere
<1>1. Init => I
  <2> SUFFICES ASSUME Init PROVE I
    OBVIOUS
  <2>1. Owners
    BY IdleType DEF Init, Owners, Owner
  <2>2. Everywhere
    BY DEF Init, Everywhere
  <2> QED
    BY <2>1, <2>2, TypesInit
<1>2. I /\ [Next]_vars => I'
  <2> SUFFICES ASSUME I, [Next]_vars
               PROVE  I'
    OBVIOUS
  <2>1. Types' /\ Bags'
    BY TypesStep
  <2>2. CASE UNCHANGED vars
    <3>1. Owners'
      BY <2>2 DEF vars, Owners, Owner
    <3>2. ASSUME NEW t, NEW s, NEW l, NEW m, Adding(t, s, l, m)
          PROVE  Adding(t, s, l, m)'
      BY <2>2, <3>2 DEF vars, Adding
    <3>3. Everywhere'
      <4> SUFFICES ASSUME NEW l \in Loops, NEW s \in commonItems[l] \cap valid,
                          NEW m \in commonModes[l],
                          ~(s \in members[l][m] \/ <<s, l, m>> \in taken)
                   PROVE  \E t \in Threads : Adding(t, s, l, m)'
        BY <2>2 DEF vars, Everywhere
      <4> QED
        BY <3>2 DEF Everywhere
    <3> QED
      BY <2>1, <3>1, <3>3
  <2>3. CASE Next
    BY <2>1, <2>3, OwnersStep, EverywhereStep DEF Next
  <2> QED
    BY <2>2, <2>3
<1>3. I => CommonItemsEverywhere
  <2> SUFFICES ASSUME I, NEW l \in Loops, lock[l] = Free,
                      NEW s \in commonItems[l] \cap valid,
                      NEW m \in commonModes[l]
               PROVE  s \in members[l][m] \/ <<s, l, m>> \in taken
    BY DEF CommonItemsEverywhere
  <2>1. ASSUME NEW t \in Threads, Adding(t, s, l, m)
        PROVE  FALSE
    BY <2>1, ModesAssumption DEF Adding, Owners, Owner
  <2> QED
    BY <2>1 DEF Everywhere
<1> QED
  BY <1>1, <1>2, <1>3, PTL DEF Spec

=============================================================================
