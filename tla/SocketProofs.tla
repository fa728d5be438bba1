---------------------------- MODULE SocketProofs ----------------------------
(* Proofs about Socket for any number of run loops and any kinds of sockets: *)
(* the manager listens only for what it should, whoever changed the fd sets  *)
(* after whatever he looked at; and what a client relies on is watched for,  *)
(* signalled, or about to be enabled again, so that it is not forgotten; and *)
(* what was sent is given in order, and the end of it last.                  *)
(*                                                                           *)
(* The inductive invariant SocketInv adds to the types: Owned and Entered of *)
(* the fd sets and the manager's arrays, Schedules of the loops, Managing,   *)
(* Telling and Looping of where the threads are, and Covering, Pending and   *)
(* Sleeping, which together are NothingForgotten.  OrderInv adds to it       *)
(* Receiving, Connecting, Keeping and Ending, about the items on their way   *)
(* from the other end to the client.                                         *)
EXTENDS Socket, Integers, FiniteSetTheorems, SequenceTheorems, TLAPS

AnyTypes == SUBSET (ReadTypes \cup WriteTypes)
Item     == Nat \cup {NoItem}
Sock ==
  [kind : SocketKinds, valid : BOOLEAN, connected : BOOLEAN,
   error : BOOLEAN, disabled : AnyTypes, signalled : SUBSET Sets,
   setCount : Nat, runLoops : SUBSET SocketLoops, queue : Seq(Nat)]
Active == [fds : SUBSET Sets, arrays : SUBSET Sets, wake : BOOLEAN]
Manager ==
  [at : {"copy", "select", "collect", "getError", "write",
         "receive", "read", "choose", "wake"},
   watch : SUBSET Sets, found : SUBSET Sets, error : BOOLEAN,
   item : Item, runLoops : SUBSET SocketLoops]
Source == [signaled : BOOLEAN, in : SUBSET SocketLoops]
Looper ==
  [at : {"out", "run", "asleep", "entered", "perform", "callout",
         "choose", "enable", "wake"},
   woken : BOOLEAN, item : Item, due : AnyTypes, called : BOOLEAN,
   again : AnyTypes, runLoops : SUBSET SocketLoops]
Net ==
  [inbox : Seq(Nat), sent : Nat, ended : BOOLEAN,
   link : {"trying", "up", "failed", "told"}, room : BOOLEAN]
Calls == [given : Seq(Nat), connects : Nat, left : AnyTypes]

LEMMA TypesAre ==
  SocketTypeOK <=> /\ sock \in Sock /\ active \in Active /\ manager \in Manager
                   /\ source \in Source /\ loop \in [SocketLoops -> Looper]
                   /\ net \in Net /\ calls \in Calls
BY DEF SocketTypeOK, Sock, Active, Manager, Source, Looper, Net, Calls,
       AnyTypes, Item

LEMMA SockFields ==
  \A s \in Sock :
    /\ s.kind \in SocketKinds /\ s.valid \in BOOLEAN /\ s.connected \in BOOLEAN
    /\ s.error \in BOOLEAN /\ s.disabled \in AnyTypes
    /\ s.signalled \in SUBSET Sets /\ s.setCount \in Nat
    /\ s.runLoops \in SUBSET SocketLoops /\ s.queue \in Seq(Nat)
BY DEF Sock

-----------------------------------------------------------------------------
(* The invariant.                                                          *)

Reads(s) == s.kind.types \cap ReadTypes

\* What is watched for is in the arrays, which a socket is in only while it is
\* scheduled; nothing that is disabled is read.
Owned(s, a) ==
  /\ a.fds \subseteq a.arrays
  /\ a.arrays # {} => s.valid /\ IsScheduled(s)
  /\ "read" \in a.arrays => Reads(s) # {}
  /\ s.disabled \subseteq s.kind.types
  /\ "read" \in a.fds /\ "accept" \notin s.kind.types => Reads(s) \ s.disabled # {}

\* A socket is in the arrays from when it is scheduled.
Entered(s, a) ==
  s.valid /\ IsScheduled(s) =>
    /\ Reads(s) # {} => "read" \in a.arrays
    /\ "write" \in s.kind.types => "write" \in a.arrays

\* __CFSocketEnableCallBacks does something; which types stay disabled, and
\* which fd sets the socket enters.
Enables(s, types) == types # {} /\ s.valid /\ IsScheduled(s)
Disabled(s, types, force) ==
  IF force THEN s.disabled \ (types \cap s.kind.types) ELSE s.disabled
Writes(s, types) ==
  IF Settled(s) \/ "connect" \notin types \cap s.kind.types THEN "write"
                                                            ELSE "connect"
Wanted(s, types, force) ==
  {x \in Sets :
     IF x = "write"
     THEN Writes(s, types) \in (types \cap s.kind.types) \ Disabled(s, types, force)
     ELSE /\ types \cap Reads(s) # {}
          /\ Disabled(s, types, force) \cap {"read", "data"} = {}}

SameSocket(s) ==
  /\ sock'.kind = s.kind /\ sock'.valid = s.valid
  /\ sock'.setCount = s.setCount /\ sock'.runLoops = s.runLoops

LEMMA SetFDsFields ==
  ASSUME NEW a \in Active, NEW sets \in SUBSET Sets
  PROVE  /\ SetFDs(a, sets) \in Active
         /\ SetFDs(a, sets).fds = a.fds \cup sets
         /\ SetFDs(a, sets).arrays = a.arrays
         /\ a.wake => SetFDs(a, sets).wake
         /\ sets \subseteq a.fds \/ SetFDs(a, sets).wake
<1>1. (a.wake \/ ~(sets \subseteq a.fds)) \in BOOLEAN
  OBVIOUS
<1> QED
  BY <1>1 DEF SetFDs, Active

LEMMA ClearFDsFields ==
  ASSUME NEW a \in Active, NEW sets
  PROVE  /\ ClearFDs(a, sets) \in Active
         /\ ClearFDs(a, sets).fds = a.fds \ sets
         /\ ClearFDs(a, sets).arrays = a.arrays
         /\ a.wake => ClearFDs(a, sets).wake
<1>1. (a.wake \/ sets \cap a.fds # {}) \in BOOLEAN
  OBVIOUS
<1> QED
  BY <1>1 DEF ClearFDs, Active

LEMMA LeaveArraysFields ==
  ASSUME NEW a \in Active, a.fds \subseteq a.arrays
  PROVE  /\ LeaveArrays(a) \in Active
         /\ LeaveArrays(a).fds = {} /\ LeaveArrays(a).arrays = {}
<1> DEFINE b == ClearFDs(a, a.arrays)
<1>1. b \in Active /\ b.fds = {}
  BY ClearFDsFields
<1> HIDE DEF b
<1>2. [b EXCEPT !.arrays = {}] \in Active
  BY <1>1 DEF Active
<1>3. [b EXCEPT !.arrays = {}].fds = {} /\ [b EXCEPT !.arrays = {}].arrays = {}
  BY <1>1 DEF Active
<1> QED
  BY <1>2, <1>3 DEF LeaveArrays, b

\* What it does.
Enabled(s, a, types, force) ==
  /\ sock' \in Sock /\ active' \in Active /\ SameSocket(s)
  /\ sock'.signalled = s.signalled /\ sock'.queue = s.queue
  /\ sock'.disabled = IF Enables(s, types) THEN Disabled(s, types, force)
                                           ELSE s.disabled
  /\ Enables(s, types) =>
       /\ sock'.connected = Settled(s)
       /\ active'.fds = a.fds \cup Wanted(s, types, force)
       /\ active'.arrays = IF force THEN a.arrays \cup Wanted(s, types, force)
                                    ELSE a.arrays
       /\ Wanted(s, types, force) \subseteq a.fds \/ active'.wake
  /\ ~Enables(s, types) => sock' = s /\ active' = a
  /\ a.wake => active'.wake

LEMMA Enabling ==
  ASSUME NEW s \in Sock, NEW a \in Active, NEW types, NEW force \in BOOLEAN,
         EnableCallBacks(s, a, types, force)
  PROVE  Enabled(s, a, types, force)
<1> DEFINE d == Disabled(s, types, force)
           sets == Wanted(s, types, force)
           b == [a EXCEPT !.arrays = IF force THEN @ \cup sets ELSE @]
<1>1. CASE ~Enables(s, types)
  BY <1>1 DEF Enabled, EnableCallBacks, Enables, SameSocket
<1>2. CASE Enables(s, types)
  <2>1. /\ sock' = [s EXCEPT !.disabled = d, !.connected = Settled(s)]
        /\ active' = SetFDs(b, sets)
    BY <1>2 DEF EnableCallBacks, Enables, Disabled, Writes, Wanted, Reads
  <2>2. d \in AnyTypes /\ sets \in SUBSET Sets /\ Settled(s) \in BOOLEAN
    BY SockFields DEF Disabled, Wanted, Settled, AnyTypes
  <2> HIDE DEF d, sets
  <2>3. sock' \in Sock
    BY <2>1, <2>2 DEF Sock
  <2>4. /\ SameSocket(s) /\ sock'.disabled = d /\ sock'.connected = Settled(s)
        /\ sock'.signalled = s.signalled /\ sock'.queue = s.queue
    BY <2>1 DEF Sock, SameSocket
  <2>5. b \in Active
    BY <2>2 DEF Active
  <2>6. b.fds = a.fds /\ b.wake = a.wake
        /\ b.arrays = IF force THEN a.arrays \cup sets ELSE a.arrays
    BY DEF Active
  <2> HIDE DEF b
  <2>7. /\ active' \in Active /\ active'.fds = a.fds \cup sets
        /\ active'.arrays = b.arrays /\ (a.wake => active'.wake)
        /\ sets \subseteq a.fds \/ active'.wake
    BY <2>1, <2>2, <2>5, <2>6, SetFDsFields
  <2> QED
    BY <1>2, <2>3, <2>4, <2>6, <2>7 DEF Enabled, d, sets
<1> QED
  BY <1>1, <1>2

LEMMA Kinds ==
  \A k \in SocketKinds :
    /\ k.types \subseteq ReadTypes \cup WriteTypes /\ k.flags \subseteq k.types
    /\ "connect" \notin k.flags /\ k.sends \in Nat
    /\ \A x \in k.types \cap ReadTypes : k.types \cap ReadTypes = {x}
<1> SUFFICES ASSUME NEW k \in SocketKinds
             PROVE  /\ k.types \subseteq ReadTypes \cup WriteTypes
                    /\ k.flags \subseteq k.types
                    /\ "connect" \notin k.flags /\ k.sends \in Nat
                    /\ \A x \in k.types \cap ReadTypes :
                         k.types \cap ReadTypes = {x}
  OBVIOUS
<1>1. /\ k.types \subseteq ReadTypes \cup WriteTypes /\ k.flags \subseteq k.types
      /\ k.flags \subseteq ReadTypes \cup {"write"} /\ k.sends \in Nat
      /\ Cardinality(k.types \cap ReadTypes) <= 1
  BY SocketAssumption
<1>2. "connect" \notin k.flags
  BY <1>1 DEF ReadTypes
<1>3. ASSUME NEW x \in k.types \cap ReadTypes, NEW y \in k.types \cap ReadTypes
      PROVE  x = y
  <2> DEFINE r == k.types \cap ReadTypes
  <2>1. IsFiniteSet(ReadTypes)
    <3>1. IsFiniteSet({"read"} \cup {"accept"} \cup {"data"})
      BY FS_Singleton, FS_Union
    <3>2. ReadTypes = {"read"} \cup {"accept"} \cup {"data"}
      BY DEF ReadTypes
    <3> QED
      BY <3>1, <3>2
  <2>2. IsFiniteSet(r) /\ Cardinality(r) \in Nat
    BY <2>1, FS_Subset, FS_CardinalityType
  <2>3. IsFiniteSet(r \ {x}) /\ Cardinality(r \ {x}) = Cardinality(r) - 1
        /\ Cardinality(r \ {x}) \in Nat
    BY <2>2, FS_RemoveElement, FS_CardinalityType
  <2>4. Cardinality(r \ {x}) = 0
    BY <1>1, <2>2, <2>3
  <2>5. r \ {x} = {}
    BY <2>3, <2>4, FS_EmptySet
  <2> QED
    BY <2>5
<1> QED
  BY <1>1, <1>2, <1>3

LEMMA EnablingKeeps ==
  ASSUME NEW s \in Sock, NEW a \in Active, NEW types, NEW force \in BOOLEAN,
         EnableCallBacks(s, a, types, force), Owned(s, a),
         force \/ (Entered(s, a) /\ "connect" \notin types)
  PROVE  /\ Owned(sock', active')
         /\ Entered(s, a) \/ types = s.kind.types => Entered(sock', active')
<1>1. CASE ~Enables(s, types)
  <2>1. sock' = s /\ active' = a
    BY <1>1, Enabling DEF Enabled
  <2>2. types = s.kind.types => Entered(s, a)
    BY <1>1 DEF Enables, Entered, Reads
  <2> QED
    BY <2>1, <2>2
<1>2. CASE Enables(s, types)
  <2> DEFINE d == Disabled(s, types, force)
             sets == Wanted(s, types, force)
  <2>1. /\ SameSocket(s) /\ sock'.disabled = d
        /\ active'.fds = a.fds \cup sets
        /\ active'.arrays = IF force THEN a.arrays \cup sets ELSE a.arrays
    BY <1>2, Enabling DEF Enabled
  <2>2. d \subseteq s.disabled /\ sets \subseteq Sets
    BY DEF Disabled, Wanted
  <2>3. s.valid /\ IsScheduled(s)
    BY <1>2 DEF Enables
  <2>4. "read" \in sets => Reads(s) \cap types # {} /\ d \cap {"read", "data"} = {}
    BY DEF Wanted
  <2>5. "write" \in sets <=> Writes(s, types) \in (types \cap s.kind.types) \ d
    BY DEF Wanted, Sets
  <2>6. Reads(s) \cap types # {} /\ "accept" \notin s.kind.types
        /\ d \cap {"read", "data"} = {} => Reads(s) \ d # {}
    BY DEF Reads, ReadTypes
  <2>7. force \/ sets \subseteq a.arrays
    <3>1. ASSUME ~force, "read" \in sets PROVE "read" \in a.arrays
      BY <2>3, <2>4, <3>1 DEF Entered
    <3>2. ASSUME ~force, "write" \in sets PROVE "write" \in a.arrays
      <4>1. Writes(s, types) = "write"
        BY <3>2 DEF Writes
      <4> QED
        BY <2>3, <2>5, <3>2, <4>1 DEF Entered
    <3> QED
      BY <2>2, <3>1, <3>2 DEF Sets
  <2> HIDE DEF d, sets
  <2>8. Reads(sock') = Reads(s) /\ (IsScheduled(sock') <=> IsScheduled(s))
    BY <2>1 DEF SameSocket, Reads, IsScheduled
  <2>9. Owned(sock', active')
    BY <2>1, <2>2, <2>3, <2>4, <2>6, <2>7, <2>8 DEF Owned, SameSocket
  <2>10. Entered(s, a) => Entered(sock', active')
    BY <2>1, <2>8 DEF Entered, SameSocket
  <2>11. ASSUME types = s.kind.types, force PROVE Entered(sock', active')
    <3>1. d = {}
      BY <2>11 DEF Owned, Disabled, d
    <3>2. Reads(s) # {} => "read" \in sets
      BY <2>11, <3>1 DEF sets, d, Wanted, Reads, Sets
    <3>3. "write" \in s.kind.types => "write" \in sets
      BY <2>5, <2>11, <3>1 DEF Writes
    <3> QED
      BY <2>1, <2>8, <2>11, <3>2, <3>3 DEF Entered, SameSocket
  <2> QED
    BY <2>9, <2>10, <2>11
<1> QED
  BY <1>1, <1>2

\* The loops that a socket is scheduled for are counted.
Schedules ==
  /\ IsFiniteSet(source.in) /\ sock.setCount = Cardinality(source.in)
  /\ sock.runLoops = source.in /\ source.in \subseteq sock.kind.loops

\* What the manager goes on to do is about what it has found.
Managing ==
  /\ manager.at # "collect" /\ "read" \in manager.found => ReadType # {}
  /\ manager.at \in {"copy", "select"} => manager.found = {}
  /\ manager.at \in {"receive", "read"} => manager.found = {"read"}
  /\ manager.at \in {"getError", "write"} => "write" \in manager.found
  /\ manager.at = "read" /\ ReadType # {"read"} => manager.item \in Nat
  /\ manager.runLoops \subseteq sock.kind.loops

\* A callback that gives an item has one; other loops do not use the socket.
Looping ==
  \A l \in SocketLoops :
    /\ loop[l].due \cap {"data", "accept"} # {} => loop[l].item \in Nat
    /\ l \notin sock.kind.loops => loop[l].at = "out"

\* The manager waits on the fd sets as they are, or will not wait long.
Telling == manager.at = "select" => active.wake \/ active.fds \subseteq manager.watch

\* Whoever performs what was signalled, or an item, is yet to look.
Pending ==
  sock.valid =>
    /\ sock.signalled # {} =>
         source.signaled \/ \E l \in SocketLoops : loop[l].at = "entered"
    /\ sock.queue # <<>> =>
         \/ source.signaled
         \/ \E l \in SocketLoops :
              loop[l].at \in {"entered", "perform", "callout"}

\* The manager is about to wake the loop that it has signaled the source for.
Unwoken(l) ==
  /\ sock.kind.loops = {l} /\ l \in source.in /\ source.signaled
  /\ loop[l].at = "asleep" /\ ~loop[l].woken
Sleeping ==
  \A l \in SocketLoops :
    Unwoken(l) => manager.at \in {"choose", "wake"} /\ l \in manager.runLoops

Covered(x) ==
  \/ Watched(SetOf(x))
  \/ SetOf(x) \in sock.signalled
  \/ \E l \in SocketLoops : Performing(l) /\ x \in loop[l].again
Covering == \A x \in Awaited : Covered(x)

SocketInv ==
  /\ SocketTypeOK
  /\ Owned(sock, active) /\ Entered(sock, active)
  /\ Schedules /\ Managing /\ Looping /\ Telling /\ Pending /\ Sleeping
  /\ Covering

LEMMA ManagerFields ==
  \A m \in Manager :
    /\ m.at \in {"copy", "select", "collect", "getError", "write",
                 "receive", "read", "choose", "wake"}
    /\ m.watch \in SUBSET Sets /\ m.found \in SUBSET Sets
    /\ m.error \in BOOLEAN /\ m.item \in Item
    /\ m.runLoops \in SUBSET SocketLoops
BY DEF Manager

LEMMA LooperFields ==
  \A x \in Looper :
    /\ x.at \in {"out", "run", "asleep", "entered", "perform", "callout",
                 "choose", "enable", "wake"}
    /\ x.woken \in BOOLEAN /\ x.item \in Item /\ x.due \in AnyTypes
    /\ x.called \in BOOLEAN /\ x.again \in AnyTypes
    /\ x.runLoops \in SUBSET SocketLoops
BY DEF Looper

-----------------------------------------------------------------------------
(* What stays.                                                             *)

\* A step that leaves the manager alone and takes nothing from the fd sets,
\* from what is signalled and from the performing threads.
LEMMA CoverStays ==
  ASSUME NEW x, Covered(x), UNCHANGED manager,
         active.fds \subseteq active'.fds, active.wake => active'.wake,
         sock.signalled \subseteq sock'.signalled,
         \A l \in SocketLoops :
           Performing(l) => Performing(l)' /\ loop[l].again \subseteq loop'[l].again
  PROVE  Covered(x)'
<1>1. CASE Watched(SetOf(x))
  BY <1>1 DEF Watched, Covered
<1>2. CASE SetOf(x) \in sock.signalled
  BY <1>2 DEF Covered
<1>3. CASE \E l \in SocketLoops : Performing(l) /\ x \in loop[l].again
  BY <1>3 DEF Covered
<1> QED
  BY <1>1, <1>2, <1>3 DEF Covered

\* A step of the network, or of a client that reads.
LEMMA NetKeeps ==
  ASSUME SocketInv, UNCHANGED <<sock, active, manager, source, loop>>,
         calls'.left = calls.left, net' \in Net, calls' \in Calls
  PROVE  SocketInv'
<1>1. SocketTypeOK'
  BY TypesAre DEF SocketInv, SocketTypeOK, Net, Calls, AnyTypes
<1>2. Owned(sock, active)' /\ Entered(sock, active)'
  BY DEF SocketInv
<1>3. Schedules' /\ Managing' /\ Looping' /\ Telling' /\ Pending' /\ Sleeping'
  BY DEF SocketInv, Schedules, Managing, Looping, Telling, Pending, Sleeping,
         Unwoken, ReadType, Types
<1>4. Covering'
  BY DEF SocketInv, Covering, Covered, Awaited, Watched, Performing, Types
<1> QED
  BY <1>1, <1>2, <1>3, <1>4 DEF SocketInv

-----------------------------------------------------------------------------
(* The manager.                                                            *)

LEMMA OnwardFields ==
  ASSUME manager \in Manager, NEW found \in SUBSET Sets
  PROVE  /\ Onward(found) \in Manager
         /\ Onward(found).found = found
         /\ Onward(found).runLoops = {}
         /\ Onward(found).at = IF "write" \in found THEN "getError"
                               ELSE IF "read" \in found THEN "receive" ELSE "copy"
<1>1. NoItem \in Item /\ FALSE \in BOOLEAN
  BY DEF Item
<1> QED
  BY <1>1 DEF Onward, Manager

\* The manager goes on to the read it has found, or starts over.
LEMMA HandledKeeps ==
  ASSUME SocketInv, manager.at \notin {"select", "collect"},
         manager' = Handled, UNCHANGED sock
  PROVE  /\ manager' \in Manager /\ manager'.at \in {"receive", "copy"}
         /\ Managing' /\ Telling'
         /\ "read" \in manager.found /\ "write" \in manager.found =>
              manager'.at = "receive" /\ "read" \in manager'.found
<1> DEFINE found == IF "write" \in manager.found THEN manager.found \ {"write"}
                                                 ELSE {}
<1>1. manager \in Manager /\ found \in SUBSET Sets
  BY TypesAre, ManagerFields DEF SocketInv
<1>2. /\ manager' \in Manager /\ manager'.found = found
      /\ manager'.runLoops = {}
      /\ manager'.at = IF "write" \in found THEN "getError"
                       ELSE IF "read" \in found THEN "receive" ELSE "copy"
  BY <1>1, OnwardFields DEF Handled
<1>3. Managing' /\ Telling'
  BY <1>1, <1>2 DEF Sets, SocketInv, Managing, Telling, ReadType, Types
<1> QED
  BY <1>1, <1>2, <1>3

LEMMA CopyFdsKeeps ==
  ASSUME SocketInv, CopyFds PROVE SocketInv'
<1>1. /\ manager.at = "copy" /\ manager' = [manager EXCEPT !.at = "select",
                                                    !.watch = active.fds]
      /\ UNCHANGED <<sock, active, source, loop, net, calls>>
  BY DEF CopyFds
<1>2. /\ manager \in Manager /\ active \in Active
  BY TypesAre DEF SocketInv
<1>3. /\ manager' \in Manager /\ manager'.at = "select"
      /\ manager'.watch = active.fds /\ manager'.found = manager.found
      /\ manager'.runLoops = manager.runLoops
  BY <1>1, <1>2 DEF Manager, Active
<1>4. SocketTypeOK'
  BY <1>1, <1>3, TypesAre DEF SocketInv, SocketTypeOK, Manager, Item
<1>5. Owned(sock, active)' /\ Entered(sock, active)'
  BY <1>1 DEF SocketInv
<1>6. Schedules' /\ Looping' /\ Pending'
  BY <1>1 DEF SocketInv, Schedules, Looping, Pending
<1>7. Managing' /\ Telling' /\ Sleeping'
  BY <1>1, <1>3 DEF SocketInv, Managing, Telling, Sleeping, Unwoken, ReadType, Types
<1>8. Covering'
  <2> SUFFICES ASSUME NEW x \in Awaited' PROVE Covered(x)'
    BY DEF Covering
  <2>1. Covered(x)
    BY <1>1 DEF SocketInv, Covering, Awaited, Types
  <2> QED
    BY <1>1, <1>3, <2>1 DEF Covered, Watched, Performing
<1> QED
  BY <1>4, <1>5, <1>6, <1>7, <1>8 DEF SocketInv

LEMMA TypesHold ==
  ASSUME sock' \in Sock, active' \in Active, manager' \in Manager,
         source' \in Source, loop' \in [SocketLoops -> Looper],
         net' \in Net, calls' \in Calls
  PROVE  SocketTypeOK'
BY DEF SocketTypeOK, Sock, Active, Manager, Source, Looper, Net, Calls,
       AnyTypes, Item

\* What the manager's own steps leave alone.
LEMMA ManagerOnly ==
  ASSUME SocketInv, UNCHANGED <<sock, active, source, loop>>,
         manager' \in Manager, net' \in Net, calls' \in Calls,
         Managing', Telling', Covering',
         \A l \in SocketLoops : Unwoken(l) =>
            manager'.at \in {"choose", "wake"} /\ l \in manager'.runLoops
  PROVE  SocketInv'
<1>1. SocketTypeOK'
  BY TypesAre, TypesHold DEF SocketInv
<1>2. Owned(sock, active)' /\ Entered(sock, active)'
  BY DEF SocketInv
<1>3. Schedules' /\ Looping' /\ Pending' /\ Sleeping'
  BY DEF SocketInv, Schedules, Looping, Pending, Sleeping, Unwoken
<1> QED
  BY <1>1, <1>2, <1>3 DEF SocketInv

LEMMA SelectKeeps ==
  ASSUME SocketInv, Select PROVE SocketInv'
<1> DEFINE ready == {x \in manager.watch : IF x = "read" THEN Readable
                                                         ELSE Writable}
<1>1. /\ manager.at = "select"
      /\ manager' = [manager EXCEPT !.at = "collect", !.found = ready]
      /\ active' = [active EXCEPT !.wake = FALSE]
      /\ UNCHANGED <<sock, source, loop, net, calls>>
  BY DEF Select
<1>2. manager \in Manager /\ active \in Active /\ ready \in SUBSET Sets
  BY TypesAre, ManagerFields DEF SocketInv
<1> HIDE DEF ready
<1>3. /\ manager' \in Manager /\ manager'.at = "collect"
      /\ manager'.runLoops = manager.runLoops
  BY <1>1, <1>2 DEF Manager
<1>4. /\ active' \in Active /\ active'.fds = active.fds
      /\ active'.arrays = active.arrays
  BY <1>1, <1>2 DEF Active
<1>5. SocketTypeOK'
  BY <1>1, <1>3, <1>4, TypesAre, TypesHold DEF SocketInv
<1>6. Owned(sock, active)' /\ Entered(sock, active)'
  BY <1>1, <1>4 DEF SocketInv, Owned, Entered
<1>7. Schedules' /\ Looping' /\ Pending'
  BY <1>1 DEF SocketInv, Schedules, Looping, Pending
<1>8. Managing' /\ Telling' /\ Sleeping'
  BY <1>1, <1>3 DEF SocketInv, Managing, Telling, Sleeping, Unwoken, ReadType, Types
<1>9. Covering'
  <2> SUFFICES ASSUME NEW x \in Awaited' PROVE Covered(x)'
    BY DEF Covering
  <2>1. Covered(x) /\ manager.found = {}
    BY <1>1 DEF SocketInv, Covering, Awaited, Types, Managing
  <2>2. Watched(SetOf(x)) => Watched(SetOf(x))'
    BY <1>1, <1>3, <1>4, <2>1 DEF Watched
  <2> QED
    BY <1>1, <2>1, <2>2 DEF Covered, Performing
<1> QED
  BY <1>5, <1>6, <1>7, <1>8, <1>9 DEF SocketInv

LEMMA CollectKeeps ==
  ASSUME SocketInv, Collect PROVE SocketInv'
<1> DEFINE found == manager.found \cap active.arrays
<1>1. /\ manager.at = "collect" /\ manager' = Onward(found)
      /\ active' = [active EXCEPT !.fds = active.fds \ found]
      /\ UNCHANGED <<sock, source, loop, net, calls>>
  BY DEF Collect
<1>2. /\ manager \in Manager /\ active \in Active /\ found \in SUBSET Sets
      /\ found \subseteq active.arrays
  BY TypesAre, ManagerFields DEF SocketInv
<1> HIDE DEF found
<1>3. /\ manager' \in Manager /\ manager'.found = found
      /\ manager'.runLoops = {}
      /\ manager'.at = IF "write" \in found THEN "getError"
                       ELSE IF "read" \in found THEN "receive" ELSE "copy"
  BY <1>1, <1>2, OnwardFields
<1>4. /\ active' \in Active /\ active'.fds = active.fds \ found
      /\ active'.arrays = active.arrays
  BY <1>1, <1>2 DEF Active
<1>5. SocketTypeOK'
  BY <1>1, <1>3, <1>4, TypesAre, TypesHold DEF SocketInv
<1>6. Owned(sock, active)' /\ Entered(sock, active)'
  BY <1>1, <1>4 DEF SocketInv, Owned, Entered
<1>7. Schedules' /\ Looping' /\ Pending'
  BY <1>1 DEF SocketInv, Schedules, Looping, Pending
<1>8. Managing' /\ Telling' /\ Sleeping'
  BY <1>1, <1>2, <1>3
     DEF Sets, SocketInv, Managing, Telling, Sleeping, Unwoken, ReadType, Types,
         Owned, Reads
<1>9. Covering'
  <2> SUFFICES ASSUME NEW x \in Awaited' PROVE Covered(x)'
    BY DEF Covering
  <2>1. Covered(x) /\ SetOf(x) \in Sets
    BY <1>1 DEF SocketInv, Covering, Awaited, Types, SetOf, Sets
  <2>2. CASE Watched(SetOf(x))
    <3>1. SetOf(x) \in active.fds
      BY <1>1, <2>2 DEF Watched
    <3>2. CASE SetOf(x) \in found
      BY <1>3, <2>1, <3>2 DEF Covered, Watched, Sets
    <3>3. CASE SetOf(x) \notin found
      <4>1. SetOf(x) \in active'.fds /\ manager'.at # "select"
        BY <1>3, <1>4, <3>1, <3>3
      <4> QED
        BY <4>1 DEF Covered, Watched
    <3> QED
      BY <3>2, <3>3
  <2>3. CASE ~Watched(SetOf(x))
    BY <1>1, <2>1, <2>3 DEF Covered, Performing
  <2> QED
    BY <2>2, <2>3
<1> QED
  BY <1>5, <1>6, <1>7, <1>8, <1>9 DEF SocketInv

LEMMA GetErrorKeeps ==
  ASSUME SocketInv, GetError PROVE SocketInv'
<1>1. /\ manager.at = "getError" /\ manager \in Manager /\ net \in Net
      /\ UNCHANGED <<sock, active, source, loop, calls>>
  BY TypesAre DEF SocketInv, GetError
<1>2. \A l \in SocketLoops : ~Unwoken(l)
  BY <1>1 DEF SocketInv, Sleeping
<1>3. calls' \in Calls
  BY <1>1, TypesAre DEF SocketInv
<1>4. CASE sock.valid
  <2>1. /\ manager' = [manager EXCEPT !.at = "write",
                                      !.error = (net.link = "failed")]
        /\ net' = [net EXCEPT !.link = IF net.link = "failed" THEN "told"
                                                              ELSE net.link]
    BY <1>4 DEF GetError
  <2>2. (net.link = "failed") \in BOOLEAN
    OBVIOUS
  <2>3. /\ manager' \in Manager /\ manager'.at = "write"
        /\ manager'.found = manager.found /\ manager'.runLoops = manager.runLoops
    BY <1>1, <2>1, <2>2 DEF Manager
  <2>4. net' \in Net
    BY <1>1, <2>1 DEF Net
  <2>5. Managing' /\ Telling'
    BY <1>1, <2>3 DEF SocketInv, Managing, Telling, ReadType, Types
  <2>6. Covering'
    <3> SUFFICES ASSUME NEW x \in Awaited' PROVE Covered(x)'
      BY DEF Covering
    <3>1. Covered(x)
      BY <1>1 DEF SocketInv, Covering, Awaited, Types
    <3> QED
      BY <1>1, <2>3, <3>1 DEF Covered, Watched, Performing
  <2> QED
    BY <1>1, <1>2, <1>3, <2>3, <2>4, <2>5, <2>6, ManagerOnly
<1>5. CASE ~sock.valid
  <2>1. manager' = Handled /\ UNCHANGED net
    BY <1>5 DEF GetError
  <2>2. manager' \in Manager /\ Managing' /\ Telling'
    BY <1>1, <2>1, HandledKeeps
  <2>3. Covering'
    BY <1>1, <1>5 DEF Covering, Awaited
  <2> QED
    BY <1>1, <1>2, <1>3, <2>1, <2>2, <2>3, ManagerOnly
<1> QED
  BY <1>4, <1>5

LEMMA ReceiveKeeps ==
  ASSUME SocketInv, Receive PROVE SocketInv'
<1>1. /\ manager.at = "receive" /\ manager \in Manager /\ net \in Net
      /\ calls \in Calls /\ UNCHANGED <<sock, active, source, loop>>
  BY TypesAre DEF SocketInv, Receive
<1>2. \A l \in SocketLoops : ~Unwoken(l)
  BY <1>1 DEF SocketInv, Sleeping
<1>3. ASSUME NEW item, manager' = [manager EXCEPT !.at = "read", !.item = item],
             item \in Item, ReadType # {"read"} => item \in Nat,
             net' \in Net, UNCHANGED calls
      PROVE  SocketInv'
  <2>1. /\ manager' \in Manager /\ manager'.at = "read" /\ manager'.item = item
        /\ manager'.found = manager.found /\ manager'.runLoops = manager.runLoops
    BY <1>1, <1>3 DEF Manager
  <2>2. Managing' /\ Telling'
    BY <1>1, <1>3, <2>1 DEF SocketInv, Managing, Telling, ReadType, Types
  <2>3. Covering'
    <3> SUFFICES ASSUME NEW x \in Awaited' PROVE Covered(x)'
      BY DEF Covering
    <3>1. Covered(x)
      BY <1>1, <1>3 DEF SocketInv, Covering, Awaited, Types
    <3> QED
      BY <1>1, <2>1, <3>1 DEF Covered, Watched, Performing
  <2> QED
    BY <1>1, <1>2, <1>3, <2>1, <2>2, <2>3, ManagerOnly
<1>4. CASE ~sock.valid /\ manager' = Handled /\ UNCHANGED <<net, calls>>
  <2>1. manager' \in Manager /\ Managing' /\ Telling'
    BY <1>1, <1>4, HandledKeeps
  <2>2. Covering'
    BY <1>1, <1>4 DEF Covering, Awaited
  <2> QED
    BY <1>1, <1>2, <1>4, <2>1, <2>2, ManagerOnly
<1>5. CASE /\ ReadType = {"read"} /\ manager' = [manager EXCEPT !.at = "read"]
           /\ UNCHANGED <<net, calls>>
  <2>1. manager' = [manager EXCEPT !.at = "read", !.item = manager.item]
    BY <1>1, <1>5 DEF Manager
  <2>2. manager.item \in Item
    BY <1>1, ManagerFields
  <2> QED
    BY <1>1, <1>3, <1>5, <2>1, <2>2
<1>6. CASE /\ net.inbox # <<>> /\ UNCHANGED calls
           /\ manager' = [manager EXCEPT !.at = "read", !.item = Head(net.inbox)]
           /\ net' = [net EXCEPT !.inbox = Tail(net.inbox)]
  <2>1. Head(net.inbox) \in Nat /\ Tail(net.inbox) \in Seq(Nat)
    BY <1>1, <1>6 DEF Net
  <2>2. net' \in Net
    BY <1>1, <1>6, <2>1 DEF Net
  <2> QED
    BY <1>3, <1>6, <2>1, <2>2 DEF Item
<1>7. CASE /\ manager' = [manager EXCEPT !.at = "read", !.item = End]
           /\ UNCHANGED <<net, calls>>
  BY <1>1, <1>3, <1>7 DEF Item, End
<1>8. CASE /\ ReadType = {"accept"} /\ manager' = Handled /\ UNCHANGED net
           /\ calls' = [calls EXCEPT !.left = calls.left \cup {"accept"}]
  <2>1. /\ manager' \in Manager /\ manager'.at \in {"receive", "copy"}
        /\ Managing' /\ Telling'
    BY <1>1, <1>8, HandledKeeps
  <2>2. calls' \in Calls /\ calls'.left = calls.left \cup {"accept"}
    BY <1>1, <1>8 DEF Calls, AnyTypes, ReadTypes
  <2>3. Covering'
    <3> SUFFICES ASSUME NEW x \in Awaited' PROVE Covered(x)'
      BY DEF Covering
    <3>1. Covered(x) /\ x \notin ReadTypes
      BY <1>1, <1>8, <2>2
         DEF SocketInv, Covering, Awaited, Types, ReadType
    <3>2. SetOf(x) = "write" /\ "write" \notin manager.found
      BY <1>1, <3>1 DEF SetOf, SocketInv, Managing
    <3>3. CASE "write" \in active.fds
      BY <1>1, <2>1, <3>2, <3>3 DEF Covered, Watched
    <3>4. CASE "write" \notin active.fds
      BY <1>1, <3>1, <3>2, <3>4 DEF Covered, Watched, Performing
    <3> QED
      BY <3>3, <3>4
  <2> QED
    BY <1>1, <1>2, <1>8, <2>1, <2>2, <2>3, ManagerOnly
<1> QED
  BY <1>4, <1>5, <1>6, <1>7, <1>8 DEF Receive

LEMMA SignalFields ==
  ASSUME SocketInv, NEW s \in Sock, SignalSource(s), s.runLoops = sock.runLoops
  PROVE  /\ sock' = s /\ source' \in Source /\ source'.signaled
         /\ source'.in = source.in
         /\ manager' \in Manager /\ manager'.at = "choose"
         /\ manager'.found = manager.found /\ manager'.runLoops = sock.runLoops
<1>1. manager \in Manager /\ source \in Source /\ s.runLoops \in SUBSET SocketLoops
  BY TypesAre, SockFields DEF SocketInv
<1>2. source' = [source EXCEPT !.signaled = TRUE]
  BY DEF SignalSource
<1>3. source' \in Source /\ source'.signaled /\ source'.in = source.in
  BY <1>1, <1>2 DEF Source
<1>4. manager' = [manager EXCEPT !.at = "choose", !.runLoops = s.runLoops,
                                 !.item = NoItem]
  BY DEF SignalSource
<1>5. /\ manager' \in Manager /\ manager'.at = "choose"
      /\ manager'.found = manager.found /\ manager'.runLoops = s.runLoops
  BY <1>1, <1>4 DEF Manager, Item
<1> QED
  BY <1>3, <1>5 DEF SignalSource

\* The manager has signalled the source for something that was found.
LEMMA SignalKeeps ==
  ASSUME SocketInv, NEW s \in Sock, SignalSource(s),
         s.kind = sock.kind, s.valid = sock.valid, s.setCount = sock.setCount,
         s.runLoops = sock.runLoops, s.disabled = sock.disabled,
         s.connected = sock.connected, sock.signalled \subseteq s.signalled,
         active' \in Active, active'.arrays = active.arrays, Owned(s, active'),
         active.fds \subseteq active'.fds, active.wake => active'.wake,
         UNCHANGED <<loop, net, calls>>,
         manager.at \in {"write", "read"},
         IF manager.at = "write" THEN "write" \in s.signalled
                                 ELSE "read" \in s.signalled
  PROVE  SocketInv'
<1>1. /\ sock' = s /\ source' \in Source /\ source'.signaled
      /\ source'.in = source.in
      /\ manager' \in Manager /\ manager'.at = "choose"
      /\ manager'.found = manager.found /\ manager'.runLoops = sock.runLoops
  BY SignalFields
<1>2. SocketTypeOK'
  BY <1>1, TypesAre, TypesHold DEF SocketInv
<1>3. Owned(sock, active)' /\ Entered(sock, active)'
  BY <1>1 DEF SocketInv, Entered, IsScheduled, Reads
<1>4. Schedules' /\ Looping'
  BY <1>1 DEF SocketInv, Schedules, Looping
<1>5. Managing' /\ Telling' /\ Pending'
  BY <1>1
     DEF SocketInv, Managing, Telling, Pending, ReadType, Types, Schedules
<1>6. Sleeping'
  BY <1>1 DEF Sleeping, Unwoken, SocketInv, Schedules
<1>7. Covering'
  <2> SUFFICES ASSUME NEW x \in Awaited' PROVE Covered(x)'
    BY DEF Covering
  <2>1. Covered(x)
    BY <1>1 DEF SocketInv, Covering, Awaited, Types, IsScheduled
  <2>2. SetOf(x) \in Sets /\ (manager.at = "read" => manager.found = {"read"})
        /\ (manager.at = "write" => "write" \in manager.found)
    BY DEF SetOf, Sets, SocketInv, Managing
  <2>3. CASE Watched(SetOf(x))
    <3>1. CASE SetOf(x) \in active.fds
      BY <1>1, <3>1 DEF Covered, Watched
    <3>2. CASE SetOf(x) \notin active.fds
      BY <1>1, <2>2, <2>3, <3>2 DEF Covered, Watched, Sets
    <3> QED
      BY <3>1, <3>2
  <2>4. CASE SetOf(x) \in sock.signalled
    BY <1>1, <2>4 DEF Covered
  <2>5. CASE \E l \in SocketLoops : Performing(l) /\ x \in loop[l].again
    BY <2>5 DEF Covered, Performing
  <2> QED
    BY <2>1, <2>3, <2>4, <2>5 DEF Covered
<1> QED
  BY <1>2, <1>3, <1>4, <1>5, <1>6, <1>7 DEF SocketInv

\* What is handled without a signal was not expected any more.
LEMMA SilentKeeps ==
  ASSUME SocketInv, manager' = Handled,
         UNCHANGED <<sock, active, source, loop, net, calls>>,
         manager.at \in {"write", "read", "choose"},
         \A l \in SocketLoops : ~Unwoken(l),
         \A x \in Awaited : /\ manager.at = "write" => SetOf(x) # "write"
                            /\ manager.at = "read" => SetOf(x) # "read"
  PROVE  SocketInv'
<1>1. /\ manager' \in Manager /\ manager'.at \in {"receive", "copy"}
      /\ Managing' /\ Telling'
      /\ "read" \in manager.found /\ "write" \in manager.found =>
              manager'.at = "receive" /\ "read" \in manager'.found
  BY HandledKeeps
<1>2. net \in Net /\ calls \in Calls
  BY TypesAre DEF SocketInv
<1>3. Covering'
  <2> SUFFICES ASSUME NEW x \in Awaited' PROVE Covered(x)'
    BY DEF Covering
  <2>1. Covered(x) /\ x \in Awaited
    BY DEF SocketInv, Covering, Awaited, Types
  <2>2. SetOf(x) \in Sets /\ (manager.at = "read" => manager.found = {"read"})
        /\ (manager.at = "write" => "write" \in manager.found)
    BY DEF SetOf, Sets, SocketInv, Managing
  <2>3. CASE Watched(SetOf(x))
    <3>1. CASE SetOf(x) \in active.fds
      BY <1>1, <3>1 DEF Covered, Watched
    <3>2. CASE SetOf(x) \notin active.fds
      BY <1>1, <2>1, <2>2, <2>3, <3>2 DEF Covered, Watched, Sets
    <3> QED
      BY <3>1, <3>2
  <2> QED
    BY <2>1, <2>3 DEF Covered, Performing
<1> QED
  BY <1>1, <1>2, <1>3, ManagerOnly

LEMMA HandleWriteKeeps ==
  ASSUME SocketInv, HandleWrite PROVE SocketInv'
<1>1. /\ manager.at = "write" /\ UNCHANGED <<active, loop, net, calls>>
      /\ sock \in Sock /\ active \in Active /\ manager \in Manager
  BY TypesAre DEF SocketInv, HandleWrite
<1>2. CASE sock.valid /\ (Types \cap WriteTypes) \ sock.disabled # {}
  <2> DEFINE s == [sock EXCEPT !.signalled = sock.signalled \cup {"write"},
                               !.error = manager.error]
  <2>1. manager.error \in BOOLEAN
    BY <1>1, ManagerFields
  <2>2. /\ s \in Sock /\ s.kind = sock.kind /\ s.valid = sock.valid
        /\ s.setCount = sock.setCount /\ s.runLoops = sock.runLoops
        /\ s.disabled = sock.disabled /\ s.connected = sock.connected
        /\ s.signalled = sock.signalled \cup {"write"}
    BY <1>1, <2>1 DEF Sock, Sets
  <2>3. SignalSource(s)
    BY <1>2 DEF HandleWrite
  <2> HIDE DEF s
  <2>4. Owned(s, active')
    BY <1>1, <2>2 DEF SocketInv, Owned, Reads, IsScheduled
  <2> QED
    BY <1>1, <2>2, <2>3, <2>4, SignalKeeps
<1>3. CASE ~(sock.valid /\ (Types \cap WriteTypes) \ sock.disabled # {})
  <2>1. manager' = Handled /\ UNCHANGED <<sock, source>>
    BY <1>3 DEF HandleWrite
  <2>2. \A x \in Awaited : SetOf(x) # "write"
    BY <1>3 DEF Awaited, SetOf, WriteTypes
  <2>3. \A l \in SocketLoops : ~Unwoken(l)
    BY <1>1 DEF SocketInv, Sleeping
  <2> QED
    BY <1>1, <2>1, <2>2, <2>3, SilentKeeps
<1> QED
  BY <1>2, <1>3

LEMMA HandleReadKeeps ==
  ASSUME SocketInv, HandleRead PROVE SocketInv'
<1>1. /\ manager.at = "read" /\ UNCHANGED <<loop, net, calls>>
      /\ sock \in Sock /\ active \in Active /\ manager \in Manager
  BY TypesAre DEF SocketInv, HandleRead
<1>2. CASE sock.valid /\ (ReadType = {"read"} => "read" \notin sock.disabled)
  <2> DEFINE q == IF ReadType = {"read"} THEN sock.queue
                  ELSE Append(sock.queue, manager.item)
             s == [sock EXCEPT !.signalled = sock.signalled \cup {"read"},
                               !.queue = q]
  <2>1. q \in Seq(Nat)
    BY <1>1, SockFields DEF SocketInv, Managing
  <2> HIDE DEF q
  <2>2. /\ s \in Sock /\ s.kind = sock.kind /\ s.valid = sock.valid
        /\ s.setCount = sock.setCount /\ s.runLoops = sock.runLoops
        /\ s.disabled = sock.disabled /\ s.connected = sock.connected
        /\ s.signalled = sock.signalled \cup {"read"}
    BY <1>1, <2>1 DEF Sock, Sets
  <2>3. /\ SignalSource(s)
        /\ active' = IF ReadType # {"read"} /\ ListensOn
                     THEN SetFDs(active, {"read"}) ELSE active
    BY <1>2 DEF HandleRead, q
  <2> HIDE DEF s
  <2>4. Owned(s, active)
    BY <1>1, <2>2 DEF SocketInv, Owned, Reads, IsScheduled
  <2>5. CASE active' = active
    BY <1>1, <2>2, <2>3, <2>4, <2>5, SignalKeeps
  <2>6. CASE ListensOn /\ active' = SetFDs(active, {"read"})
    <3>1. {"read"} \in SUBSET Sets
      BY DEF Sets
    <3>2. /\ active' \in Active /\ active'.fds = active.fds \cup {"read"}
          /\ active'.arrays = active.arrays /\ (active.wake => active'.wake)
      BY <1>1, <2>6, <3>1, SetFDsFields
    <3>3. Reads(s) = ReadType /\ ReadType # {} /\ ReadType \subseteq ReadType \ s.disabled
      BY <1>1, <2>2, <2>6
         DEF Reads, ReadType, Types, ListensOn, SocketInv, Managing
    <3>4. "read" \in active.arrays
      BY <1>1, <1>2, <2>6, <3>3 DEF SocketInv, Entered, ListensOn, Reads, ReadType, Types
    <3>5. Owned(s, active')
      BY <2>4, <3>2, <3>3, <3>4 DEF Owned
    <3> QED
      BY <1>1, <2>2, <2>3, <3>2, <3>5, SignalKeeps
  <2> QED
    BY <2>3, <2>5, <2>6
<1>3. CASE ~(sock.valid /\ (ReadType = {"read"} => "read" \notin sock.disabled))
  <2>1. manager' = Handled /\ UNCHANGED <<sock, source, active>>
    BY <1>3 DEF HandleRead
  <2>2. \A x \in Awaited : SetOf(x) # "read"
    BY <1>3 DEF Awaited, SetOf, ReadType
  <2>3. \A l \in SocketLoops : ~Unwoken(l)
    BY <1>1 DEF SocketInv, Sleeping
  <2> QED
    BY <1>1, <2>1, <2>2, <2>3, SilentKeeps
<1> QED
  BY <1>2, <1>3

LEMMA ChooseLoopKeeps ==
  ASSUME SocketInv, ChooseLoop PROVE SocketInv'
<1>1. /\ manager.at = "choose" /\ manager \in Manager
      /\ UNCHANGED <<sock, active, source, loop, net, calls>>
  BY TypesAre DEF SocketInv, ChooseLoop
<1>2. CASE manager.runLoops = {} /\ manager' = Handled
  <2>1. \A l \in SocketLoops : ~Unwoken(l)
    BY <1>2 DEF SocketInv, Sleeping
  <2> QED
    BY <1>1, <1>2, <2>1, SilentKeeps
<1>3. ASSUME NEW l \in Choices(manager.runLoops),
             manager' = [manager EXCEPT !.at = "wake", !.runLoops = {l}]
      PROVE  SocketInv'
  <2>1. l \in manager.runLoops
    BY DEF Choices
  <2>2. /\ manager' \in Manager /\ manager'.at = "wake"
        /\ manager'.found = manager.found /\ manager'.runLoops = {l}
    BY <1>1, <1>3, <2>1 DEF Manager
  <2>3. Managing' /\ Telling'
    BY <1>1, <2>1, <2>2 DEF SocketInv, Managing, Telling, ReadType, Types
  <2>4. \A m \in SocketLoops : Unwoken(m) => m \in manager'.runLoops
    BY <2>1, <2>2 DEF SocketInv, Sleeping, Managing, Unwoken
  <2>5. Covering'
    <3> SUFFICES ASSUME NEW x \in Awaited' PROVE Covered(x)'
      BY DEF Covering
    <3>1. Covered(x)
      BY <1>1 DEF SocketInv, Covering, Awaited, Types
    <3> QED
      BY <1>1, <2>2, <3>1 DEF Covered, Watched, Performing
  <2>6. net \in Net /\ calls \in Calls
    BY TypesAre DEF SocketInv
  <2> QED
    BY <1>1, <2>2, <2>3, <2>4, <2>5, <2>6, ManagerOnly
<1> QED
  BY <1>2, <1>3 DEF ChooseLoop

LEMMA WakeUpFields ==
  ASSUME NEW f \in [SocketLoops -> Looper], NEW ls
  PROVE  /\ WakeUp(f, ls) \in [SocketLoops -> Looper]
         /\ \A l \in SocketLoops :
              LET x == WakeUp(f, ls)[l] IN
              /\ x.at = f[l].at /\ x.due = f[l].due /\ x.item = f[l].item
              /\ x.again = f[l].again
              /\ l \in ls /\ x.at # "out" => x.woken
              /\ f[l].woken => x.woken
<1>1. ASSUME NEW l \in SocketLoops
      PROVE  LET x == WakeUp(f, ls)[l] IN
             /\ x \in Looper
             /\ x.at = f[l].at /\ x.due = f[l].due /\ x.item = f[l].item
             /\ x.again = f[l].again
             /\ l \in ls /\ x.at # "out" => x.woken
             /\ f[l].woken => x.woken
  <2> DEFINE w == f[l].woken \/ (l \in ls /\ f[l].at # "out")
  <2>1. f[l] \in Looper /\ w \in BOOLEAN
    OBVIOUS
  <2>2. WakeUp(f, ls)[l] = [f[l] EXCEPT !.woken = w]
    BY DEF WakeUp
  <2>3. (l \in ls /\ f[l].at # "out" => w) /\ (f[l].woken => w)
    OBVIOUS
  <2> HIDE DEF w
  <2> QED
    BY <2>1, <2>2, <2>3 DEF Looper
<1>2. WakeUp(f, ls) = [l \in SocketLoops |-> WakeUp(f, ls)[l]]
  BY DEF WakeUp
<1> QED
  BY <1>1, <1>2

LEMMA WakeLoopKeeps ==
  ASSUME SocketInv, WakeLoop PROVE SocketInv'
<1>1. /\ manager.at = "wake" /\ manager \in Manager
      /\ loop' = WakeUp(loop, manager.runLoops) /\ manager' = Handled
      /\ UNCHANGED <<sock, active, source, net, calls>>
      /\ loop \in [SocketLoops -> Looper]
  BY TypesAre DEF SocketInv, WakeLoop
<1>2. /\ loop' \in [SocketLoops -> Looper]
      /\ \A l \in SocketLoops :
           /\ loop'[l].at = loop[l].at /\ loop'[l].due = loop[l].due
           /\ loop'[l].item = loop[l].item /\ loop'[l].again = loop[l].again
           /\ l \in manager.runLoops /\ loop[l].at # "out" => loop'[l].woken
           /\ loop[l].woken => loop'[l].woken
  BY <1>1, WakeUpFields
<1>3. /\ manager' \in Manager /\ manager'.at \in {"receive", "copy"}
      /\ Managing' /\ Telling'
      /\ "read" \in manager.found /\ "write" \in manager.found =>
              manager'.at = "receive" /\ "read" \in manager'.found
  BY <1>1, HandledKeeps
<1>4. SocketTypeOK'
  BY <1>1, <1>2, <1>3, TypesAre, TypesHold DEF SocketInv
<1>5. Owned(sock, active)' /\ Entered(sock, active)' /\ Schedules'
  BY <1>1 DEF SocketInv, Schedules
<1>6. Looping' /\ Pending'
  BY <1>1, <1>2 DEF SocketInv, Looping, Pending
<1>7. Sleeping'
  <2> SUFFICES ASSUME NEW l \in SocketLoops, Unwoken(l)' PROVE FALSE
    BY DEF Sleeping
  <2>1. Unwoken(l) /\ l \in manager.runLoops
    BY <1>1, <1>2 DEF Unwoken, SocketInv, Sleeping
  <2> QED
    BY <1>2, <2>1 DEF Unwoken
<1>8. Covering'
  <2> SUFFICES ASSUME NEW x \in Awaited' PROVE Covered(x)'
    BY DEF Covering
  <2>1. Covered(x)
    BY <1>1 DEF SocketInv, Covering, Awaited, Types
  <2>2. Watched(SetOf(x)) => Watched(SetOf(x))'
    BY <1>1, <1>3 DEF Watched
  <2> QED
    BY <1>1, <1>2, <2>1, <2>2 DEF Covered, Performing
<1> QED
  BY <1>3, <1>4, <1>5, <1>6, <1>7, <1>8 DEF SocketInv

-----------------------------------------------------------------------------
(* Clients.                                                                *)

\* What __CFSocketEnableCallBacks keeps, called for the socket as it is.
LEMMA EnablingHolds ==
  ASSUME SocketInv, NEW types, NEW force \in BOOLEAN,
         EnableCallBacks(sock, active, types, force),
         force \/ "connect" \notin types,
         UNCHANGED <<manager, source>>,
         \A l \in SocketLoops : Unwoken(l)' => Unwoken(l)
  PROVE  /\ sock' \in Sock /\ active' \in Active
         /\ Owned(sock, active)' /\ Entered(sock, active)'
         /\ Schedules' /\ Managing' /\ Telling' /\ Sleeping'
         /\ sock'.queue = sock.queue /\ sock'.signalled = sock.signalled
         /\ SameSocket(sock) /\ active.fds \subseteq active'.fds
         /\ active.wake => active'.wake
<1>1. sock \in Sock /\ active \in Active
  BY TypesAre DEF SocketInv
<1>6. Enabled(sock, active, types, force)
  BY <1>1, Enabling
<1>2. /\ sock' \in Sock /\ active' \in Active /\ SameSocket(sock)
      /\ sock'.signalled = sock.signalled /\ sock'.queue = sock.queue
      /\ active.wake => active'.wake
      /\ active.fds \subseteq active'.fds
      /\ active'.fds \subseteq active.fds \/ active'.wake
  BY <1>6 DEF Enabled
<1>3. Owned(sock', active') /\ Entered(sock', active')
  BY <1>1, EnablingKeeps DEF SocketInv
<1>4. Schedules' /\ Managing'
  BY <1>2 DEF SocketInv, Schedules, Managing, SameSocket, ReadType, Types
<1>5. Telling' /\ Sleeping'
  BY <1>2 DEF SocketInv, Telling, Sleeping
<1> QED
  BY <1>2, <1>3, <1>4, <1>5

\* A type that was enabled, and is awaited, is watched for; connecting is with
\* writing.
LEMMA EnabledIsWatched ==
  ASSUME NEW s \in Sock, NEW a \in Active, NEW types, NEW force \in BOOLEAN,
         EnableCallBacks(s, a, types, force), Owned(s, a), UNCHANGED manager,
         manager.at = "select" => a.wake \/ a.fds \subseteq manager.watch,
         NEW x \in Awaited',
         x \in types \/ (x = "connect" /\ "write" \in types \cap s.kind.types)
  PROVE  Covered(x)'
<1> DEFINE d == Disabled(s, types, force)
           sets == Wanted(s, types, force)
<1>5. Enabled(s, a, types, force)
  BY Enabling
<1>1. /\ SameSocket(s) /\ x \in s.kind.types /\ sock'.valid /\ IsScheduled(s)
      /\ x \notin sock'.disabled
      /\ \/ x \in ReadTypes /\ x \in types
         \/ /\ x = "connect" /\ ~sock'.connected /\ "write" \notin sock'.disabled
            /\ x \in types \/ "write" \in types
  BY <1>5 DEF Enabled, Awaited, Types, SameSocket, IsScheduled, ReadTypes
<1>2. Enables(s, types)
  BY <1>1 DEF Enables, SameSocket
<1>3. /\ sock'.disabled = d /\ sock'.connected = Settled(s)
      /\ active'.fds = a.fds \cup sets
      /\ sets \subseteq a.fds \/ active'.wake
      /\ a.wake => active'.wake
  BY <1>2, <1>5 DEF Enabled
<1>4. SetOf(x) \in sets
  <2>1. CASE x \in ReadTypes /\ x \in types
    <3>1. Reads(s) = {x} /\ s.kind \in SocketKinds
      BY <1>1, <2>1, Kinds, SockFields DEF Reads
    <3>2. d \cap {"read", "data"} = {}
      BY <1>1, <1>3, <3>1 DEF Owned, Disabled, Reads, ReadTypes
    <3> QED
      BY <2>1, <3>1, <3>2 DEF Wanted, SetOf, Sets
  <2>2. CASE x = "connect" /\ ~Settled(s)
    <3>1. SetOf(x) = "write" /\ (x \in types => Writes(s, types) = "connect")
          /\ (x \notin types => Writes(s, types) = "write")
      BY <1>1, <2>2 DEF Writes, SetOf, ReadTypes
    <3> QED
      BY <1>1, <1>3, <2>2, <3>1 DEF Wanted, Sets
  <2> QED
    BY <1>1, <1>3, <2>1, <2>2
<1> HIDE DEF sets
<1> QED
  BY <1>3, <1>4 DEF Covered, Watched

LEMMA EnableCallBacksKeeps ==
  ASSUME SocketInv, NEW y \in Types, CFSocketEnableCallBacks({y})
  PROVE  SocketInv'
<1>1. /\ EnableCallBacks(sock, active, {y}, TRUE)
      /\ UNCHANGED <<manager, source, loop, net>>
      /\ calls' = IF IsScheduled(sock)
                  THEN [calls EXCEPT !.left = calls.left \ {y}] ELSE calls
  BY DEF CFSocketEnableCallBacks
<1>2. /\ sock \in Sock /\ active \in Active /\ calls \in Calls /\ net \in Net
      /\ manager \in Manager /\ source \in Source
      /\ loop \in [SocketLoops -> Looper]
  BY TypesAre DEF SocketInv
<1>3. /\ calls' \in Calls
      /\ calls'.left = IF IsScheduled(sock) THEN calls.left \ {y} ELSE calls.left
  BY <1>1, <1>2 DEF Calls, AnyTypes
<1>4. Enabled(sock, active, {y}, TRUE) /\ SameSocket(sock)
  BY <1>1, <1>2, Enabling DEF Enabled
<1>5. \A l \in SocketLoops : Unwoken(l)' => Unwoken(l)
  BY <1>1, <1>4 DEF Unwoken, SameSocket
<1>6. /\ sock' \in Sock /\ active' \in Active
      /\ Owned(sock, active)' /\ Entered(sock, active)'
      /\ Schedules' /\ Managing' /\ Telling' /\ Sleeping'
      /\ sock'.queue = sock.queue /\ sock'.signalled = sock.signalled
      /\ active.fds \subseteq active'.fds /\ (active.wake => active'.wake)
  BY <1>1, <1>5, EnablingHolds
<1>7. SocketTypeOK'
  BY <1>1, <1>2, <1>3, <1>6, TypesHold
<1>8. Looping' /\ Pending'
  BY <1>1, <1>4, <1>6 DEF SocketInv, Looping, Pending, SameSocket
<1>9. Covering'
  <2> SUFFICES ASSUME NEW x \in Awaited' PROVE Covered(x)'
    BY DEF Covering
  <2>1. CASE x = y \/ (x = "connect" /\ y = "write")
    <3>1. y \in sock.kind.types
      BY DEF Types
    <3> QED
      BY <1>1, <1>2, <2>1, <3>1, EnabledIsWatched DEF SocketInv, Telling
  <2>2. CASE ~(x = y \/ (x = "connect" /\ y = "write"))
    <3>1. sock'.disabled = sock.disabled \/ sock'.disabled = sock.disabled \ {y}
      BY <1>4 DEF Enabled, Disabled, Types
    <3>2. sock.connected => sock'.connected
      BY <1>4 DEF Enabled, Settled
    <3>5. /\ x \in sock.kind.types /\ sock.valid /\ IsScheduled(sock)
          /\ x \notin sock'.disabled /\ x \notin calls'.left
          /\ \/ x \in ReadTypes
             \/ x = "connect" /\ ~sock'.connected /\ "write" \notin sock'.disabled
      BY <1>4 DEF Awaited, SameSocket, IsScheduled, Types
    <3>6. /\ x \notin sock.disabled /\ x \notin calls.left
          /\ x = "connect" /\ "write" \notin sock'.disabled =>
               "write" \notin sock.disabled
      BY <1>3, <2>2, <3>1, <3>5
    <3>3. x \in Awaited
      BY <3>2, <3>5, <3>6 DEF Awaited, Types
    <3>4. Covered(x)
      BY <3>3 DEF SocketInv, Covering
    <3> QED
      BY <1>1, <1>6, <3>4, CoverStays DEF Performing
  <2> QED
    BY <2>1, <2>2
<1> QED
  BY <1>6, <1>7, <1>8, <1>9 DEF SocketInv

LEMMA DisableCallBacksKeeps ==
  ASSUME SocketInv, NEW y \in Types, CFSocketDisableCallBacks({y})
  PROVE  SocketInv'
<1> DEFINE sets == {x \in Sets : IF x = "read" THEN {y} \cap ReadTypes # {}
                                 ELSE \/ "write" \in {y}
                                      \/ "connect" \in {y} /\ ~Settled(sock)}
<1>1. /\ sock' = [sock EXCEPT !.disabled = sock.disabled \cup {y},
                              !.connected = Settled(sock)]
      /\ active' = ClearFDs(active, sets)
      /\ UNCHANGED <<manager, source, loop, net, calls>>
  BY DEF CFSocketDisableCallBacks
<1>2. /\ sock \in Sock /\ active \in Active /\ y \in sock.kind.types
      /\ sock.kind.types \subseteq ReadTypes \cup WriteTypes
  BY TypesAre, Kinds, SockFields DEF SocketInv, Types
<1>3. Settled(sock) \in BOOLEAN /\ (sock.connected => Settled(sock))
  BY DEF Settled
<1>4. /\ sock' \in Sock /\ SameSocket(sock)
      /\ sock'.disabled = sock.disabled \cup {y}
      /\ sock'.connected = Settled(sock)
      /\ sock'.signalled = sock.signalled /\ sock'.queue = sock.queue
  BY <1>1, <1>2, <1>3 DEF Sock, AnyTypes, SameSocket
<1>5. /\ "read" \in sets <=> y \in ReadTypes
      /\ "write" \in sets <=> y = "write" \/ (y = "connect" /\ ~Settled(sock))
  BY DEF Sets
<1> HIDE DEF sets
<1>6. /\ active' \in Active /\ active'.fds = active.fds \ sets
      /\ active'.arrays = active.arrays /\ (active.wake => active'.wake)
  BY <1>1, <1>2, ClearFDsFields
<1>7. SocketTypeOK'
  BY <1>1, <1>4, <1>6, TypesAre, TypesHold DEF SocketInv
<1>8. Owned(sock, active)'
  BY <1>2, <1>4, <1>5, <1>6
     DEF SocketInv, Owned, SameSocket, Reads, IsScheduled
<1>9. Entered(sock, active)' /\ Schedules' /\ Managing' /\ Telling'
  BY <1>1, <1>4, <1>6
     DEF SocketInv, Entered, Schedules, Managing, Telling, SameSocket, Reads,
         IsScheduled, ReadType, Types
<1>10. Looping' /\ Pending' /\ Sleeping'
  BY <1>1, <1>4 DEF SocketInv, Looping, Pending, Sleeping, Unwoken, SameSocket
<1>11. Covering'
  <2> SUFFICES ASSUME NEW x \in Awaited' PROVE Covered(x)'
    BY DEF Covering
  <2>1. /\ x \in sock.kind.types /\ sock.valid /\ IsScheduled(sock)
        /\ x \notin sock'.disabled /\ x \notin calls.left
        /\ \/ x \in ReadTypes
           \/ /\ x = "connect" /\ ~sock'.connected
              /\ "write" \notin sock'.disabled
    BY <1>1, <1>4 DEF Awaited, SameSocket, IsScheduled, Types
  <2>2. x \in Awaited
    BY <1>3, <1>4, <2>1 DEF Awaited, Types
  <2>3. SetOf(x) \notin sets
    <3>1. CASE x \in ReadTypes
      <4>1. sock.kind.types \cap ReadTypes = {x} /\ x # y
        BY <1>2, <1>4, <2>1, <3>1, Kinds, SockFields
      <4> QED
        BY <1>2, <1>5, <3>1, <4>1 DEF SetOf
    <3>2. CASE x \notin ReadTypes
      BY <1>4, <1>5, <2>1, <3>2 DEF SetOf
    <3> QED
      BY <3>1, <3>2
  <2>4. Covered(x)
    BY <2>2 DEF SocketInv, Covering
  <2>5. Watched(SetOf(x)) => Watched(SetOf(x))'
    BY <1>1, <1>6, <2>3 DEF Watched
  <2> QED
    BY <1>1, <1>4, <2>4, <2>5 DEF Covered, Performing
<1> QED
  BY <1>7, <1>8, <1>9, <1>10, <1>11 DEF SocketInv

\* A socket that is not valid: nothing is awaited of it, pending or in a set.
LEMMA InvalidateKeeps ==
  ASSUME SocketInv, NEW f \in [SocketLoops -> Looper], Invalidate(f), sock.valid,
         \A l \in SocketLoops :
           /\ f[l].due \cap {"data", "accept"} # {} => f[l].item \in Nat
           /\ l \notin sock.kind.loops => f[l].at = "out",
         UNCHANGED <<manager, calls>>
  PROVE  SocketInv'
<1> DEFINE none == <<>>
<1>13. none = <<>> /\ none \in Seq(Nat)
  OBVIOUS
<1>1. /\ sock' = [sock EXCEPT !.valid = FALSE, !.signalled = {}, !.queue = none,
                              !.runLoops = {}, !.setCount = 0]
      /\ active' = LeaveArrays(active)
      /\ source' = [signaled |-> FALSE, in |-> {}]
      /\ loop' = WakeUp(f, sock.runLoops)
      /\ net' = [net EXCEPT !.inbox = none]
  BY DEF Invalidate
<1> HIDE DEF none
<1>2. /\ sock \in Sock /\ active \in Active /\ net \in Net
      /\ active.fds \subseteq active.arrays
  BY TypesAre DEF SocketInv, Owned
<1>3. /\ sock' \in Sock /\ sock'.kind = sock.kind /\ ~sock'.valid
      /\ sock'.signalled = {} /\ sock'.queue = <<>> /\ sock'.setCount = 0
      /\ sock'.runLoops = {} /\ sock'.disabled = sock.disabled
  BY <1>1, <1>2, <1>13 DEF Sock
<1>4. active' \in Active /\ active'.fds = {} /\ active'.arrays = {}
  BY <1>1, <1>2, LeaveArraysFields
<1>5. source' \in Source /\ ~source'.signaled /\ source'.in = {}
  BY <1>1 DEF Source
<1>6. /\ loop' \in [SocketLoops -> Looper]
      /\ \A l \in SocketLoops :
           /\ loop'[l].at = f[l].at /\ loop'[l].due = f[l].due
           /\ loop'[l].item = f[l].item
  BY <1>1, WakeUpFields
<1>7. net' \in Net
  BY <1>1, <1>2, <1>13 DEF Net
<1>8. SocketTypeOK'
  BY <1>3, <1>4, <1>5, <1>6, <1>7, TypesAre, TypesHold DEF SocketInv
<1>9. Owned(sock, active)' /\ Entered(sock, active)'
  BY <1>3, <1>4 DEF SocketInv, Owned, Entered
<1>10. Schedules'
  BY <1>3, <1>5, FS_EmptySet DEF Schedules
<1>11. Managing' /\ Telling' /\ Looping'
  BY <1>3, <1>4, <1>6
     DEF SocketInv, Managing, Telling, Looping, ReadType, Types
<1>12. Pending' /\ Sleeping' /\ Covering'
  BY <1>3, <1>5 DEF Pending, Sleeping, Unwoken, Covering, Awaited
<1> QED
  BY <1>8, <1>9, <1>10, <1>11, <1>12 DEF SocketInv

LEMMA ScheduleKeeps ==
  ASSUME SocketInv, NEW l \in SocketLoops, Schedule(l)
  PROVE  SocketInv'
<1> DEFINE n == sock.setCount + 1
           s == [sock EXCEPT !.runLoops = sock.runLoops \cup {l}, !.setCount = n]
           Alone == /\ EnableCallBacks(s, active, Types, TRUE)
                    /\ calls' = [calls EXCEPT !.left = {}]
           Again == n > 1 /\ sock' = s /\ UNCHANGED <<active, calls>>
<1>1. /\ sock \in Sock /\ active \in Active /\ calls \in Calls
      /\ source \in Source /\ loop \in [SocketLoops -> Looper]
      /\ net \in Net /\ manager \in Manager /\ n \in Nat
  BY TypesAre, SockFields DEF SocketInv
<1> HIDE DEF n
<1>2. /\ s \in Sock /\ s.kind = sock.kind /\ s.valid = sock.valid
      /\ s.setCount = n /\ s.runLoops = sock.runLoops \cup {l}
      /\ s.disabled = sock.disabled /\ s.connected = sock.connected
      /\ s.signalled = sock.signalled /\ s.queue = sock.queue
  BY <1>1 DEF Sock
<1>3. /\ sock.valid /\ loop[l].at \in {"out", "run", "callout"}
      /\ l \in sock.kind.loops /\ l \notin source.in
      /\ Alone \/ Again
      /\ source' = [source EXCEPT !.in = source.in \cup {l}]
      /\ UNCHANGED <<manager, loop, net>>
  BY <1>2 DEF Schedule, InClient, n
<1> HIDE DEF s, Alone, Again
<1>4. /\ source' \in Source /\ source'.signaled = source.signaled
      /\ source'.in = source.in \cup {l}
  BY <1>1, <1>3 DEF Source
<1>5. Owned(s, active) /\ IsScheduled(s)
  BY <1>1, <1>2 DEF SocketInv, Owned, Reads, IsScheduled, n, Sock
<1>6. /\ sock' \in Sock /\ active' \in Active /\ SameSocket(s)
      /\ sock'.signalled = s.signalled /\ sock'.queue = s.queue
      /\ Owned(sock', active') /\ Entered(sock', active')
      /\ active.fds \subseteq active'.fds
      /\ active.wake => active'.wake
      /\ active'.fds \subseteq active.fds \/ active'.wake
      /\ calls' \in Calls
  <2>1. CASE Alone
    <3>1. EnableCallBacks(s, active, Types, TRUE) /\ Types = s.kind.types
          /\ calls' = [calls EXCEPT !.left = {}]
      BY <1>2, <2>1 DEF Types, Alone
    <3>2. Enabled(s, active, Types, TRUE)
      BY <1>1, <1>2, <3>1, Enabling
    <3>3. Owned(sock', active') /\ Entered(sock', active')
      BY <1>1, <1>2, <1>5, <3>1, EnablingKeeps
    <3>4. calls' \in Calls
      BY <1>1, <3>1 DEF Calls, AnyTypes
    <3> QED
      BY <3>2, <3>3, <3>4 DEF Enabled
  <2>2. CASE Again
    <3>1. n > 1 /\ sock' = s /\ UNCHANGED <<active, calls>>
      BY <2>2 DEF Again
    <3>2. IsScheduled(sock)
      BY <1>1, <3>1, SockFields DEF IsScheduled, n
    <3>3. Entered(s, active)
      BY <1>2, <3>2 DEF SocketInv, Entered, Reads
    <3> QED
      BY <1>1, <1>2, <1>5, <3>1, <3>3 DEF SameSocket
  <2> QED
    BY <1>3, <2>1, <2>2
<1>7. SocketTypeOK'
  BY <1>1, <1>3, <1>4, <1>6, TypesHold
<1>8. Schedules'
  <2>1. IsFiniteSet(source.in) /\ sock.setCount = Cardinality(source.in)
        /\ sock.runLoops = source.in /\ source.in \subseteq sock.kind.loops
    BY DEF SocketInv, Schedules
  <2>2. IsFiniteSet(source.in \cup {l})
        /\ Cardinality(source.in \cup {l}) = Cardinality(source.in) + 1
    BY <1>3, <2>1, FS_AddElement
  <2> QED
    BY <1>2, <1>3, <1>4, <1>6, <2>1, <2>2 DEF Schedules, SameSocket, n
<1>9. Managing' /\ Telling' /\ Looping' /\ Pending'
  BY <1>2, <1>3, <1>4, <1>6
     DEF SocketInv, Managing, Telling, Looping, Pending, SameSocket, ReadType,
         Types
<1>10. Sleeping'
  BY <1>2, <1>3, <1>4, <1>6 DEF SocketInv, Sleeping, Unwoken, SameSocket
<1>11. Covering'
  <2> SUFFICES ASSUME NEW x \in Awaited' PROVE Covered(x)'
    BY DEF Covering
  <2>1. CASE Alone
    <3>1. x \in Types
      BY <1>2, <1>6 DEF Awaited, Types, SameSocket
    <3>2. manager.at = "select" => active.wake \/ active.fds \subseteq manager.watch
      BY DEF SocketInv, Telling
    <3>3. EnableCallBacks(s, active, Types, TRUE) /\ UNCHANGED manager
      BY <1>3, <2>1 DEF Alone
    <3> QED
      BY <1>1, <1>2, <1>5, <3>1, <3>2, <3>3, EnabledIsWatched
  <2>2. CASE Again
    <3>1. n > 1 /\ sock' = s /\ UNCHANGED <<active, calls>>
      BY <2>2 DEF Again
    <3>2. IsScheduled(sock)
      BY <1>1, <3>1, SockFields DEF IsScheduled, n
    <3>3. x \in Awaited
      BY <1>2, <3>1, <3>2 DEF Awaited, Types
    <3>4. Covered(x)
      BY <3>3 DEF SocketInv, Covering
    <3> QED
      BY <1>2, <1>3, <1>6, <3>1, <3>4, CoverStays DEF Performing
  <2> QED
    BY <1>3, <2>1, <2>2
<1> QED
  BY <1>6, <1>7, <1>8, <1>9, <1>10, <1>11 DEF SocketInv

LEMMA CancelKeeps ==
  ASSUME SocketInv, NEW l \in SocketLoops, Cancel(l)
  PROVE  SocketInv'
<1> DEFINE n == sock.setCount - 1
<1>1. /\ sock \in Sock /\ active \in Active /\ source \in Source
      /\ active.fds \subseteq active.arrays
  BY TypesAre DEF SocketInv, Owned
<1>2. /\ l \in source.in /\ IsFiniteSet(source.in)
      /\ sock.setCount = Cardinality(source.in)
      /\ sock.runLoops = source.in /\ source.in \subseteq sock.kind.loops
  BY DEF SocketInv, Schedules, Cancel
<1>3. /\ IsFiniteSet(source.in \ {l}) /\ n = Cardinality(source.in \ {l})
      /\ n \in Nat /\ sock.setCount = n + 1
  <2>1. /\ IsFiniteSet(source.in \ {l})
        /\ Cardinality(source.in \ {l}) = Cardinality(source.in) - 1
    BY <1>2, FS_RemoveElement
  <2>2. Cardinality(source.in) \in Nat /\ Cardinality(source.in \ {l}) \in Nat
    BY <1>2, <2>1, FS_CardinalityType
  <2> QED
    BY <1>2, <2>1, <2>2
<1>4. /\ sock' = [sock EXCEPT !.runLoops = sock.runLoops \ {l}, !.setCount = n]
      /\ active' = IF sock'.setCount = 0 THEN LeaveArrays(active) ELSE active
      /\ source' = [source EXCEPT !.in = source.in \ {l}]
      /\ UNCHANGED <<manager, loop, net, calls>>
  BY DEF Cancel
<1> HIDE DEF n
<1>5. /\ sock' \in Sock /\ sock'.kind = sock.kind /\ sock'.valid = sock.valid
      /\ sock'.setCount = n /\ sock'.runLoops = sock.runLoops \ {l}
      /\ sock'.disabled = sock.disabled /\ sock'.connected = sock.connected
      /\ sock'.signalled = sock.signalled /\ sock'.queue = sock.queue
  BY <1>1, <1>3, <1>4 DEF Sock
<1>6. /\ source' \in Source /\ source'.signaled = source.signaled
      /\ source'.in = source.in \ {l}
  BY <1>1, <1>4 DEF Source
<1>7. /\ active' \in Active
      /\ n = 0 => active'.fds = {} /\ active'.arrays = {}
      /\ n # 0 => active' = active
  BY <1>1, <1>4, <1>5, LeaveArraysFields
<1>8. IsScheduled(sock) /\ (IsScheduled(sock)' <=> n # 0)
  BY <1>3, <1>5 DEF IsScheduled
<1>9. SocketTypeOK'
  BY <1>4, <1>5, <1>6, <1>7, TypesAre, TypesHold DEF SocketInv
<1>10. Owned(sock, active)' /\ Entered(sock, active)'
  BY <1>5, <1>7, <1>8 DEF SocketInv, Owned, Entered, Reads
<1>11. Schedules'
  BY <1>2, <1>3, <1>5, <1>6 DEF Schedules
<1>12. Managing' /\ Looping' /\ Pending' /\ Sleeping'
  BY <1>4, <1>5, <1>6
     DEF SocketInv, Managing, Looping, Pending, Sleeping, Unwoken, ReadType,
         Types
<1>13. Telling'
  BY <1>4, <1>7 DEF SocketInv, Telling
<1>14. Covering'
  <2> SUFFICES ASSUME NEW x \in Awaited' PROVE Covered(x)'
    BY DEF Covering
  <2>1. n # 0 /\ x \in Awaited
    BY <1>4, <1>5, <1>8 DEF Awaited, Types
  <2>2. Covered(x) /\ active' = active
    BY <1>7, <2>1 DEF SocketInv, Covering
  <2> QED
    BY <1>4, <1>5, <2>2, CoverStays DEF Performing
<1> QED
  BY <1>9, <1>10, <1>11, <1>12, <1>13, <1>14 DEF SocketInv

-----------------------------------------------------------------------------
(* Run loops.                                                              *)

\* Nothing that loops are relied on for changes.
LEMMA LoopsMove ==
  ASSUME SocketInv, UNCHANGED <<sock, active, manager, source>>,
         net' \in Net, calls' \in Calls, calls'.left = calls.left,
         loop' \in [SocketLoops -> Looper],
         \A m \in SocketLoops :
           /\ loop'[m].due \cap {"data", "accept"} # {} => loop'[m].item \in Nat
           /\ m \notin sock.kind.loops => loop'[m].at = "out"
           /\ Unwoken(m)' => Unwoken(m)
           /\ sock.valid =>
                /\ loop[m].at = "entered" => loop'[m].at = "entered"
                /\ loop[m].at \in {"perform", "callout"} =>
                     loop'[m].at \in {"perform", "callout"}
                /\ Performing(m) =>
                     Performing(m)' /\ loop[m].again \subseteq loop'[m].again
  PROVE  SocketInv'
<1>1. SocketTypeOK'
  BY TypesAre, TypesHold DEF SocketInv
<1>2. Owned(sock, active)' /\ Entered(sock, active)'
  BY DEF SocketInv
<1>3. Schedules' /\ Managing' /\ Telling' /\ Looping'
  BY DEF SocketInv, Schedules, Managing, Telling, Looping, ReadType, Types
<1>4. Pending'
  BY DEF SocketInv, Pending
<1>5. Sleeping'
  BY DEF SocketInv, Sleeping
<1>6. Covering'
  <2> SUFFICES ASSUME NEW x \in Awaited' PROVE Covered(x)'
    BY DEF Covering
  <2>1. Covered(x) /\ sock.valid
    BY DEF SocketInv, Covering, Awaited, Types
  <2> QED
    BY <2>1, CoverStays
<1> QED
  BY <1>1, <1>2, <1>3, <1>4, <1>5, <1>6 DEF SocketInv

LEMMA GotoFields ==
  ASSUME loop \in [SocketLoops -> Looper], NEW l \in SocketLoops,
         NEW at \in {"out", "run", "asleep", "entered", "perform", "callout",
                     "choose", "enable", "wake"}
  PROVE  /\ Goto(l, at) \in [SocketLoops -> Looper]
         /\ Goto(l, at)[l].at = at
         /\ Goto(l, at)[l].due = loop[l].due
         /\ Goto(l, at)[l].item = loop[l].item
         /\ Goto(l, at)[l].again = loop[l].again
         /\ Goto(l, at)[l].woken = loop[l].woken
         /\ \A m \in SocketLoops \ {l} : Goto(l, at)[m] = loop[m]
<1> DEFINE x == [loop[l] EXCEPT !.at = at]
<1>1. Goto(l, at) = [loop EXCEPT ![l] = x]
  BY DEF Goto
<1>2. /\ x \in Looper /\ x.at = at /\ x.due = loop[l].due
      /\ x.item = loop[l].item /\ x.again = loop[l].again
      /\ x.woken = loop[l].woken
  BY DEF Looper
<1> HIDE DEF x
<1> QED
  BY <1>1, <1>2

LEMMA RunLoopStepKeeps ==
  ASSUME SocketInv, NEW l \in SocketLoops, RunLoopStep(l)
  PROVE  SocketInv'
<1>1. /\ l \in sock.kind.loops /\ loop[l].at \in {"out", "run", "asleep"}
      /\ UNCHANGED <<sock, active, manager, net, calls>>
      /\ loop \in [SocketLoops -> Looper] /\ source \in Source
      /\ net \in Net /\ calls \in Calls
  BY TypesAre DEF SocketInv, RunLoopStep
<1>2. ASSUME NEW at \in {"out", "run", "asleep"}, loop' = Goto(l, at),
             UNCHANGED source,
             at = "asleep" => ~(source.signaled /\ l \in source.in)
      PROVE  SocketInv'
  <2>1. /\ loop' \in [SocketLoops -> Looper]
        /\ loop'[l].at = at /\ loop'[l].due = loop[l].due
        /\ loop'[l].item = loop[l].item /\ loop'[l].again = loop[l].again
        /\ \A m \in SocketLoops \ {l} : loop'[m] = loop[m]
    BY <1>1, <1>2, GotoFields
  <2>2. \A m \in SocketLoops : Unwoken(m)' => Unwoken(m)
    BY <1>1, <1>2, <2>1 DEF Unwoken
  <2>3. \A m \in SocketLoops :
          /\ loop'[m].due \cap {"data", "accept"} # {} => loop'[m].item \in Nat
          /\ m \notin sock.kind.loops => loop'[m].at = "out"
    BY <1>1, <2>1 DEF SocketInv, Looping
  <2> QED
    BY <1>1, <1>2, <2>1, <2>2, <2>3, LoopsMove DEF Performing
<1>3. ASSUME source.signaled, loop[l].at = "run", loop' = Goto(l, "entered"),
             source' = [source EXCEPT !.signaled = FALSE]
      PROVE  SocketInv'
  <2>1. /\ loop' \in [SocketLoops -> Looper]
        /\ loop'[l].at = "entered" /\ loop'[l].due = loop[l].due
        /\ loop'[l].item = loop[l].item /\ loop'[l].again = loop[l].again
        /\ \A m \in SocketLoops \ {l} : loop'[m] = loop[m]
    BY <1>1, <1>3, GotoFields
  <2>2. source' \in Source /\ ~source'.signaled /\ source'.in = source.in
    BY <1>1, <1>3 DEF Source
  <2>3. SocketTypeOK'
    BY <1>1, <2>1, <2>2, TypesAre, TypesHold DEF SocketInv
  <2>4. Owned(sock, active)' /\ Entered(sock, active)'
    BY <1>1 DEF SocketInv
  <2>5. Schedules' /\ Managing' /\ Telling' /\ Looping'
    BY <1>1, <2>1, <2>2
       DEF SocketInv, Schedules, Managing, Telling, Looping, ReadType, Types
  <2>6. Pending' /\ Sleeping'
    BY <2>1, <2>2 DEF Pending, Sleeping, Unwoken
  <2>7. Covering'
    <3> SUFFICES ASSUME NEW x \in Awaited' PROVE Covered(x)'
      BY DEF Covering
    <3>1. Covered(x)
      BY <1>1 DEF SocketInv, Covering, Awaited, Types
    <3>2. \A m \in SocketLoops :
            Performing(m) => Performing(m)' /\ loop[m].again \subseteq loop'[m].again
      BY <1>3, <2>1 DEF Performing
    <3> QED
      BY <1>1, <3>1, <3>2, CoverStays
  <2> QED
    BY <2>3, <2>4, <2>5, <2>6, <2>7 DEF SocketInv
<1>4. ASSUME loop[l].at = "asleep",
             loop' = [loop EXCEPT ![l].at = "run", ![l].woken = FALSE],
             UNCHANGED source
      PROVE  SocketInv'
  <2> DEFINE x == [loop[l] EXCEPT !.at = "run", !.woken = FALSE]
  <2>1. loop' = [loop EXCEPT ![l] = x]
    BY <1>1, <1>4 DEF Looper
  <2>2. /\ x \in Looper /\ x.at = "run" /\ x.due = loop[l].due
        /\ x.item = loop[l].item
    <3> DEFINE z == loop[l]
    <3>1. z \in Looper
      BY <1>1
    <3> HIDE DEF z
    <3>2. LET w == [z EXCEPT !.at = "run", !.woken = FALSE]
          IN  /\ w \in Looper /\ w.at = "run" /\ w.due = z.due
              /\ w.item = z.item
      BY <3>1 DEF Looper
    <3> QED
      BY <3>2 DEF z
  <2> HIDE DEF x
  <2>3. /\ loop' \in [SocketLoops -> Looper] /\ loop'[l] = x
        /\ \A m \in SocketLoops \ {l} : loop'[m] = loop[m]
    BY <1>1, <2>1, <2>2
  <2>4. \A m \in SocketLoops : Unwoken(m)' => Unwoken(m)
    BY <1>1, <1>4, <2>2, <2>3 DEF Unwoken
  <2>5. \A m \in SocketLoops :
          /\ loop'[m].due \cap {"data", "accept"} # {} => loop'[m].item \in Nat
          /\ m \notin sock.kind.loops => loop'[m].at = "out"
    BY <1>1, <2>2, <2>3 DEF SocketInv, Looping
  <2> QED
    BY <1>1, <1>4, <2>2, <2>3, <2>4, <2>5, LoopsMove DEF Performing
<1> QED
  BY <1>2, <1>3, <1>4 DEF RunLoopStep

LEMMA TakeSignalsKeeps ==
  ASSUME SocketInv, NEW l \in SocketLoops, TakeSignals(l)
  PROVE  SocketInv'
<1>1. /\ loop[l].at = "entered" /\ l \in sock.kind.loops
      /\ UNCHANGED <<active, manager, source, net, calls>>
      /\ loop \in [SocketLoops -> Looper] /\ sock \in Sock
      /\ net \in Net /\ calls \in Calls
  BY TypesAre DEF SocketInv, Looping, TakeSignals
<1>2. CASE ~sock.valid
  <2>1. loop' = Goto(l, "run") /\ UNCHANGED sock
    BY <1>2 DEF TakeSignals
  <2>2. /\ loop' \in [SocketLoops -> Looper]
        /\ loop'[l].at = "run" /\ loop'[l].due = loop[l].due
        /\ loop'[l].item = loop[l].item
        /\ \A m \in SocketLoops \ {l} : loop'[m] = loop[m]
    BY <1>1, <2>1, GotoFields
  <2>3. \A m \in SocketLoops : Unwoken(m)' => Unwoken(m)
    BY <1>1, <2>1, <2>2 DEF Unwoken
  <2>4. \A m \in SocketLoops :
          /\ loop'[m].due \cap {"data", "accept"} # {} => loop'[m].item \in Nat
          /\ m \notin sock.kind.loops => loop'[m].at = "out"
    BY <1>1, <2>2 DEF SocketInv, Looping
  <2> QED
    BY <1>1, <1>2, <2>1, <2>2, <2>3, <2>4, LoopsMove
<1>3. CASE sock.valid
  <2> DEFINE wrote == "write" \in sock.signalled
             item  == IF sock.queue = <<>> THEN NoItem ELSE Head(sock.queue)
             reads == IF ReadType = {"read"} THEN "read" \in sock.signalled
                                             ELSE item # NoItem
             due   == {x \in Types :
                         CASE x = "connect" -> wrote /\ ~sock.connected
                           [] x = "write"   -> wrote /\ ~sock.error
                           [] OTHER         -> reads}
             again == {x \in Types : \/ x \in ReadTypes /\ "read" \in sock.signalled
                                     \/ x = "write" /\ wrote}
             queue == IF sock.queue = <<>> THEN sock.queue ELSE Tail(sock.queue)
             connected == sock.connected \/ wrote
             y == [loop[l] EXCEPT !.at = "perform", !.due = due, !.item = item,
                                  !.again = again]
  <2>1. /\ loop' = [loop EXCEPT ![l] = y]
        /\ sock' = [sock EXCEPT !.signalled = {}, !.connected = connected,
                                !.queue = queue]
    BY <1>3 DEF TakeSignals
  <2>2. /\ sock.queue \in Seq(Nat) /\ Types \subseteq ReadTypes \cup WriteTypes
    BY <1>1, SockFields, Kinds DEF Types
  <2>3. queue \in Seq(Nat) /\ item \in Item /\ connected \in BOOLEAN
        /\ (sock.queue # <<>> => item \in Nat)
    BY <2>2 DEF Item
  <2>4. due \in AnyTypes /\ again \in AnyTypes
    BY <2>2 DEF AnyTypes
  <2>5. due \cap {"data", "accept"} # {} => item \in Nat
    <3> SUFFICES ASSUME due \cap {"data", "accept"} # {} PROVE sock.queue # <<>>
      BY <2>3
    <3>1. PICK x \in {"data", "accept"} : x \in due
      OBVIOUS
    <3>2. x \in ReadType /\ x # "read" /\ reads
      BY <3>1 DEF ReadType, ReadTypes
    <3> QED
      BY <3>2
  <2>6. /\ "read" \in sock.signalled => ReadType \subseteq again
        /\ "write" \in sock.signalled => connected
        /\ sock.connected => connected
    BY DEF ReadType
  <2> HIDE DEF wrote, item, reads, due, again, queue, connected
  <2>7. /\ y \in Looper /\ y.at = "perform" /\ y.due = due /\ y.item = item
        /\ y.again = again
    <3> DEFINE z == loop[l]
    <3>1. z \in Looper
      BY <1>1
    <3> HIDE DEF z
    <3>2. LET w == [z EXCEPT !.at = "perform", !.due = due, !.item = item,
                             !.again = again]
          IN  /\ w \in Looper /\ w.at = "perform" /\ w.due = due
              /\ w.item = item /\ w.again = again
      BY <2>3, <2>4, <3>1 DEF Looper
    <3> QED
      BY <3>2 DEF z
  <2> HIDE DEF y
  <2>8. /\ loop' \in [SocketLoops -> Looper] /\ loop'[l] = y
        /\ \A m \in SocketLoops \ {l} : loop'[m] = loop[m]
    BY <1>1, <2>1, <2>7
  <2>9. /\ sock' \in Sock /\ SameSocket(sock)
        /\ sock'.disabled = sock.disabled /\ sock'.connected = connected
        /\ sock'.signalled = {}
    BY <1>1, <2>1, <2>3 DEF Sock, SameSocket
  <2>10. SocketTypeOK'
    BY <1>1, <2>8, <2>9, TypesAre, TypesHold DEF SocketInv
  <2>11. Owned(sock, active)' /\ Entered(sock, active)'
    BY <1>1, <2>9 DEF SocketInv, Owned, Entered, Reads, SameSocket, IsScheduled
  <2>12. Schedules' /\ Managing' /\ Telling'
    BY <1>1, <2>9
       DEF SocketInv, Schedules, Managing, Telling, ReadType, Types, SameSocket
  <2>13. Looping'
    BY <1>1, <2>5, <2>7, <2>8, <2>9 DEF SocketInv, Looping, SameSocket
  <2>14. Pending' /\ Sleeping'
    BY <1>1, <2>7, <2>8, <2>9
       DEF SocketInv, Pending, Sleeping, Unwoken, SameSocket
  <2>15. Covering'
    <3> SUFFICES ASSUME NEW x \in Awaited' PROVE Covered(x)'
      BY DEF Covering
    <3>1. x \in Awaited
      BY <1>1, <2>6, <2>9 DEF Awaited, Types, SameSocket, IsScheduled
    <3>2. Covered(x)
      BY <3>1 DEF SocketInv, Covering
    <3>3. CASE Watched(SetOf(x))
      BY <1>1, <3>3 DEF Covered, Watched
    <3>4. CASE SetOf(x) \in sock.signalled
      <4>1. x \in ReadType
        BY <2>6, <2>9, <3>1, <3>4 DEF Awaited, SetOf, ReadType
      <4>2. x \in again
        BY <2>6, <3>4, <4>1 DEF SetOf, ReadType
      <4> QED
        BY <2>7, <2>8, <4>2 DEF Covered, Performing
    <3>5. CASE \E m \in SocketLoops : Performing(m) /\ x \in loop[m].again
      BY <1>1, <2>8, <3>5 DEF Covered, Performing
    <3> QED
      BY <3>2, <3>3, <3>4, <3>5 DEF Covered
  <2> QED
    BY <2>10, <2>11, <2>12, <2>13, <2>14, <2>15 DEF SocketInv
<1> QED
  BY <1>2, <1>3

\* What is called out is due.
LEMMA FirstIsDue ==
  ASSUME NEW due
  PROVE  First(due) \in {"data", "accept"} => due \cap {"data", "accept"} # {}
<1> SUFFICES ASSUME First(due) \in {"data", "accept"}
             PROVE  due \cap {"data", "accept"} # {}
  OBVIOUS
<1>1. CASE "connect" \in due \/ due \cap ReadTypes = {}
  BY <1>1 DEF First
<1>2. CASE "connect" \notin due /\ due \cap ReadTypes # {}
  <2>1. \E x \in due : x \in ReadTypes
    BY <1>2
  <2>2. First(due) \in due
    BY <1>2, <2>1 DEF First
  <2> QED
    BY <2>2
<1> QED
  BY <1>1, <1>2

\* A performing thread goes on to x, with no less to enable again.
LEMMA PerformingKeeps ==
  ASSUME SocketInv, NEW l \in SocketLoops, NEW x \in Looper,
         loop' = [loop EXCEPT ![l] = x],
         UNCHANGED <<sock, active, manager, source>>,
         net' \in Net, calls' \in Calls, calls'.left = calls.left,
         x.due \subseteq loop[l].due, x.item = loop[l].item,
         x.again = loop[l].again,
         Performing(l), x.at \in {"perform", "callout", "choose", "enable"},
         loop[l].at \in {"perform", "callout"} => x.at \in {"perform", "callout"}
  PROVE  SocketInv'
<1>1. /\ loop \in [SocketLoops -> Looper] /\ l \in sock.kind.loops
  BY TypesAre DEF SocketInv, Looping, Performing
<1>2. /\ loop' \in [SocketLoops -> Looper] /\ loop'[l] = x
      /\ \A m \in SocketLoops \ {l} : loop'[m] = loop[m]
  BY <1>1
<1>3. \A m \in SocketLoops : Unwoken(m)' => Unwoken(m)
  BY <1>2 DEF Unwoken
<1>4. \A m \in SocketLoops :
        /\ loop'[m].due \cap {"data", "accept"} # {} => loop'[m].item \in Nat
        /\ m \notin sock.kind.loops => loop'[m].at = "out"
  BY <1>1, <1>2 DEF SocketInv, Looping
<1>5. \A m \in SocketLoops :
        /\ loop[m].at = "entered" => loop'[m].at = "entered"
        /\ loop[m].at \in {"perform", "callout"} =>
             loop'[m].at \in {"perform", "callout"}
        /\ Performing(m) =>
             Performing(m)' /\ loop[m].again \subseteq loop'[m].again
  BY <1>2 DEF Performing
<1> QED
  BY <1>2, <1>3, <1>4, <1>5, LoopsMove

LEMMA CallOutKeeps ==
  ASSUME SocketInv, NEW l \in SocketLoops, CallOut(l)
  PROVE  SocketInv'
<1> DEFINE z == loop[l]
<1>1. /\ z.at = "perform" /\ z.due # {} /\ z \in Looper
      /\ UNCHANGED <<sock, active, manager, source, net>>
      /\ net \in Net /\ calls \in Calls
  BY TypesAre DEF SocketInv, CallOut
<1>2. loop[l] = z /\ (z.due \cap {"data", "accept"} # {} => z.item \in Nat)
  BY DEF SocketInv, Looping
<1>3. CASE loop[l].called /\ ~sock.valid
  <2> DEFINE x == [z EXCEPT !.due = {}]
  <2>1. loop' = [loop EXCEPT ![l] = x] /\ UNCHANGED calls
    BY <1>3 DEF CallOut
  <2> HIDE DEF z
  <2>2. /\ x \in Looper /\ x.at = "perform" /\ x.due = {} /\ x.item = z.item
        /\ x.again = z.again
    BY <1>1 DEF Looper, AnyTypes
  <2> HIDE DEF x
  <2> QED
    BY <1>1, <1>2, <2>1, <2>2, PerformingKeeps DEF Performing
<1>4. CASE ~(loop[l].called /\ ~sock.valid)
  <2> DEFINE x == [z EXCEPT !.at = "callout"]
             f == First(z.due)
             connects == IF f = "connect" THEN calls.connects + 1
                                          ELSE calls.connects
             given == IF f \in {"data", "accept"} THEN Append(calls.given, z.item)
                                                  ELSE calls.given
  <2>1. /\ loop' = [loop EXCEPT ![l] = x]
        /\ calls' = [calls EXCEPT !.connects = connects, !.given = given]
    BY <1>4 DEF CallOut, Goto
  <2>2. connects \in Nat
    BY <1>1 DEF Calls
  <2>3. f \in {"data", "accept"} => z.item \in Nat
    BY <1>2, FirstIsDue
  <2>4. given \in Seq(Nat)
    BY <1>1, <2>3 DEF Calls
  <2> HIDE DEF z, connects, given
  <2>5. calls' \in Calls /\ calls'.left = calls.left
    BY <1>1, <2>1, <2>2, <2>4 DEF Calls
  <2>6. /\ x \in Looper /\ x.at = "callout" /\ x.due = z.due /\ x.item = z.item
        /\ x.again = z.again
    BY <1>1 DEF Looper
  <2> HIDE DEF x
  <2> QED
    BY <1>1, <1>2, <2>1, <2>5, <2>6, PerformingKeeps DEF Performing
<1> QED
  BY <1>3, <1>4

LEMMA ReadItemKeeps ==
  ASSUME SocketInv, NEW l \in SocketLoops, ReadItem(l)
  PROVE  SocketInv'
<1>1. net \in Net /\ calls \in Calls
  BY TypesAre DEF SocketInv
<1>2. /\ net.inbox # <<>> /\ UNCHANGED <<sock, active, manager, source, loop>>
      /\ net' = [net EXCEPT !.inbox = Tail(net.inbox)]
      /\ calls' = [calls EXCEPT !.given = Append(calls.given, Head(net.inbox))]
  BY DEF ReadItem
<1>3. Tail(net.inbox) \in Seq(Nat) /\ Append(calls.given, Head(net.inbox)) \in Seq(Nat)
  BY <1>1, <1>2 DEF Net, Calls
<1>4. net' \in Net
  BY <1>1, <1>2, <1>3 DEF Net
<1>5. calls' \in Calls /\ calls'.left = calls.left
  BY <1>1, <1>2, <1>3 DEF Calls
<1> QED
  BY <1>2, <1>4, <1>5, NetKeeps

LEMMA ReturnedKeeps ==
  ASSUME SocketInv, NEW l \in SocketLoops, Returned(l)
  PROVE  SocketInv'
<1> DEFINE z == loop[l]
           f == First(z.due)
           rest == z.due \ {f}
           x == [z EXCEPT !.at = "perform", !.called = TRUE, !.due = rest]
           back == [loop EXCEPT ![l] = x]
<1>1. /\ loop[l].at = "callout" /\ loop[l] = z /\ z \in Looper
      /\ loop \in [SocketLoops -> Looper]
      /\ net \in Net /\ calls \in Calls /\ UNCHANGED <<manager, calls>>
  BY TypesAre DEF SocketInv, Returned
<1>2. \/ Invalidate(back)
      \/ loop' = back /\ UNCHANGED <<sock, active, source, net>>
  <2> DEFINE ret == [loop EXCEPT ![l].at = "perform", ![l].called = TRUE,
                                 ![l].due = @ \ {First(loop[l].due)}]
  <2>1. ret = back
    BY <1>1 DEF Looper
  <2>2. IF First(loop[l].due) = "data" /\ loop[l].item = End
        THEN Invalidate(ret)
        ELSE loop' = ret /\ UNCHANGED <<sock, active, source, net>>
    BY Zenon DEF Returned
  <2> HIDE DEF ret
  <2> QED
    BY <2>1, <2>2
<1>3. rest \in AnyTypes /\ rest \subseteq z.due
  BY <1>1, LooperFields DEF AnyTypes
<1> HIDE DEF z, rest
<1>4. /\ x \in Looper /\ x.at = "perform" /\ x.due = rest /\ x.item = z.item
      /\ x.again = z.again
  BY <1>1, <1>3 DEF Looper
<1> HIDE DEF x
<1>5. loop' = back /\ UNCHANGED <<sock, active, source, net>> => SocketInv'
  BY <1>1, <1>3, <1>4, PerformingKeeps DEF Performing
<1>6. CASE Invalidate(back) /\ sock.valid
  <2>1. /\ back \in [SocketLoops -> Looper] /\ back[l] = x
        /\ \A m \in SocketLoops \ {l} : back[m] = loop[m]
    BY <1>1, <1>4
  <2>2. \A m \in SocketLoops :
          /\ back[m].due \cap {"data", "accept"} # {} => back[m].item \in Nat
          /\ m \notin sock.kind.loops => back[m].at = "out"
    BY <1>1, <1>3, <1>4, <2>1 DEF SocketInv, Looping
  <2> HIDE DEF back
  <2> QED
    BY <1>1, <1>6, <2>1, <2>2, InvalidateKeeps
<1>7. CASE Invalidate(back) /\ ~sock.valid
  BY <1>5, <1>7 DEF Invalidate
<1> QED
  BY <1>2, <1>5, <1>6, <1>7

\* A performing thread is done, and enables again what signalled.
LEMMA EnableAgainKeeps ==
  ASSUME SocketInv, NEW l \in SocketLoops, EnableAgain(l), NEW x \in Looper,
         loop' = [loop EXCEPT ![l] = x], UNCHANGED <<manager, source, net>>,
         loop[l].at \in {"perform", "enable"}, x.at \in {"run", "wake"},
         loop[l].at = "perform" => ~sock.valid \/ sock.queue = <<>>,
         x.due = {} \/ (x.due = loop[l].due /\ x.item = loop[l].item)
  PROVE  SocketInv'
<1> DEFINE types == loop[l].again \cap Flags
<1>1. /\ sock \in Sock /\ active \in Active /\ calls \in Calls /\ net \in Net
      /\ manager \in Manager /\ source \in Source
      /\ loop \in [SocketLoops -> Looper] /\ l \in sock.kind.loops
  BY TypesAre DEF SocketInv, Looping
<1>2. /\ EnableCallBacks(sock, active, types, FALSE)
      /\ calls' = [calls EXCEPT !.left = calls.left \cup (loop[l].again \ Flags)]
  BY DEF EnableAgain
<1>3. "connect" \notin types /\ loop[l].again \in AnyTypes
  BY <1>1, SockFields, Kinds, LooperFields DEF Flags
<1>4. /\ calls' \in Calls
      /\ calls'.left = calls.left \cup (loop[l].again \ Flags)
  BY <1>1, <1>2, <1>3 DEF Calls, AnyTypes
<1> HIDE DEF types
<1>5. Enabled(sock, active, types, FALSE) /\ SameSocket(sock)
  BY <1>1, <1>2, Enabling DEF Enabled
<1>6. /\ loop' \in [SocketLoops -> Looper] /\ loop'[l] = x
      /\ \A m \in SocketLoops \ {l} : loop'[m] = loop[m]
  BY <1>1
<1>7. \A m \in SocketLoops : Unwoken(m)' => Unwoken(m)
  BY <1>5, <1>6 DEF Unwoken, SameSocket
<1>8. /\ sock' \in Sock /\ active' \in Active
      /\ Owned(sock, active)' /\ Entered(sock, active)'
      /\ Schedules' /\ Managing' /\ Telling' /\ Sleeping'
      /\ sock'.queue = sock.queue /\ sock'.signalled = sock.signalled
      /\ active.fds \subseteq active'.fds /\ (active.wake => active'.wake)
  BY <1>2, <1>3, <1>7, EnablingHolds
<1>9. SocketTypeOK'
  BY <1>1, <1>4, <1>6, <1>8, TypesHold
<1>10. Looping'
  BY <1>1, <1>5, <1>6 DEF SocketInv, Looping, SameSocket
<1>11. Pending'
  BY <1>5, <1>6, <1>8 DEF SocketInv, Pending, SameSocket
<1>12. Covering'
  <2> SUFFICES ASSUME NEW y \in Awaited' PROVE Covered(y)'
    BY DEF Covering
  <2>1. /\ sock'.disabled = sock.disabled
        /\ sock.connected => sock'.connected
    BY <1>5 DEF Enabled, Disabled, Settled
  <2>2. y \in Awaited /\ y \notin calls'.left
    BY <1>4, <1>5, <2>1 DEF Awaited, Types, SameSocket, IsScheduled
  <2>3. Covered(y)
    BY <2>2 DEF SocketInv, Covering
  <2>4. CASE Watched(SetOf(y))
    BY <1>8, <2>4 DEF Covered, Watched
  <2>5. CASE SetOf(y) \in sock.signalled
    BY <1>8, <2>5 DEF Covered
  <2>6. CASE y \in loop[l].again
    <3>1. y \in types
      BY <1>4, <2>2, <2>6 DEF types
    <3>2. /\ Owned(sock, active)
          /\ manager.at = "select" => active.wake \/ active.fds \subseteq manager.watch
      BY DEF SocketInv, Telling
    <3> QED
      BY <1>1, <1>2, <3>1, <3>2, EnabledIsWatched
  <2>7. CASE \E m \in SocketLoops \ {l} : Performing(m) /\ y \in loop[m].again
    BY <1>6, <2>7 DEF Covered, Performing
  <2> QED
    BY <2>3, <2>4, <2>5, <2>6, <2>7 DEF Covered
<1> QED
  BY <1>8, <1>9, <1>10, <1>11, <1>12 DEF SocketInv

LEMMA PerformedFields ==
  ASSUME loop \in [SocketLoops -> Looper], NEW l \in SocketLoops
  PROVE  /\ Performed(l) \in Looper /\ Performed(l).at = "run"
         /\ Performed(l).due = {}
<1>1. NotPerforming \in Looper /\ NotPerforming.due = {}
  BY DEF NotPerforming, Looper, AnyTypes, Item
<1>2. loop[l].woken \in BOOLEAN
  BY LooperFields
<1> HIDE DEF NotPerforming
<1> QED
  BY <1>1, <1>2 DEF Performed, Looper

LEMMA FinishKeeps ==
  ASSUME SocketInv, NEW l \in SocketLoops, Finish(l)
  PROVE  SocketInv'
<1>1. /\ loop[l].at = "perform" /\ UNCHANGED <<manager, net>>
      /\ loop \in [SocketLoops -> Looper] /\ l \in sock.kind.loops
      /\ sock \in Sock /\ source \in Source
  BY TypesAre DEF SocketInv, Looping, Finish
<1>2. CASE sock.valid /\ sock.queue # <<>>
  <2> DEFINE z == loop[l]
             x == [z EXCEPT !.at = "choose", !.runLoops = sock.runLoops]
  <2>1. /\ source' = [source EXCEPT !.signaled = TRUE]
        /\ UNCHANGED <<sock, active, calls>>
    BY <1>2 DEF Finish
  <2>2. loop' = [loop EXCEPT ![l] = x]
    BY <1>1, <1>2 DEF Finish, Looper
  <2>3. z \in Looper /\ loop[l] = z /\ sock.runLoops \in SUBSET SocketLoops
    BY <1>1, SockFields
  <2> HIDE DEF z
  <2>4. /\ x \in Looper /\ x.at = "choose" /\ x.due = z.due /\ x.item = z.item
        /\ x.again = z.again
    BY <2>3 DEF Looper
  <2> HIDE DEF x
  <2>5. /\ loop' \in [SocketLoops -> Looper] /\ loop'[l] = x
        /\ \A m \in SocketLoops \ {l} : loop'[m] = loop[m]
    BY <1>1, <2>2, <2>4
  <2>6. source' \in Source /\ source'.signaled /\ source'.in = source.in
    BY <1>1, <2>1 DEF Source
  <2>7. SocketTypeOK'
    BY <1>1, <2>1, <2>5, <2>6, TypesAre, TypesHold DEF SocketInv
  <2>8. Owned(sock, active)' /\ Entered(sock, active)'
    BY <2>1 DEF SocketInv
  <2>9. Schedules' /\ Managing' /\ Telling' /\ Pending'
    BY <1>1, <2>1, <2>6
       DEF SocketInv, Schedules, Managing, Telling, Pending, ReadType, Types
  <2>10. Looping' /\ Sleeping'
    BY <1>1, <2>1, <2>3, <2>4, <2>5
       DEF SocketInv, Looping, Sleeping, Unwoken
  <2>11. Covering'
    <3> SUFFICES ASSUME NEW y \in Awaited' PROVE Covered(y)'
      BY DEF Covering
    <3>1. Covered(y)
      BY <2>1 DEF SocketInv, Covering, Awaited, Types
    <3>2. \A m \in SocketLoops :
            Performing(m) => Performing(m)' /\ loop[m].again \subseteq loop'[m].again
      BY <2>3, <2>4, <2>5 DEF Performing
    <3> QED
      BY <1>1, <2>1, <3>1, <3>2, CoverStays
  <2> QED
    BY <2>7, <2>8, <2>9, <2>10, <2>11 DEF SocketInv
<1>3. CASE ~(sock.valid /\ sock.queue # <<>>)
  <2>1. /\ EnableAgain(l) /\ loop' = [loop EXCEPT ![l] = Performed(l)]
        /\ UNCHANGED source
    BY <1>3 DEF Finish
  <2> QED
    BY <1>1, <1>3, <2>1, PerformedFields, EnableAgainKeeps
<1> QED
  BY <1>2, <1>3

LEMMA ReenableKeeps ==
  ASSUME SocketInv, NEW l \in SocketLoops, Reenable(l)
  PROVE  SocketInv'
<1> DEFINE z == loop[l]
           x == [z EXCEPT !.at = "wake"]
<1>1. /\ z.at = "enable" /\ EnableAgain(l) /\ UNCHANGED <<manager, source, net>>
      /\ loop' = [loop EXCEPT ![l] = x] /\ z \in Looper /\ loop[l] = z
  BY TypesAre DEF SocketInv, Reenable, Goto
<1> HIDE DEF z
<1>2. /\ x \in Looper /\ x.at = "wake" /\ x.due = z.due /\ x.item = z.item
  BY <1>1 DEF Looper
<1> HIDE DEF x
<1> QED
  BY <1>1, <1>2, EnableAgainKeeps

LEMMA ChooseOtherKeeps ==
  ASSUME SocketInv, NEW l \in SocketLoops, ChooseOther(l)
  PROVE  SocketInv'
<1> DEFINE z == loop[l]
<1>1. /\ z.at = "choose" /\ UNCHANGED <<sock, active, manager, source, net, calls>>
      /\ z \in Looper /\ loop[l] = z /\ net \in Net /\ calls \in Calls
      /\ loop \in [SocketLoops -> Looper]
  BY TypesAre DEF SocketInv, ChooseOther
<1>2. ASSUME NEW ls \in SUBSET SocketLoops,
             loop' = [loop EXCEPT ![l] = [z EXCEPT !.at = "enable",
                                                   !.runLoops = ls]]
      PROVE  SocketInv'
  <2> DEFINE x == [z EXCEPT !.at = "enable", !.runLoops = ls]
  <2> HIDE DEF z
  <2>1. /\ x \in Looper /\ x.at = "enable" /\ x.due = z.due /\ x.item = z.item
        /\ x.again = z.again
    BY <1>1, <1>2 DEF Looper
  <2>2. loop' = [loop EXCEPT ![l] = x]
    BY <1>2
  <2> HIDE DEF x
  <2> QED
    BY <1>1, <2>1, <2>2, PerformingKeeps DEF Performing
<1>3. CASE loop' = Goto(l, "enable")
  <2>1. z.runLoops \in SUBSET SocketLoops
    BY <1>1, LooperFields
  <2>2. [z EXCEPT !.at = "enable"]
          = [z EXCEPT !.at = "enable", !.runLoops = z.runLoops]
    BY <1>1 DEF Looper
  <2>3. loop' = [loop EXCEPT ![l] = [z EXCEPT !.at = "enable"]]
    BY <1>3 DEF Goto
  <2> QED
    BY <1>2, <2>1, <2>2, <2>3
<1>4. ASSUME NEW m \in Choices(loop[l].runLoops),
             loop' = [loop EXCEPT ![l].at = "enable", ![l].runLoops = {m}]
      PROVE  SocketInv'
  <2>1. m \in z.runLoops
    BY DEF Choices
  <2>2. {m} \in SUBSET SocketLoops
    BY <1>1, <2>1, LooperFields
  <2>3. loop' = [loop EXCEPT ![l] = [z EXCEPT !.at = "enable",
                                              !.runLoops = {m}]]
    BY <1>1, <1>4 DEF Looper
  <2> QED
    BY <1>2, <2>2, <2>3
<1> QED
  BY <1>3, <1>4 DEF ChooseOther

LEMMA WakeOtherKeeps ==
  ASSUME SocketInv, NEW l \in SocketLoops, WakeOther(l)
  PROVE  SocketInv'
<1> DEFINE f == [loop EXCEPT ![l] = Performed(l)]
<1>1. /\ loop[l].at = "wake" /\ loop' = WakeUp(f, loop[l].runLoops)
      /\ UNCHANGED <<sock, active, manager, source, net, calls>>
      /\ net \in Net /\ calls \in Calls /\ loop \in [SocketLoops -> Looper]
      /\ l \in sock.kind.loops
  BY TypesAre DEF SocketInv, WakeOther, Looping
<1>2. /\ Performed(l) \in Looper /\ Performed(l).at = "run"
      /\ Performed(l).due = {}
  BY <1>1, PerformedFields
<1>3. /\ f \in [SocketLoops -> Looper] /\ f[l] = Performed(l)
      /\ \A m \in SocketLoops \ {l} : f[m] = loop[m]
  BY <1>1, <1>2
<1> HIDE DEF f
<1>4. /\ loop' \in [SocketLoops -> Looper]
      /\ \A m \in SocketLoops :
           /\ loop'[m].at = f[m].at /\ loop'[m].due = f[m].due
           /\ loop'[m].item = f[m].item /\ loop'[m].again = f[m].again
           /\ f[m].woken => loop'[m].woken
  BY <1>1, <1>3, WakeUpFields
<1>5. \A m \in SocketLoops : Unwoken(m)' => Unwoken(m)
  BY <1>1, <1>2, <1>3, <1>4 DEF Unwoken
<1>6. \A m \in SocketLoops :
        /\ loop'[m].due \cap {"data", "accept"} # {} => loop'[m].item \in Nat
        /\ m \notin sock.kind.loops => loop'[m].at = "out"
  BY <1>1, <1>2, <1>3, <1>4 DEF SocketInv, Looping
<1>7. \A m \in SocketLoops :
        /\ loop[m].at = "entered" => loop'[m].at = "entered"
        /\ loop[m].at \in {"perform", "callout"} =>
             loop'[m].at \in {"perform", "callout"}
        /\ Performing(m) =>
             Performing(m)' /\ loop[m].again \subseteq loop'[m].again
  BY <1>1, <1>2, <1>3, <1>4 DEF Performing
<1> QED
  BY <1>1, <1>4, <1>5, <1>6, <1>7, LoopsMove

LEMMA NetStepKeeps ==
  ASSUME SocketInv, NetStep PROVE SocketInv'
<1>1. /\ net \in Net /\ calls \in Calls
      /\ UNCHANGED <<sock, active, manager, source, loop, calls>>
  BY TypesAre DEF SocketInv, NetStep
<1>2. /\ net.sent + 1 \in Nat /\ Append(net.inbox, net.sent + 1) \in Seq(Nat)
      /\ (~net.room) \in BOOLEAN
  BY <1>1 DEF Net
<1>3. net' \in Net
  BY <1>1, <1>2 DEF NetStep, Net
<1> QED
  BY <1>1, <1>3, NetKeeps

LEMMA ClientInvalidates ==
  ASSUME SocketInv, CFSocketInvalidate PROVE SocketInv'
<1>1. /\ loop \in [SocketLoops -> Looper] /\ sock.valid /\ Invalidate(loop)
      /\ UNCHANGED <<manager, calls>>
  BY TypesAre DEF SocketInv, CFSocketInvalidate
<1>2. \A l \in SocketLoops :
        /\ loop[l].due \cap {"data", "accept"} # {} => loop[l].item \in Nat
        /\ l \notin sock.kind.loops => loop[l].at = "out"
  BY DEF SocketInv, Looping
<1> QED
  BY <1>1, <1>2, InvalidateKeeps

-----------------------------------------------------------------------------
(* The theorems.                                                           *)

LEMMA SocketInitInv ==
  SocketInit => SocketInv
<1> SUFFICES ASSUME SocketInit PROVE SocketInv
  OBVIOUS
<1>1. PICK k \in SocketKinds :
        /\ sock = [kind |-> k, valid |-> TRUE, connected |-> FALSE,
                   error |-> FALSE, disabled |-> {}, signalled |-> {},
                   setCount |-> 0, runLoops |-> {}, queue |-> <<>>]
        /\ active = [fds |-> {}, arrays |-> {}, wake |-> FALSE]
        /\ manager = [at |-> "copy", watch |-> {}, found |-> {}, error |-> FALSE,
                      item |-> NoItem, runLoops |-> {}]
        /\ source = [signaled |-> FALSE, in |-> {}]
        /\ loop = [l \in SocketLoops |-> NotPerforming]
        /\ net = [inbox |-> <<>>, sent |-> 0, ended |-> FALSE, room |-> TRUE,
                  link |-> IF "connect" \in k.types THEN "trying" ELSE "up"]
        /\ calls = [given |-> <<>>, connects |-> 0, left |-> {}]
  BY DEF SocketInit
<1> DEFINE link == IF "connect" \in k.types THEN "trying" ELSE "up"
           none == <<>>
<1>2. none \in Seq(Nat) /\ link \in {"trying", "up"}
  OBVIOUS
<1>3. net = [inbox |-> none, sent |-> 0, ended |-> FALSE, room |-> TRUE,
             link |-> link]
      /\ calls = [given |-> none, connects |-> 0, left |-> {}]
      /\ sock = [kind |-> k, valid |-> TRUE, connected |-> FALSE,
                 error |-> FALSE, disabled |-> {}, signalled |-> {},
                 setCount |-> 0, runLoops |-> {}, queue |-> none]
  BY <1>1
<1>4. /\ sock.valid /\ sock.disabled = {} /\ sock.signalled = {}
      /\ sock.setCount = 0 /\ sock.runLoops = {} /\ sock.queue = <<>>
  BY <1>1
<1> HIDE DEF link, none
<1>5. /\ sock \in Sock /\ active \in Active /\ manager \in Manager
      /\ source \in Source /\ net \in Net /\ calls \in Calls
  BY <1>1, <1>2, <1>3
     DEF Sock, Active, Manager, Source, Net, Calls, AnyTypes, Item
<1>6. NotPerforming \in Looper /\ NotPerforming.due = {}
      /\ NotPerforming.at = "out"
  BY DEF NotPerforming, Looper, AnyTypes, Item
<1>7. /\ loop \in [SocketLoops -> Looper]
      /\ \A l \in SocketLoops : loop[l].due = {} /\ loop[l].at = "out"
  BY <1>1, <1>6
<1>8. SocketTypeOK
  BY <1>5, <1>7, TypesAre
<1>9. Owned(sock, active) /\ Entered(sock, active)
  BY <1>1, <1>4 DEF Owned, Entered, IsScheduled
<1>10. Schedules
  BY <1>1, <1>4, FS_EmptySet DEF Schedules
<1>11. Managing /\ Telling /\ Pending
  BY <1>1, <1>4 DEF Managing, Telling, Pending
<1>12. Looping /\ Sleeping
  BY <1>7 DEF Looping, Sleeping, Unwoken
<1>13. Covering
  BY <1>4 DEF Covering, Awaited, IsScheduled
<1> QED
  BY <1>8, <1>9, <1>10, <1>11, <1>12, <1>13 DEF SocketInv

LEMMA Stuttering ==
  ASSUME SocketInv, UNCHANGED socketVars PROVE SocketInv'
<1>1. net \in Net /\ calls \in Calls
  BY TypesAre DEF SocketInv
<1> QED
  BY <1>1, NetKeeps DEF socketVars

LEMMA SocketStep ==
  SocketInv /\ [SocketNext]_socketVars => SocketInv'
<1> SUFFICES ASSUME SocketInv, [SocketNext]_socketVars PROVE SocketInv'
  OBVIOUS
<1>1. CASE ClientStep
  BY <1>1, EnableCallBacksKeeps, DisableCallBacksKeeps, ClientInvalidates,
     ScheduleKeeps, CancelKeeps DEF ClientStep
<1>2. CASE ManagerStep
  BY <1>2, CopyFdsKeeps, SelectKeeps, CollectKeeps, GetErrorKeeps,
     HandleWriteKeeps, ReceiveKeeps, HandleReadKeeps, ChooseLoopKeeps,
     WakeLoopKeeps DEF ManagerStep
<1>3. CASE NetStep
  BY <1>3, NetStepKeeps
<1>4. ASSUME NEW l \in SocketLoops, LoopStep(l) PROVE SocketInv'
  BY <1>4, RunLoopStepKeeps, TakeSignalsKeeps, CallOutKeeps, ReadItemKeeps,
     ReturnedKeeps, FinishKeeps, ChooseOtherKeeps, ReenableKeeps,
     WakeOtherKeeps DEF LoopStep
<1>5. CASE UNCHANGED socketVars
  BY <1>5, Stuttering
<1> QED
  BY <1>1, <1>2, <1>3, <1>4, <1>5 DEF SocketNext

LEMMA SocketAlways == SocketSpec => []SocketInv
BY SocketInitInv, SocketStep, PTL DEF SocketSpec

LEMMA InvGivesOwned == SocketInv => FdsAreOwned
<1> SUFFICES ASSUME SocketInv PROVE BitsAreOwned
  BY DEF SocketInv, FdsAreOwned
<1>1. sock \in Sock /\ Owned(sock, active)
  BY TypesAre DEF SocketInv
<1>2. \A x \in Types : x \in ReadTypes => Types \cap ReadTypes = {x}
  BY <1>1, SockFields, Kinds DEF Types
<1> QED
  BY <1>1, <1>2 DEF Owned, BitsAreOwned, Reads, ReadType, Types

LEMMA InvGivesNothingForgotten == SocketInv => NothingForgotten
BY DEF SocketInv, Covering, Covered, Pending, Sleeping, Unwoken,
       NothingForgotten

\* Whoever changes the fd sets - __CFSocketEnableCallBacks,
\* CFSocketDisableCallBacks, __CFSocketManager, CFSocketInvalidate or
\* __CFSocketCancel - the manager listens only for a socket that is valid,
\* scheduled and in its arrays, and not for data that is disabled.
THEOREM FdsAreAlwaysOwned == SocketSpec => []FdsAreOwned
BY SocketAlways, InvGivesOwned, PTL

\* A type that a client relies on is watched for by __CFSocketManager, or
\* signalled, or will be enabled again by the thread in __CFSocketPerformV0;
\* what is signalled or queued has its source signaled or a thread about to
\* look; and the only loop of a socket is not left asleep by its source.
THEOREM NothingIsForgotten == SocketSpec => []NothingForgotten
BY SocketAlways, InvGivesNothingForgotten, PTL

-----------------------------------------------------------------------------
(* What is given.  The items of a socket that one loop uses are, from the    *)
(* first that was given to the last that is not received yet, the numbers of *)
(* what was sent and then its ends.                                          *)

Numbered(s, n) == \A i \in 1..Len(s) : s[i] = IF i <= n THEN i ELSE End

Held == IF manager.item = NoItem THEN <<>> ELSE <<manager.item>>
Rest == IF sock.valid THEN sock.queue \o Held \o net.inbox ELSE <<>>

\* What was given, or will be given even if the socket is invalidated, and the
\* rest.
Kept(l) == calls.given \o InHand(l) \o Rest

Keeping(l) ==
  /\ Numbered(Kept(l), net.sent)
  /\ sock.valid => net.sent <= Len(Kept(l))
  /\ sock.valid /\ (net.ended => ReadType # {"data"}) => Len(Kept(l)) <= net.sent

\* After the end nothing is given: its callback invalidates the socket.
Ending(l) ==
  \A i \in 1..Len(calls.given) : calls.given[i] = End =>
    /\ i = Len(calls.given) /\ InHand(l) = <<>>
    /\ sock.valid => /\ loop[l].at = "callout" /\ loop[l].item = End
                     /\ First(loop[l].due) = "data"

\* Items are received for callbacks that give them.
Receiving ==
  /\ sock.queue # <<>> => ReadType \in {{"data"}, {"accept"}}
  /\ manager.item # NoItem => /\ manager.at = "read"
                              /\ ReadType \in {{"data"}, {"accept"}}
  /\ ~sock.valid => net.inbox = <<>> /\ sock.queue = <<>>
  /\ \A l \in SocketLoops : loop[l].due \subseteq Types

\* The end of the connecting is yet to be told, by a thread that has taken it.
ToConnect(l) == loop[l].at = "perform" /\ "connect" \in loop[l].due
Connecting ==
  /\ calls.connects <= 1 /\ (calls.connects = 1 => sock.connected)
  /\ \A l \in SocketLoops : ToConnect(l) =>
       /\ calls.connects = 0 /\ sock.connected
       /\ \A m \in SocketLoops : ToConnect(m) => m = l

OrderInv ==
  /\ SocketInv /\ Receiving /\ Connecting
  /\ \A l \in SocketLoops : sock.kind.loops = {l} => Keeping(l) /\ Ending(l)

-----------------------------------------------------------------------------
(* Sequences.                                                              *)

LEMMA NumberedPrefix ==
  ASSUME NEW s \in Seq(Nat), NEW t \in Seq(Nat), NEW n \in Nat,
         Numbered(s \o t, n)
  PROVE  Numbered(s, n)
<1>1. /\ Len(s) \in Nat /\ Len(t) \in Nat /\ Len(s \o t) = Len(s) + Len(t)
      /\ \A i \in 1..(Len(s) + Len(t)) :
           (s \o t)[i] = IF i <= Len(s) THEN s[i] ELSE t[i - Len(s)]
  BY ConcatProperties, LenProperties
<1> SUFFICES ASSUME NEW i \in 1..Len(s)
             PROVE  s[i] = IF i <= n THEN i ELSE End
  BY DEF Numbered
<1>2. i \in 1..(Len(s) + Len(t)) /\ i <= Len(s)
  BY <1>1
<1> QED
  BY <1>1, <1>2 DEF Numbered

LEMMA SentIsNoEnd ==
  ASSUME NEW s \in Seq(Nat), NEW t \in Seq(Nat), NEW n \in Nat,
         Numbered(s \o t, n), Len(s \o t) <= n
  PROVE  \A i \in 1..Len(s) : s[i] # End
<1>1. Numbered(s, n)
  BY NumberedPrefix
<1>2. Len(s) <= n /\ Len(s) \in Nat
  BY ConcatProperties, LenProperties
<1> QED
  BY <1>1, <1>2 DEF Numbered, End

LEMMA NumberedAppend ==
  ASSUME NEW s \in Seq(Nat), NEW n \in Nat, NEW m \in Nat, NEW x \in Nat,
         Numbered(s, n), m = n \/ (m = n + 1 /\ Len(s) = n),
         x = IF Len(s) + 1 <= m THEN Len(s) + 1 ELSE End
  PROVE  Numbered(Append(s, x), m)
<1> DEFINE a == Append(s, x)
<1>1. /\ Len(s) \in Nat /\ Len(a) = Len(s) + 1 /\ a[Len(s) + 1] = x
      /\ \A i \in 1..Len(s) : a[i] = s[i]
  BY AppendProperties, LenProperties
<1> HIDE DEF a
<1> SUFFICES ASSUME NEW i \in 1..Len(a)
             PROVE  a[i] = IF i <= m THEN i ELSE End
  BY DEF Numbered, a
<1>2. CASE i = Len(s) + 1
  BY <1>1, <1>2
<1>3. CASE i # Len(s) + 1
  <2>1. i \in 1..Len(s)
    BY <1>1, <1>3
  <2> QED
    BY <1>1, <2>1 DEF Numbered
<1> QED
  BY <1>2, <1>3

LEMMA Concatenates ==
  \A s, t \in Seq(Nat) : s \o t \in Seq(Nat)
BY ConcatProperties

LEMMA Associates ==
  \A s, t, u \in Seq(Nat) : (s \o t) \o u = s \o (t \o u)
BY ConcatAssociative

LEMMA HeadAndTail ==
  ASSUME NEW s \in Seq(Nat), s # <<>>
  PROVE  /\ Head(s) \in Nat /\ Tail(s) \in Seq(Nat) /\ <<Head(s)>> \in Seq(Nat)
         /\ s = <<Head(s)>> \o Tail(s)
<1> DEFINE h == <<Head(s)>>
           r == h \o Tail(s)
<1>1. /\ Head(s) \in Nat /\ Tail(s) \in Seq(Nat) /\ Len(Tail(s)) = Len(s) - 1
      /\ \A i \in 1..Len(Tail(s)) : Tail(s)[i] = s[i + 1]
      /\ Len(s) \in Nat \ {0} /\ Head(s) = s[1]
  BY HeadTailProperties, EmptySeq
<1>2. h \in Seq(Nat) /\ Len(h) = 1 /\ h[1] = s[1]
  BY <1>1
<1> HIDE DEF h
<1>3. /\ r \in Seq(Nat) /\ Len(r) = Len(h) + Len(Tail(s))
      /\ \A i \in 1..(Len(h) + Len(Tail(s))) :
           r[i] = IF i <= Len(h) THEN h[i] ELSE Tail(s)[i - Len(h)]
  <2> DEFINE t == Tail(s)
  <2>1. t \in Seq(Nat)
    BY <1>1
  <2> HIDE DEF t
  <2>2. h \o t \in Seq(Nat) /\ Len(h \o t) = Len(h) + Len(t)
        /\ \A i \in 1..(Len(h) + Len(t)) :
             (h \o t)[i] = IF i <= Len(h) THEN h[i] ELSE t[i - Len(h)]
    BY <1>2, <2>1, ConcatProperties
  <2> QED
    BY <2>2 DEF t
<1> HIDE DEF r
<1>4. Len(r) = Len(s)
  BY <1>1, <1>2, <1>3
<1>5. ASSUME NEW i \in 1..Len(s) PROVE r[i] = s[i]
  <2>1. i \in 1..(Len(h) + Len(Tail(s)))
    BY <1>1, <1>2
  <2>2. CASE i = 1
    BY <1>2, <1>3, <2>1, <2>2
  <2>3. CASE i # 1
    <3>1. i - 1 \in 1..Len(Tail(s)) /\ (i - 1) + 1 = i /\ ~(i <= 1)
      BY <1>1, <2>3
    <3> QED
      BY <1>1, <1>2, <1>3, <2>1, <3>1
  <2> QED
    BY <2>2, <2>3
<1>6. r = s
  BY <1>3, <1>4, <1>5, SeqEqual
<1> QED
  BY <1>1, <1>2, <1>6 DEF h, r

\* An item moves on: from what is received to what is held, from that to the
\* queue, from the queue to a thread, and from there, or at once, to the client.
LEMMA ItemHeld ==
  ASSUME NEW q \in Seq(Nat), NEW x \in Seq(Nat), x # <<>>
  PROVE  q \o <<Head(x)>> \o Tail(x) = q \o <<>> \o x
<1> DEFINE h == <<Head(x)>>
           t == Tail(x)
<1>1. h \in Seq(Nat) /\ t \in Seq(Nat) /\ x = h \o t
  BY HeadAndTail
<1> HIDE DEF h, t
<1>2. (q \o h) \o t = q \o (h \o t)
  BY <1>1, Associates, Zenon
<1>3. q \o <<>> = q
  BY ConcatEmptySeq
<1> QED
  BY <1>1, <1>2, <1>3 DEF h, t

LEMMA ItemQueued ==
  ASSUME NEW q \in Seq(Nat), NEW i \in Nat, NEW x \in Seq(Nat)
  PROVE  Append(q, i) \o <<>> \o x = q \o <<i>> \o x
<1>1. Append(q, i) = q \o <<i>> /\ Append(q, i) \in Seq(Nat)
  BY AppendIsConcat, AppendProperties
<1>2. Append(q, i) \o <<>> = Append(q, i)
  BY <1>1, ConcatEmptySeq
<1> QED
  BY <1>1, <1>2

\* Concatenation, for the steps that only regroup.
Cat(s, t) == s \o t

LEMMA CatAssociates ==
  ASSUME NEW s \in Seq(Nat), NEW t \in Seq(Nat), NEW u \in Seq(Nat)
  PROVE  Cat(Cat(s, t), u) = Cat(s, Cat(t, u)) /\ Cat(s, t) \in Seq(Nat)
BY Associates, Concatenates DEF Cat

LEMMA CatHead ==
  ASSUME NEW s \in Seq(Nat), s # <<>>
  PROVE  /\ <<Head(s)>> \in Seq(Nat) /\ Tail(s) \in Seq(Nat)
         /\ s = Cat(<<Head(s)>>, Tail(s))
BY HeadAndTail DEF Cat

LEMMA CatEmpty == ASSUME NEW s \in Seq(Nat) PROVE Cat(s, <<>>) = s
BY ConcatEmptySeq DEF Cat

LEMMA ItemTaken ==
  ASSUME NEW g \in Seq(Nat), NEW q \in Seq(Nat), NEW m \in Seq(Nat),
         NEW x \in Seq(Nat), q # <<>>
  PROVE  Cat(Cat(g, <<Head(q)>>), Cat(Cat(Tail(q), m), x))
           = Cat(Cat(g, <<>>), Cat(Cat(q, m), x))
<1>1. PICK h \in Seq(Nat), t \in Seq(Nat) :
        h = <<Head(q)>> /\ t = Tail(q) /\ q = Cat(h, t)
  BY CatHead
<1>2. Cat(t, m) \in Seq(Nat) /\ Cat(Cat(t, m), x) \in Seq(Nat)
  BY CatAssociates
<1>3. Cat(Cat(h, t), m) = Cat(h, Cat(t, m))
  BY CatAssociates
<1>4. Cat(Cat(h, Cat(t, m)), x) = Cat(h, Cat(Cat(t, m), x))
  BY <1>2, CatAssociates
<1>5. Cat(Cat(g, h), Cat(Cat(t, m), x)) = Cat(g, Cat(h, Cat(Cat(t, m), x)))
  BY <1>2, CatAssociates
<1>6. Cat(g, <<>>) = g
  BY CatEmpty
<1> QED
  BY <1>1, <1>3, <1>4, <1>5, <1>6

LEMMA ItemGiven ==
  ASSUME NEW g \in Seq(Nat), NEW i \in Nat, NEW r \in Seq(Nat)
  PROVE  Append(g, i) \o <<>> \o r = g \o <<i>> \o r
<1>1. Append(g, i) = g \o <<i>> /\ Append(g, i) \in Seq(Nat)
  BY AppendIsConcat, AppendProperties
<1>2. Append(g, i) \o <<>> = Append(g, i)
  BY <1>1, ConcatEmptySeq
<1> QED
  BY <1>1, <1>2

LEMMA ItemRead ==
  ASSUME NEW g \in Seq(Nat), NEW x \in Seq(Nat), x # <<>>
  PROVE  Append(g, Head(x)) \o <<>> \o (<<>> \o <<>> \o Tail(x))
           = g \o <<>> \o (<<>> \o <<>> \o x)
<1> DEFINE h == <<Head(x)>>
           t == Tail(x)
           e == <<>>
<1>1. h \in Seq(Nat) /\ t \in Seq(Nat) /\ x = h \o t /\ Head(x) \in Nat
  BY HeadAndTail
<1>2. Append(g, Head(x)) = g \o h /\ Append(g, Head(x)) \in Seq(Nat)
  BY <1>1, AppendIsConcat, AppendProperties
<1>3. e \in Seq(Nat) /\ e \o e = e
  BY ConcatEmptySeq
<1>4. /\ Append(g, Head(x)) \o e = Append(g, Head(x)) /\ g \o e = g
      /\ e \o t = t /\ e \o x = x
  BY <1>1, <1>2, ConcatEmptySeq
<1>5. g \o h \o t = g \o (h \o t)
  BY <1>1, ConcatAssociative
<1> QED
  BY <1>1, <1>2, <1>3, <1>4, <1>5

\* Something is added at the end.
LEMMA ItemSent ==
  ASSUME NEW g \in Seq(Nat), NEW q \in Seq(Nat), NEW x \in Seq(Nat), NEW i \in Nat
  PROVE  g \o (q \o Append(x, i)) = Append(g \o (q \o x), i)
<1> DEFINE e == <<i>>
           u == q \o x
           v == g \o u
<1>1. e \in Seq(Nat) /\ Append(x, i) = x \o e
  BY AppendIsConcat
<1> HIDE DEF e
<1>2. u \in Seq(Nat)
  BY Concatenates
<1>3. (q \o x) \o e = q \o (x \o e)
  BY <1>1, Associates, Zenon
<1>4. u \o e = q \o (x \o e)
  BY <1>3
<1> HIDE DEF u
<1>5. v \in Seq(Nat)
  BY <1>2, Concatenates
<1>6. (g \o u) \o e = g \o (u \o e)
  BY <1>1, <1>2, Associates, Zenon
<1>7. v \o e = g \o (u \o e)
  BY <1>6
<1> HIDE DEF v
<1>8. Append(v, i) = v \o e
  BY <1>5, AppendIsConcat DEF e
<1> QED
  BY <1>1, <1>4, <1>7, <1>8 DEF u, v

-----------------------------------------------------------------------------
(* What keeps the order.                                                    *)

LEMMA PartsAreSeqs ==
  ASSUME SocketTypeOK, Looping
  PROVE  /\ calls.given \in Seq(Nat) /\ sock.queue \in Seq(Nat)
         /\ net.inbox \in Seq(Nat) /\ net.sent \in Nat /\ Held \in Seq(Nat)
         /\ Rest \in Seq(Nat)
         /\ \A l \in SocketLoops :
              /\ InHand(l) \in Seq(Nat) /\ Kept(l) \in Seq(Nat)
              /\ calls.given \o InHand(l) \in Seq(Nat)
<1> DEFINE none == <<>>
<1>1. none \in Seq(Nat)
  OBVIOUS
<1>2. /\ calls.given \in Seq(Nat) /\ sock.queue \in Seq(Nat)
      /\ net.inbox \in Seq(Nat) /\ net.sent \in Nat
      /\ manager.item # NoItem => manager.item \in Nat
  BY TypesAre, SockFields, ManagerFields DEF Calls, Net, Item
<1>3. Held \in Seq(Nat)
  BY <1>2 DEF Held
<1>4. \A l \in SocketLoops : InHand(l) \in Seq(Nat)
  BY <1>1 DEF Looping, InHand
<1>5. sock.queue \o Held \in Seq(Nat)
  BY <1>2, <1>3, Concatenates
<1>6. sock.queue \o Held \o net.inbox \in Seq(Nat)
  BY <1>2, <1>5, Concatenates
<1>7. Rest \in Seq(Nat)
  BY <1>1, <1>6 DEF Rest
<1>8. \A l \in SocketLoops : calls.given \o InHand(l) \in Seq(Nat)
  BY <1>2, <1>4, Concatenates
<1>9. \A l \in SocketLoops : Kept(l) \in Seq(Nat)
  BY <1>7, <1>8, Concatenates DEF Kept
<1> QED
  BY <1>2, <1>3, <1>4, <1>7, <1>8, <1>9

\* A loop's thread that takes nothing and gives nothing.
Quiet(l) ==
  \/ /\ loop'[l].at = loop[l].at /\ loop'[l].due = loop[l].due
     /\ loop'[l].item = loop[l].item
  \/ /\ loop[l].at \in {"perform", "callout"} =>
          loop[l].at = "perform" /\ loop[l].due = {}
     /\ loop'[l].at \notin {"perform", "callout"}
     /\ loop'[l].due \subseteq loop[l].due

LEMMA QuietKeeps ==
  ASSUME NEW l, Quiet(l)
  PROVE  /\ InHand(l)' = InHand(l) /\ (ToConnect(l)' => ToConnect(l))
         /\ loop[l].at = "callout" =>
              /\ loop'[l].at = "callout" /\ loop'[l].due = loop[l].due
              /\ loop'[l].item = loop[l].item
         /\ loop'[l].due \subseteq loop[l].due
<1>1. CASE /\ loop'[l].at = loop[l].at /\ loop'[l].due = loop[l].due
           /\ loop'[l].item = loop[l].item
  BY <1>1 DEF InHand, ToConnect
<1>2. CASE /\ loop[l].at \in {"perform", "callout"} =>
                loop[l].at = "perform" /\ loop[l].due = {}
           /\ loop'[l].at \notin {"perform", "callout"}
           /\ loop'[l].due \subseteq loop[l].due
  <2>1. InHand(l)' = <<>> /\ ~ToConnect(l)' /\ loop[l].at # "callout"
    BY <1>2 DEF InHand, ToConnect
  <2>2. InHand(l) = <<>>
    BY <1>2 DEF InHand
  <2> QED
    BY <1>2, <2>1, <2>2
<1> QED
  BY <1>1, <1>2 DEF Quiet

\* A step that leaves every item where it is.
LEMMA OrderStays ==
  ASSUME OrderInv, SocketInv',
         sock'.kind = sock.kind, sock'.valid = sock.valid,
         sock'.queue = sock.queue, sock.connected => sock'.connected,
         UNCHANGED <<net.inbox, net.sent, calls.given, calls.connects>>,
         net.ended => net'.ended,
         manager'.item # NoItem =>
           manager'.at = "read" /\ manager'.item = manager.item,
         sock.valid => manager'.item = manager.item,
         \A l \in SocketLoops : Quiet(l)
  PROVE  OrderInv'
<1>1. Receiving'
  <2>1. \A l \in SocketLoops : loop'[l].due \subseteq loop[l].due
    BY QuietKeeps
  <2> QED
    BY <2>1 DEF OrderInv, Receiving, ReadType, Types
<1>2. Connecting'
  <2>1. \A l \in SocketLoops : ToConnect(l)' => ToConnect(l)
    BY QuietKeeps
  <2> QED
    BY <2>1 DEF OrderInv, Connecting
<1>3. ASSUME NEW l \in SocketLoops, sock.kind.loops = {l}
      PROVE  Keeping(l)' /\ Ending(l)'
  <2>1. /\ InHand(l)' = InHand(l)
        /\ loop[l].at = "callout" =>
             /\ loop'[l].at = "callout" /\ loop'[l].due = loop[l].due
             /\ loop'[l].item = loop[l].item
    BY QuietKeeps
  <2>2. Rest' = Rest
    BY DEF Rest, Held
  <2>3. Kept(l)' = Kept(l)
    BY <2>1, <2>2 DEF Kept
  <2>4. Keeping(l)'
    BY <1>3, <2>3 DEF OrderInv, Keeping, Numbered, ReadType, Types
  <2>5. Ending(l)'
    BY <1>3, <2>1 DEF OrderInv, Ending
  <2> QED
    BY <2>4, <2>5
<1> QED
  BY <1>1, <1>2, <1>3 DEF OrderInv

\* The same, if the loops stay where they are.
LEMMA OrderStaysHere ==
  ASSUME OrderInv, SocketInv', UNCHANGED <<loop, net, calls.given, calls.connects>>,
         sock'.kind = sock.kind, sock'.valid = sock.valid,
         sock'.queue = sock.queue, sock.connected => sock'.connected,
         manager'.item # NoItem =>
           manager'.at = "read" /\ manager'.item = manager.item,
         sock.valid => manager'.item = manager.item
  PROVE  OrderInv'
<1>1. \A l \in SocketLoops : Quiet(l)
  BY DEF Quiet
<1> QED
  BY <1>1, OrderStays

\* The manager holds nothing of what is left by a socket that is invalidated.
LEMMA HandledHolds ==
  ASSUME manager \in Manager, manager' = Handled
  PROVE  manager'.item = NoItem
<1>1. NoItem \in Item /\ FALSE \in BOOLEAN
  BY DEF Item
<1> QED
  BY <1>1 DEF Handled, Onward, Manager

-----------------------------------------------------------------------------
(* Clients.                                                                 *)

LEMMA EnabledOrder ==
  ASSUME NEW s \in Sock, NEW a \in Active, NEW types, NEW force \in BOOLEAN,
         EnableCallBacks(s, a, types, force)
  PROVE  /\ sock'.kind = s.kind /\ sock'.valid = s.valid
         /\ sock'.queue = s.queue /\ (s.connected => sock'.connected)
<1>1. Enabled(s, a, types, force)
  BY Enabling
<1> QED
  BY <1>1 DEF Enabled, SameSocket, Settled

LEMMA HoldsWhileReading ==
  ASSUME Receiving
  PROVE  manager.item # NoItem => manager.at = "read"
BY DEF Receiving

LEMMA EnableCallBacksOrders ==
  ASSUME OrderInv, SocketInv', NEW types, CFSocketEnableCallBacks(types)
  PROVE  OrderInv'
<1>1. /\ sock \in Sock /\ active \in Active /\ calls \in Calls
      /\ EnableCallBacks(sock, active, types, TRUE)
      /\ UNCHANGED <<manager, source, loop, net>>
      /\ calls' = IF IsScheduled(sock) THEN [calls EXCEPT !.left = @ \ types]
                                       ELSE calls
  BY TypesAre DEF OrderInv, SocketInv, CFSocketEnableCallBacks
<1>2. TRUE \in BOOLEAN
  OBVIOUS
<1>3. /\ sock'.kind = sock.kind /\ sock'.valid = sock.valid
      /\ sock'.queue = sock.queue /\ (sock.connected => sock'.connected)
  BY <1>1, <1>2, EnabledOrder
<1>4. UNCHANGED <<calls.given, calls.connects>>
  BY <1>1 DEF Calls
<1> QED
  BY <1>1, <1>3, <1>4, HoldsWhileReading, OrderStaysHere DEF OrderInv

LEMMA DisableCallBacksOrders ==
  ASSUME OrderInv, SocketInv', NEW types, CFSocketDisableCallBacks(types)
  PROVE  OrderInv'
<1>1. /\ sock \in Sock
      /\ sock' = [sock EXCEPT !.disabled = sock.disabled \cup types,
                              !.connected = Settled(sock)]
      /\ UNCHANGED <<manager, source, loop, net, calls>>
  BY TypesAre DEF OrderInv, SocketInv, CFSocketDisableCallBacks
<1> DEFINE c == Settled(sock)
<1>2. sock.connected => c
  BY DEF Settled
<1> HIDE DEF c
<1>3. /\ sock'.kind = sock.kind /\ sock'.valid = sock.valid
      /\ sock'.queue = sock.queue /\ (sock.connected => sock'.connected)
  BY <1>1, <1>2 DEF Sock, c
<1> QED
  BY <1>1, <1>3, HoldsWhileReading, OrderStaysHere DEF OrderInv

LEMMA ScheduleOrders ==
  ASSUME OrderInv, SocketInv', NEW l \in SocketLoops, Schedule(l)
  PROVE  OrderInv'
<1> DEFINE s == [sock EXCEPT !.runLoops = sock.runLoops \cup {l},
                             !.setCount = sock.setCount + 1]
<1>1. /\ sock \in Sock /\ active \in Active /\ calls \in Calls
      /\ UNCHANGED <<manager, loop, net>>
      /\ \/ /\ EnableCallBacks(s, active, Types, TRUE)
            /\ calls' = [calls EXCEPT !.left = {}]
         \/ sock' = s /\ UNCHANGED calls
  BY TypesAre DEF OrderInv, SocketInv, Schedule
<1>2. sock.setCount + 1 \in Nat /\ sock.runLoops \cup {l} \in SUBSET SocketLoops
  BY <1>1, SockFields
<1>6. /\ s \in Sock /\ s.kind = sock.kind /\ s.valid = sock.valid
      /\ s.queue = sock.queue /\ s.connected = sock.connected
  BY <1>1, <1>2 DEF Sock
<1> HIDE DEF s
<1>3. TRUE \in BOOLEAN
  OBVIOUS
<1>4. /\ sock'.kind = sock.kind /\ sock'.valid = sock.valid
      /\ sock'.queue = sock.queue /\ (sock.connected => sock'.connected)
  BY <1>1, <1>3, <1>6, EnabledOrder
<1>5. UNCHANGED <<calls.given, calls.connects>>
  BY <1>1 DEF Calls
<1> QED
  BY <1>1, <1>4, <1>5, HoldsWhileReading, OrderStaysHere DEF OrderInv

LEMMA CancelOrders ==
  ASSUME OrderInv, SocketInv', NEW l \in SocketLoops, Cancel(l)
  PROVE  OrderInv'
<1>1. /\ sock \in Sock /\ UNCHANGED <<manager, loop, net, calls>>
      /\ sock' = [sock EXCEPT !.runLoops = @ \ {l}, !.setCount = @ - 1]
  BY TypesAre DEF OrderInv, SocketInv, Cancel
<1>2. /\ sock'.kind = sock.kind /\ sock'.valid = sock.valid
      /\ sock'.queue = sock.queue /\ sock'.connected = sock.connected
  BY <1>1 DEF Sock
<1> QED
  BY <1>1, <1>2, HoldsWhileReading, OrderStaysHere DEF OrderInv

\* A socket reads in one way.
LEMMA TypesOfOne ==
  ASSUME sock \in Sock, NEW due, due \subseteq Types, "connect" \notin due
  PROVE  /\ First(due) \in ReadTypes =>
              First(due) \in due /\ ReadType = {First(due)}
         /\ First(due) # "connect"
         /\ \A x \in due \cap ReadTypes : First(due) = x
<1>1. \A x \in ReadType : ReadType = {x}
  BY SockFields, Kinds DEF ReadType, Types
<1>2. CASE due \cap ReadTypes = {}
  BY <1>2 DEF First, ReadTypes
<1>3. CASE due \cap ReadTypes # {}
  <2>1. \E x \in due : x \in ReadTypes
    BY <1>3
  <2>2. First(due) \in due /\ First(due) \in ReadTypes
    BY <1>3, <2>1 DEF First
  <2> QED
    BY <1>1, <2>2 DEF ReadType, ReadTypes
<1> QED
  BY <1>2, <1>3

\* What is left is dropped; a thread that has an item may still give it.
LEMMA InvalidateOrders ==
  ASSUME OrderInv, SocketInv', NEW f \in [SocketLoops -> Looper],
         Invalidate(f), sock.valid, UNCHANGED <<manager, calls>>,
         \A l \in SocketLoops :
           \/ /\ f[l].at = loop[l].at /\ f[l].due = loop[l].due
              /\ f[l].item = loop[l].item
           \/ /\ loop[l].at = "callout" /\ f[l].at = "perform"
              /\ First(loop[l].due) = "data"
              /\ f[l].due = loop[l].due \ {"data"}
  PROVE  OrderInv'
<1> DEFINE none == <<>>
<1>1. none = <<>> /\ none \in Seq(Nat)
  OBVIOUS
<1>2. /\ sock' = [sock EXCEPT !.valid = FALSE, !.signalled = {}, !.queue = none,
                              !.runLoops = {}, !.setCount = 0]
      /\ loop' = WakeUp(f, sock.runLoops)
      /\ net' = [net EXCEPT !.inbox = none]
  BY DEF Invalidate
<1> HIDE DEF none
<1>3. sock \in Sock /\ net \in Net
  BY TypesAre DEF OrderInv, SocketInv
<1>4. /\ sock'.kind = sock.kind /\ ~sock'.valid /\ sock'.queue = <<>>
      /\ sock'.connected = sock.connected
  BY <1>1, <1>2, <1>3 DEF Sock
<1>5. net'.inbox = <<>> /\ net'.sent = net.sent /\ net'.ended = net.ended
  BY <1>1, <1>2, <1>3 DEF Net
<1>6. \A l \in SocketLoops :
        /\ loop'[l].at = f[l].at /\ loop'[l].due = f[l].due
        /\ loop'[l].item = f[l].item
  BY <1>2, WakeUpFields
<1>7. \A l \in SocketLoops :
        InHand(l)' = InHand(l) /\ (ToConnect(l)' => ToConnect(l))
  <2> SUFFICES ASSUME NEW l \in SocketLoops
               PROVE  InHand(l)' = InHand(l) /\ (ToConnect(l)' => ToConnect(l))
    OBVIOUS
  <2>1. CASE /\ f[l].at = loop[l].at /\ f[l].due = loop[l].due
             /\ f[l].item = loop[l].item
    BY <1>6, <2>1 DEF InHand, ToConnect
  <2>2. CASE /\ loop[l].at = "callout" /\ f[l].at = "perform"
             /\ First(loop[l].due) = "data" /\ f[l].due = loop[l].due \ {"data"}
    <3>1. "connect" \notin loop[l].due
      BY <2>2 DEF First
    <3>2. InHand(l) = <<>>
      BY <2>2 DEF InHand
    <3>3. "accept" \notin loop[l].due
      <4>1. /\ ReadType \subseteq {"data"}
            /\ loop[l].due \subseteq Types
        BY <1>3, <2>2, <3>1, TypesOfOne
           DEF OrderInv, Receiving, ReadTypes
      <4> QED
        BY <4>1 DEF ReadType, ReadTypes
    <3>4. InHand(l)' = <<>> /\ ~ToConnect(l)'
      BY <1>6, <2>2, <3>1, <3>3 DEF InHand, ToConnect
    <3> QED
      BY <3>2, <3>4
  <2> QED
    BY <2>1, <2>2
<1>8. Receiving'
  <2>1. \A l \in SocketLoops : loop'[l].due \subseteq loop[l].due
    BY <1>6
  <2> QED
    BY <1>4, <1>5, <2>1 DEF OrderInv, Receiving, ReadType, Types
<1>9. Connecting'
  BY <1>4, <1>7 DEF OrderInv, Connecting
<1>10. ASSUME NEW l \in SocketLoops, sock.kind.loops = {l}
       PROVE  Keeping(l)' /\ Ending(l)'
  <2>1. /\ calls.given \o InHand(l) \in Seq(Nat) /\ Rest \in Seq(Nat)
        /\ net.sent \in Nat
    BY PartsAreSeqs DEF OrderInv, SocketInv
  <2>2. Numbered(calls.given \o InHand(l), net.sent)
    BY <1>10, <2>1, NumberedPrefix DEF OrderInv, Keeping, Kept
  <2>3. Kept(l)' = calls.given \o InHand(l)
    <3>1. Rest' = <<>>
      BY <1>4 DEF Rest
    <3> QED
      BY <1>7, <2>1, <3>1, ConcatEmptySeq DEF Kept
  <2>4. Keeping(l)'
    BY <1>4, <1>5, <2>2, <2>3 DEF Keeping, Numbered
  <2>5. Ending(l)'
    BY <1>4, <1>7, <1>10 DEF OrderInv, Ending
  <2> QED
    BY <2>4, <2>5
<1> QED
  BY <1>4, <1>8, <1>9, <1>10 DEF OrderInv

-----------------------------------------------------------------------------
(* The manager.                                                             *)

LEMMA CopyFdsOrders ==
  ASSUME OrderInv, SocketInv', CopyFds PROVE OrderInv'
<1>1. /\ manager \in Manager /\ manager.at # "read"
      /\ manager' = [manager EXCEPT !.at = "select", !.watch = active.fds]
      /\ UNCHANGED <<sock, active, source, loop, net, calls>>
  BY TypesAre DEF OrderInv, SocketInv, CopyFds
<1>2. manager'.item = manager.item
  BY <1>1 DEF Manager
<1> QED
  BY <1>1, <1>2, HoldsWhileReading, OrderStaysHere DEF OrderInv

LEMMA SelectOrders ==
  ASSUME OrderInv, SocketInv', Select PROVE OrderInv'
<1>1. /\ manager \in Manager /\ manager.at # "read"
      /\ UNCHANGED <<sock, source, loop, net, calls>>
  BY TypesAre DEF OrderInv, SocketInv, Select
<1>2. manager'.item = manager.item
  BY <1>1 DEF Select, Manager
<1> QED
  BY <1>1, <1>2, HoldsWhileReading, OrderStaysHere DEF OrderInv

LEMMA CollectOrders ==
  ASSUME OrderInv, SocketInv', Collect PROVE OrderInv'
<1>1. /\ manager \in Manager /\ manager.at # "read"
      /\ UNCHANGED <<sock, source, loop, net, calls>>
  BY TypesAre DEF OrderInv, SocketInv, Collect
<1>2. manager'.item = NoItem
  <2>1. NoItem \in Item /\ FALSE \in BOOLEAN
    BY DEF Item
  <2> QED
    BY <1>1, <2>1 DEF Collect, Onward, Manager
<1> QED
  BY <1>1, <1>2, HoldsWhileReading, OrderStaysHere DEF OrderInv

\* The manager is done with what it holds nothing of.
LEMMA HandledOrders ==
  ASSUME OrderInv, SocketInv', manager' = Handled,
         sock.valid => manager.item = NoItem,
         UNCHANGED <<sock, loop, net, calls.given, calls.connects>>
  PROVE  OrderInv'
<1>1. manager'.item = NoItem
  BY TypesAre, HandledHolds DEF OrderInv, SocketInv
<1> QED
  BY <1>1, OrderStaysHere

LEMMA GetErrorOrders ==
  ASSUME OrderInv, SocketInv', GetError PROVE OrderInv'
<1>1. /\ manager \in Manager /\ net \in Net /\ manager.at = "getError"
      /\ UNCHANGED <<sock, active, source, loop, calls>>
  BY TypesAre DEF OrderInv, SocketInv, GetError
<1>2. manager.item = NoItem
  BY <1>1 DEF OrderInv, Receiving
<1>3. CASE sock.valid
  <2>1. /\ manager' = [manager EXCEPT !.at = "write",
                                      !.error = (net.link = "failed")]
        /\ net' = [net EXCEPT !.link = IF net.link = "failed" THEN "told"
                                                              ELSE net.link]
    BY <1>3 DEF GetError
  <2>2. manager'.item = manager.item
    BY <1>1, <2>1 DEF Manager
  <2>3. UNCHANGED <<net.inbox, net.sent, net.ended>>
    BY <1>1, <2>1 DEF Net
  <2>4. \A l \in SocketLoops : Quiet(l)
    BY <1>1 DEF Quiet
  <2> QED
    BY <1>1, <1>2, <2>2, <2>3, <2>4, OrderStays
<1>4. CASE ~sock.valid
  <2>1. manager' = Handled /\ UNCHANGED net
    BY <1>4 DEF GetError
  <2> QED
    BY <1>1, <1>4, <2>1, HandledOrders
<1> QED
  BY <1>3, <1>4

LEMMA HandleWriteOrders ==
  ASSUME OrderInv, SocketInv', HandleWrite PROVE OrderInv'
<1>1. /\ manager \in Manager /\ sock \in Sock /\ manager.at = "write"
      /\ UNCHANGED <<active, loop, net, calls>>
  BY TypesAre DEF OrderInv, SocketInv, HandleWrite
<1>2. manager.item = NoItem
  BY <1>1 DEF OrderInv, Receiving
<1>3. CASE sock.valid /\ (Types \cap WriteTypes) \ sock.disabled # {}
  <2> DEFINE s == [sock EXCEPT !.signalled = sock.signalled \cup {"write"},
                               !.error = manager.error]
  <2>1. SignalSource(s)
    BY <1>3 DEF HandleWrite
  <2>2. manager.error \in BOOLEAN
    BY <1>1, ManagerFields
  <2>3. /\ s \in Sock /\ s.kind = sock.kind /\ s.valid = sock.valid
        /\ s.queue = sock.queue /\ s.connected = sock.connected
    BY <1>1, <2>2 DEF Sock, Sets
  <2> HIDE DEF s
  <2>4. sock' = s /\ manager'.item = NoItem
    <3>1. NoItem \in Item
      BY DEF Item
    <3> QED
      BY <1>1, <2>1, <3>1 DEF SignalSource, Manager
  <2> QED
    BY <1>1, <1>2, <2>3, <2>4, OrderStaysHere
<1>4. CASE ~(sock.valid /\ (Types \cap WriteTypes) \ sock.disabled # {})
  <2>1. manager' = Handled /\ UNCHANGED <<sock, source>>
    BY <1>4 DEF HandleWrite
  <2> QED
    BY <1>1, <1>2, <2>1, HandledOrders
<1> QED
  BY <1>3, <1>4

\* Every item that is received is held, whatever the way it is received in.
LEMMA ReceivedOrders ==
  ASSUME OrderInv, SocketInv', NEW l \in SocketLoops, sock.kind.loops = {l},
         sock.valid, manager.item = NoItem, manager'.item \in Nat,
         UNCHANGED <<sock, loop, calls, net.sent, net.ended>>,
         \/ net.inbox # <<>> /\ manager'.item = Head(net.inbox)
              /\ net'.inbox = Tail(net.inbox)
         \/ net.inbox = <<>> /\ manager'.item = End /\ net.ended
              /\ ReadType = {"data"} /\ net'.inbox = net.inbox
  PROVE  Keeping(l)'
<1> DEFINE g == calls.given
           h == InHand(l)
           q == sock.queue
           x == net.inbox
           i == manager'.item
<1>1. /\ g \in Seq(Nat) /\ h \in Seq(Nat) /\ q \in Seq(Nat) /\ x \in Seq(Nat)
      /\ net.sent \in Nat /\ i \in Nat /\ Kept(l) \in Seq(Nat)
      /\ g \o h \in Seq(Nat)
  BY PartsAreSeqs DEF OrderInv, SocketInv
<1>2. Kept(l) = g \o h \o (q \o <<>> \o x)
  BY DEF Kept, Rest, Held
<1>3. Kept(l)' = g \o h \o (q \o <<i>> \o net'.inbox)
  <2>1. InHand(l)' = h
    BY DEF InHand
  <2>2. Held' = <<i>>
    BY SocketAssumption DEF Held
  <2> QED
    BY <2>1, <2>2 DEF Kept, Rest
<1>4. /\ Numbered(Kept(l), net.sent) /\ net.sent <= Len(Kept(l))
      /\ (net.ended => ReadType # {"data"}) => Len(Kept(l)) <= net.sent
  BY DEF OrderInv, Keeping
<1>5. CASE x # <<>> /\ i = Head(x) /\ net'.inbox = Tail(x)
  <2> HIDE DEF g, h, q, x, i
  <2>2. q \o <<Head(x)>> \o Tail(x) = q \o <<>> \o x
    BY <1>1, <1>5, ItemHeld
  <2>1. Kept(l)' = Kept(l)
    BY <1>2, <1>3, <1>5, <2>2
  <2> QED
    BY <1>4, <2>1 DEF Keeping, Numbered, ReadType, Types
<1>6. CASE /\ x = <<>> /\ i = End /\ net.ended /\ ReadType = {"data"}
           /\ net'.inbox = x
  <2>1. Kept(l)' = Append(Kept(l), End)
    <3> HIDE DEF g, h, q, i
    <3> DEFINE none == <<>>
    <3>1. none \in Seq(Nat) /\ q \o none = q
      BY <1>1, ConcatEmptySeq
    <3>2. q \o none \o none = q /\ q \o <<i>> \o none = Append(q, i)
      <4>1. Append(q, i) = q \o <<i>> /\ Append(q, i) \in Seq(Nat)
        BY <1>1, AppendIsConcat, AppendProperties
      <4> QED
        BY <3>1, <4>1, ConcatEmptySeq
    <3> DEFINE gh == g \o h
    <3> HIDE DEF none, gh
    <3>3. gh \o Append(q, i) = Append(gh \o q, i)
      <4>1. gh \in Seq(Nat)
        BY <1>1 DEF gh
      <4>2. Append(q, i) = q \o <<i>> /\ <<i>> \in Seq(Nat)
        <5>1. q \in Seq(Nat) /\ i \in Nat
          BY <1>1
        <5>2. Append(q, i) = q \o <<i>>
          BY <5>1, AppendIsConcat
        <5>3. <<i>> \in Seq(Nat)
          BY <5>1
        <5> QED
          BY <5>2, <5>3
      <4>3. (gh \o q) \o <<i>> = gh \o (q \o <<i>>)
        BY <1>1, <4>1, <4>2, Associates, Zenon
      <4>4. gh \o q \in Seq(Nat)
        BY <1>1, <4>1, Concatenates
      <4>5. Append(gh \o q, i) = (gh \o q) \o <<i>>
        BY <1>1, <4>4, AppendIsConcat
      <4> QED
        BY <4>2, <4>3, <4>5
    <3> QED
      BY <1>2, <1>3, <1>6, <3>2, <3>3 DEF none, gh
  <2>2. /\ ReadType' = ReadType
        /\ End = IF Len(Kept(l)) + 1 <= net.sent THEN Len(Kept(l)) + 1 ELSE End
    BY <1>1, <1>4, LenProperties DEF ReadType, Types
  <2>3. Numbered(Append(Kept(l), End), net.sent)
    BY <1>1, <1>4, <2>2, NumberedAppend DEF End
  <2>4. Len(Append(Kept(l), End)) = Len(Kept(l)) + 1
    BY <1>1, AppendProperties DEF End
  <2> QED
    BY <1>1, <1>4, <1>6, <2>1, <2>2, <2>3, <2>4, LenProperties DEF Keeping, Numbered
<1> QED
  BY <1>5, <1>6

LEMMA ReceiveOrders ==
  ASSUME OrderInv, SocketInv', Receive PROVE OrderInv'
<1>1. /\ manager \in Manager /\ net \in Net /\ calls \in Calls /\ sock \in Sock
      /\ manager.at = "receive" /\ UNCHANGED <<sock, active, source, loop>>
  BY TypesAre DEF OrderInv, SocketInv, Receive
<1>2. manager.item = NoItem
  BY <1>1 DEF OrderInv, Receiving
<1>3. CASE ~sock.valid /\ manager' = Handled /\ UNCHANGED <<net, calls>>
  BY <1>1, <1>3, HandledOrders
<1>4. CASE ReadType = {"read"} /\ manager' = [manager EXCEPT !.at = "read"]
             /\ UNCHANGED <<net, calls>>
  <2>1. manager'.item = manager.item
    BY <1>1, <1>4 DEF Manager
  <2> QED
    BY <1>1, <1>2, <1>4, <2>1, OrderStaysHere
<1>5. ASSUME NEW i \in Nat, sock.valid, ReadType # {"read"},
             manager' = [manager EXCEPT !.at = "read", !.item = i],
             UNCHANGED <<calls, net.sent, net.ended>>,
             \/ net.inbox # <<>> /\ i = Head(net.inbox)
                  /\ net'.inbox = Tail(net.inbox)
             \/ net.inbox = <<>> /\ i = End /\ net.ended
                  /\ ReadType = {"data"} /\ net'.inbox = net.inbox
      PROVE  OrderInv'
  <2>1. manager'.item = i /\ manager'.at = "read"
    BY <1>1, <1>5 DEF Manager, Item
  <2>2. ReadType \in {{"data"}, {"accept"}}
    <3>1. ReadType # {}
      BY <1>1 DEF OrderInv, SocketInv, Managing
    <3>2. \A x \in ReadType : ReadType = {x}
      BY <1>1, SockFields, Kinds DEF ReadType, Types
    <3> QED
      BY <1>5, <3>1, <3>2 DEF ReadType, ReadTypes
  <2>3. Receiving' /\ Connecting'
    BY <1>1, <1>5, <2>1, <2>2
       DEF OrderInv, Receiving, Connecting, ToConnect, ReadType, Types
  <2>4. ASSUME NEW l \in SocketLoops, sock.kind.loops = {l}
        PROVE  Keeping(l)' /\ Ending(l)'
    <3>1. Keeping(l)'
      BY <1>1, <1>2, <1>5, <2>1, <2>4, ReceivedOrders
    <3>2. Ending(l)'
      BY <1>1, <1>5, <2>4 DEF OrderInv, Ending, InHand
    <3> QED
      BY <3>1, <3>2
  <2> QED
    BY <1>1, <2>3, <2>4 DEF OrderInv
<1>6. CASE /\ sock.valid /\ ReadType # {"read"} /\ net.inbox # <<>>
           /\ manager' = [manager EXCEPT !.at = "read", !.item = Head(net.inbox)]
           /\ net' = [net EXCEPT !.inbox = Tail(net.inbox)] /\ UNCHANGED calls
  <2>1. net.inbox \in Seq(Nat)
    BY <1>1 DEF Net
  <2>2. Head(net.inbox) \in Nat /\ Tail(net.inbox) \in Seq(Nat)
    BY <1>6, <2>1, HeadAndTail
  <2>3. /\ net'.inbox = Tail(net.inbox) /\ net'.sent = net.sent
        /\ net'.ended = net.ended
    BY <1>1, <1>6, <2>2 DEF Net
  <2> QED
    BY <1>5, <1>6, <2>2, <2>3
<1>7. CASE /\ sock.valid /\ ReadType = {"data"} /\ net.inbox = <<>> /\ net.ended
           /\ manager' = [manager EXCEPT !.at = "read", !.item = End]
           /\ UNCHANGED <<net, calls>>
  BY <1>5, <1>7 DEF End
<1>8. CASE /\ sock.valid /\ manager' = Handled /\ UNCHANGED net
           /\ calls' = [calls EXCEPT !.left = calls.left \cup {"accept"}]
  <2>1. UNCHANGED <<calls.given, calls.connects>>
    BY <1>1, <1>8 DEF Calls
  <2> QED
    BY <1>1, <1>2, <1>8, <2>1, HandledOrders
<1> QED
  BY <1>3, <1>4, <1>6, <1>7, <1>8 DEF Receive

LEMMA HandleReadOrders ==
  ASSUME OrderInv, SocketInv', HandleRead PROVE OrderInv'
<1>1. /\ manager \in Manager /\ sock \in Sock /\ manager.at = "read"
      /\ UNCHANGED <<loop, net, calls>>
  BY TypesAre DEF OrderInv, SocketInv, HandleRead
<1>2. CASE sock.valid /\ (ReadType = {"read"} => "read" \notin sock.disabled)
  <2> DEFINE q == IF ReadType = {"read"} THEN sock.queue
                  ELSE Append(sock.queue, manager.item)
             s == [sock EXCEPT !.signalled = sock.signalled \cup {"read"},
                               !.queue = q]
  <2>1. SignalSource(s)
    BY <1>2 DEF HandleRead
  <2>2. q \in Seq(Nat) /\ (ReadType # {"read"} => manager.item \in Nat)
    BY <1>1, SockFields DEF OrderInv, SocketInv, Managing
  <2>3. /\ ReadType # {"read"} => q = Append(sock.queue, manager.item)
        /\ ReadType = {"read"} => q = sock.queue
    OBVIOUS
  <2> HIDE DEF q
  <2>4. /\ s.kind = sock.kind /\ s.valid = sock.valid
        /\ s.queue = q /\ s.connected = sock.connected
    BY <1>1, <2>2 DEF Sock, Sets
  <2> HIDE DEF s
  <2>5. sock' = s /\ manager'.item = NoItem
    <3>1. NoItem \in Item
      BY DEF Item
    <3> QED
      BY <1>1, <2>1, <3>1 DEF SignalSource, Manager
  <2>6. CASE ReadType = {"read"}
    <3>1. manager.item = NoItem
      BY <2>6 DEF OrderInv, Receiving
    <3> QED
      BY <1>1, <2>3, <2>4, <2>5, <2>6, <3>1, OrderStaysHere
  <2>7. CASE ReadType # {"read"}
    <3>1. ReadType \in {{"data"}, {"accept"}}
      BY <2>2, <2>7, SocketAssumption DEF OrderInv, Receiving
    <3>2. Receiving' /\ Connecting'
      BY <1>1, <1>2, <2>4, <2>5, <3>1
         DEF OrderInv, Receiving, Connecting, ToConnect, ReadType, Types
    <3>3. ASSUME NEW l \in SocketLoops, sock.kind.loops = {l}
          PROVE  Keeping(l)' /\ Ending(l)'
      <4>1. /\ sock.queue \in Seq(Nat) /\ net.inbox \in Seq(Nat)
        BY PartsAreSeqs DEF OrderInv, SocketInv
      <4>2. Rest = sock.queue \o <<manager.item>> \o net.inbox
        BY <1>2, <2>2, <2>7, SocketAssumption DEF Rest, Held
      <4>3. Rest' = Append(sock.queue, manager.item) \o <<>> \o net.inbox
        BY <1>1, <1>2, <2>3, <2>4, <2>5, <2>7 DEF Rest, Held
      <4>4. Rest' = Rest
        BY <2>2, <2>7, <4>1, <4>2, <4>3, ItemQueued
      <4>5. Kept(l)' = Kept(l) /\ InHand(l)' = InHand(l)
        BY <1>1, <4>4 DEF Kept, InHand
      <4>6. Keeping(l)'
        BY <1>1, <2>4, <2>5, <3>3, <4>5
           DEF OrderInv, Keeping, Numbered, ReadType, Types
      <4>7. Ending(l)'
        BY <1>1, <2>4, <2>5, <3>3, <4>5 DEF OrderInv, Ending
      <4> QED
        BY <4>6, <4>7
    <3> QED
      BY <2>4, <2>5, <3>2, <3>3 DEF OrderInv
  <2> QED
    BY <2>6, <2>7
<1>3. CASE ~(sock.valid /\ (ReadType = {"read"} => "read" \notin sock.disabled))
  <2>1. manager' = Handled /\ UNCHANGED <<sock, source, active>>
    BY <1>3 DEF HandleRead
  <2>2. sock.valid => manager.item = NoItem
    BY <1>3 DEF OrderInv, Receiving
  <2> QED
    BY <1>1, <2>1, <2>2, HandledOrders
<1> QED
  BY <1>2, <1>3

LEMMA ChooseLoopOrders ==
  ASSUME OrderInv, SocketInv', ChooseLoop PROVE OrderInv'
<1>1. /\ manager \in Manager /\ manager.at = "choose"
      /\ UNCHANGED <<sock, active, source, loop, net, calls>>
  BY TypesAre DEF OrderInv, SocketInv, ChooseLoop
<1>2. manager.item = NoItem
  BY <1>1 DEF OrderInv, Receiving
<1>3. CASE manager' = Handled
  BY <1>1, <1>2, <1>3, HandledOrders
<1>4. ASSUME NEW l, manager' = [manager EXCEPT !.at = "wake", !.runLoops = {l}]
      PROVE  OrderInv'
  <2>1. manager'.item = manager.item
    BY <1>1, <1>4 DEF Manager
  <2> QED
    BY <1>1, <1>2, <2>1, OrderStaysHere
<1> QED
  BY <1>3, <1>4 DEF ChooseLoop

LEMMA WakeLoopOrders ==
  ASSUME OrderInv, SocketInv', WakeLoop PROVE OrderInv'
<1>1. /\ manager \in Manager /\ manager.at = "wake" /\ manager' = Handled
      /\ loop \in [SocketLoops -> Looper]
      /\ loop' = WakeUp(loop, manager.runLoops)
      /\ UNCHANGED <<sock, active, source, net, calls>>
  BY TypesAre DEF OrderInv, SocketInv, WakeLoop
<1>2. manager.item = NoItem
  BY <1>1 DEF OrderInv, Receiving
<1>3. manager'.item = NoItem
  BY <1>1, HandledHolds
<1>4. \A l \in SocketLoops : Quiet(l)
  BY <1>1, WakeUpFields DEF Quiet
<1> QED
  BY <1>1, <1>2, <1>3, <1>4, OrderStays

-----------------------------------------------------------------------------
(* Run loops.                                                               *)

LEMMA RunLoopStepOrders ==
  ASSUME OrderInv, SocketInv', NEW l \in SocketLoops, RunLoopStep(l)
  PROVE  OrderInv'
<1>1. /\ loop[l].at \in {"out", "run", "asleep"}
      /\ loop \in [SocketLoops -> Looper]
      /\ UNCHANGED <<sock, active, manager, net, calls>>
  BY TypesAre DEF OrderInv, SocketInv, RunLoopStep
<1>2. ASSUME NEW at \in {"out", "run", "asleep", "entered"}, loop' = Goto(l, at)
      PROVE  \A m \in SocketLoops : Quiet(m)
  <2>1. /\ loop'[l].at = at /\ loop'[l].due = loop[l].due
        /\ \A m \in SocketLoops \ {l} : loop'[m] = loop[m]
    BY <1>1, <1>2, GotoFields
  <2> QED
    BY <1>1, <2>1 DEF Quiet
<1>3. loop' = [loop EXCEPT ![l].at = "run", ![l].woken = FALSE]
        => \A m \in SocketLoops : Quiet(m)
  BY <1>1 DEF Quiet, Looper
<1>4. \A m \in SocketLoops : Quiet(m)
  BY <1>2, <1>3 DEF RunLoopStep
<1> QED
  BY <1>1, <1>4, HoldsWhileReading, OrderStays DEF OrderInv

\* The thread has the first item in its hands, and whether the end of the
\* connecting is to be told is decided with the lock held.
LEMMA TakeSignalsOrders ==
  ASSUME OrderInv, SocketInv', NEW l \in SocketLoops, TakeSignals(l)
  PROVE  OrderInv'
<1>1. /\ loop[l].at = "entered" /\ l \in sock.kind.loops
      /\ UNCHANGED <<active, manager, source, net, calls>>
      /\ loop \in [SocketLoops -> Looper] /\ sock \in Sock
  BY TypesAre DEF OrderInv, SocketInv, Looping, TakeSignals
<1>2. CASE ~sock.valid
  <2>1. loop' = Goto(l, "run") /\ UNCHANGED sock
    BY <1>2 DEF TakeSignals
  <2>2. \A m \in SocketLoops : Quiet(m)
    BY <1>1, <2>1, GotoFields DEF Quiet
  <2> QED
    BY <1>1, <2>1, <2>2, HoldsWhileReading, OrderStays DEF OrderInv
<1>3. CASE sock.valid
  <2> DEFINE wrote == "write" \in sock.signalled
             item  == IF sock.queue = <<>> THEN NoItem ELSE Head(sock.queue)
             reads == IF ReadType = {"read"} THEN "read" \in sock.signalled
                                             ELSE item # NoItem
             due   == {x \in Types :
                         CASE x = "connect" -> wrote /\ ~sock.connected
                           [] x = "write"   -> wrote /\ ~sock.error
                           [] OTHER         -> reads}
             again == {x \in Types : \/ x \in ReadTypes /\ "read" \in sock.signalled
                                     \/ x = "write" /\ wrote}
             queue == IF sock.queue = <<>> THEN sock.queue ELSE Tail(sock.queue)
             connected == sock.connected \/ wrote
             y == [loop[l] EXCEPT !.at = "perform", !.due = due, !.item = item,
                                  !.again = again]
  <2>1. /\ loop' = [loop EXCEPT ![l] = y]
        /\ sock' = [sock EXCEPT !.signalled = {}, !.connected = connected,
                                !.queue = queue]
    BY <1>3 DEF TakeSignals
  <2>2. /\ sock.queue \in Seq(Nat) /\ Types \subseteq ReadTypes \cup WriteTypes
    BY <1>1, SockFields, Kinds DEF Types
  <2>3. /\ sock.queue = <<>> => item = NoItem /\ queue = <<>>
        /\ sock.queue # <<>> => /\ item \in Nat /\ item = Head(sock.queue)
                                /\ queue = Tail(sock.queue)
        /\ queue \in Seq(Nat) /\ item \in Item
    BY <2>2 DEF Item
  <2>4. /\ due \subseteq Types
        /\ "connect" \in due => ~sock.connected /\ connected
        /\ sock.connected => connected
        /\ connected \in BOOLEAN
    OBVIOUS
  <2>5. \A x \in Types : x \in {"data", "accept"} => (x \in due <=> reads)
    OBVIOUS
  <2>6. due \cap {"data", "accept"} # {} <=> item # NoItem
    <3>1. item # NoItem => ReadType \in {{"data"}, {"accept"}}
      BY <2>3 DEF OrderInv, Receiving
    <3>2. ReadType # {"read"} => (reads <=> item # NoItem)
      OBVIOUS
    <3>3. \A x \in ReadType : ReadType = {x}
      BY <1>1, SockFields, Kinds DEF ReadType, Types
    <3> HIDE DEF due, reads, item
    <3>4. ASSUME NEW x \in due \cap {"data", "accept"} PROVE item # NoItem
      <4>1. x \in Types /\ ReadType = {x}
        BY <2>4, <3>3, <3>4 DEF ReadType, ReadTypes
      <4> QED
        BY <2>5, <3>2, <3>4, <4>1
    <3>5. ASSUME item # NoItem PROVE due \cap {"data", "accept"} # {}
      <4>1. PICK x \in {"data", "accept"} : ReadType = {x}
        BY <3>1, <3>5
      <4>2. x \in Types
        BY <4>1 DEF ReadType
      <4> QED
        BY <2>5, <3>2, <3>5, <4>1, <4>2
    <3> QED
      BY <3>4, <3>5
  <2> HIDE DEF wrote, item, reads, due, again, queue, connected
  <2>7. y.at = "perform" /\ y.due = due /\ y.item = item
    <3> DEFINE z == loop[l]
    <3>1. z \in Looper
      BY <1>1
    <3> HIDE DEF z
    <3>2. LET w == [z EXCEPT !.at = "perform", !.due = due, !.item = item,
                             !.again = again]
          IN  w.at = "perform" /\ w.due = due /\ w.item = item
      BY <3>1 DEF Looper
    <3> QED
      BY <3>2 DEF z
  <2> HIDE DEF y
  <2>8. /\ loop'[l] = y
        /\ \A m \in SocketLoops \ {l} : loop'[m] = loop[m]
    BY <1>1, <2>1
  <2>9. /\ sock'.kind = sock.kind /\ sock'.valid = sock.valid
        /\ sock'.connected = connected /\ sock'.queue = queue
    BY <1>1, <2>1, <2>3, <2>4 DEF Sock
  <2>10. Receiving'
    BY <1>1, <1>3, <2>3, <2>4, <2>7, <2>8, <2>9
       DEF OrderInv, Receiving, ReadType, Types
  <2>11. Connecting'
    <3>1. /\ calls.connects <= 1 /\ (calls.connects = 1 => sock.connected)
          /\ \A m \in SocketLoops : ToConnect(m) =>
               /\ calls.connects = 0 /\ sock.connected
               /\ \A k \in SocketLoops : ToConnect(k) => k = m
          /\ calls.connects \in Nat
      BY TypesAre DEF OrderInv, Connecting, SocketInv, Calls
    <3>2. \A m \in SocketLoops \ {l} : ToConnect(m)' <=> ToConnect(m)
      BY <2>8 DEF ToConnect
    <3>3. ~ToConnect(l)
      BY <1>1 DEF ToConnect
    <3>4. ToConnect(l)' => ~sock.connected /\ connected
      BY <2>4, <2>7, <2>8 DEF ToConnect
    <3>5. CASE ToConnect(l)'
      <4>1. calls.connects = 0 /\ \A m \in SocketLoops \ {l} : ~ToConnect(m)'
        BY <3>1, <3>2, <3>4, <3>5
      <4> QED
        BY <1>1, <2>9, <3>4, <3>5, <4>1 DEF Connecting
    <3>6. CASE ~ToConnect(l)'
      <4>1. \A m \in SocketLoops : ToConnect(m)' => ToConnect(m) /\ m # l
        BY <3>2, <3>6
      <4> QED
        BY <1>1, <2>4, <2>9, <3>1, <4>1 DEF Connecting
    <3> QED
      BY <3>5, <3>6
  <2>12. ASSUME NEW m \in SocketLoops, sock.kind.loops = {m}
         PROVE  Keeping(m)' /\ Ending(m)'
    <3>1. m = l
      BY <1>1, <2>12
    <3>2. InHand(l) = <<>>
      BY <1>1 DEF InHand
    <3>3. InHand(l)' = IF sock.queue = <<>> THEN <<>> ELSE <<Head(sock.queue)>>
      <4>1. CASE sock.queue = <<>>
        BY <2>3, <2>6, <2>7, <2>8, <4>1 DEF InHand
      <4>2. CASE sock.queue # <<>>
        <5>1. item # NoItem
          BY <2>3, <4>2, SocketAssumption
        <5> QED
          BY <2>3, <2>6, <2>7, <2>8, <4>2, <5>1 DEF InHand
      <4> QED
        BY <4>1, <4>2
    <3>4. Kept(l)' = Kept(l)
      <4> DEFINE g == calls.given
                 q == sock.queue
                 x == net.inbox
                 none == <<>>
      <4>1. /\ g \in Seq(Nat) /\ q \in Seq(Nat) /\ x \in Seq(Nat)
            /\ Held \in Seq(Nat)
        BY PartsAreSeqs DEF OrderInv, SocketInv
      <4>2. Kept(l) = g \o none \o (q \o Held \o x)
        BY <1>3, <3>2 DEF Kept, Rest
      <4>3. Kept(l)' = g \o InHand(l)' \o (queue \o Held \o x)
        BY <1>1, <1>3, <2>9 DEF Kept, Rest, Held
      <4>4. CASE q = none
        BY <2>3, <3>3, <4>2, <4>3, <4>4
      <4>5. CASE q # none
        <5> HIDE DEF g, q, x, Held
        <5>1. Cat(Cat(g, <<Head(q)>>), Cat(Cat(Tail(q), Held), x))
                = Cat(Cat(g, <<>>), Cat(Cat(q, Held), x))
          BY <4>1, <4>5, ItemTaken
        <5>2. queue = Tail(q) /\ InHand(l)' = <<Head(q)>>
          BY <2>3, <3>3, <4>5 DEF q
        <5>3. Kept(l)' = Cat(Cat(g, <<Head(q)>>), Cat(Cat(Tail(q), Held), x))
          BY <4>3, <5>2 DEF Cat
        <5>4. Kept(l) = Cat(Cat(g, <<>>), Cat(Cat(q, Held), x))
          BY <4>2 DEF Cat
        <5> QED
          BY <5>1, <5>3, <5>4
      <4> QED
        BY <4>4, <4>5
    <3>5. Keeping(l)'
      BY <1>1, <2>9, <2>12, <3>1, <3>4 DEF OrderInv, Keeping, Numbered,
             ReadType, Types
    <3>6. Ending(l)'
      BY <1>1, <1>3, <2>12, <3>1 DEF OrderInv, Ending
    <3> QED
      BY <3>1, <3>5, <3>6
  <2> QED
    BY <2>9, <2>10, <2>11, <2>12 DEF OrderInv
<1> QED
  BY <1>2, <1>3

\* What is called out is no longer in hand.
LEMMA CallOutOrders ==
  ASSUME OrderInv, SocketInv', NEW l \in SocketLoops, CallOut(l)
  PROVE  OrderInv'
<1> DEFINE z == loop[l]
<1>1. /\ z.at = "perform" /\ z.due # {} /\ z \in Looper /\ loop[l] = z
      /\ UNCHANGED <<sock, active, manager, source, net>>
      /\ loop \in [SocketLoops -> Looper] /\ calls \in Calls /\ sock \in Sock
      /\ l \in sock.kind.loops /\ z.due \subseteq Types
      /\ (z.due \cap {"data", "accept"} # {} => z.item \in Nat)
  BY TypesAre DEF OrderInv, SocketInv, CallOut, Looping, Receiving
<1>2. CASE loop[l].called /\ ~sock.valid
  <2> DEFINE x == [z EXCEPT !.due = {}]
  <2>1. loop' = [loop EXCEPT ![l] = x] /\ UNCHANGED calls
    BY <1>2 DEF CallOut
  <2> HIDE DEF z
  <2>2. x.at = "perform" /\ x.due = {}
    BY <1>1 DEF Looper
  <2> HIDE DEF x
  <2>3. /\ loop'[l] = x /\ \A m \in SocketLoops \ {l} : loop'[m] = loop[m]
    BY <1>1, <2>1
  <2>4. Receiving'
    BY <1>1, <2>1, <2>2, <2>3 DEF OrderInv, Receiving, ReadType, Types
  <2>5. Connecting'
    BY <1>1, <2>1, <2>2, <2>3 DEF OrderInv, Connecting, ToConnect
  <2>6. ASSUME NEW m \in SocketLoops, sock.kind.loops = {m}
        PROVE  Keeping(m)' /\ Ending(m)'
    <3>1. m = l
      BY <1>1, <2>6
    <3>2. InHand(l)' = <<>>
      BY <2>2, <2>3 DEF InHand
    <3>3. /\ calls.given \in Seq(Nat) /\ InHand(l) \in Seq(Nat)
          /\ Rest \in Seq(Nat) /\ net.sent \in Nat
          /\ calls.given \o InHand(l) \in Seq(Nat)
      BY PartsAreSeqs DEF OrderInv, SocketInv
    <3>4. Numbered(calls.given, net.sent)
      BY <2>6, <3>1, <3>3, NumberedPrefix DEF OrderInv, Keeping, Kept
    <3>5. Rest' = <<>>
      BY <1>1, <1>2 DEF Rest
    <3>6. Kept(l)' = calls.given
      BY <2>1, <3>2, <3>3, <3>5, ConcatEmptySeq DEF Kept
    <3>7. Keeping(l)'
      BY <1>1, <1>2, <3>4, <3>6 DEF Keeping, Numbered
    <3>8. Ending(l)'
      BY <1>1, <1>2, <2>1, <2>6, <3>1, <3>2 DEF OrderInv, Ending
    <3> QED
      BY <3>1, <3>7, <3>8
  <2> QED
    BY <1>1, <2>4, <2>5, <2>6 DEF OrderInv
<1>3. CASE ~(loop[l].called /\ ~sock.valid)
  <2> DEFINE x == [z EXCEPT !.at = "callout"]
             f == First(z.due)
             connects == IF f = "connect" THEN calls.connects + 1
                                          ELSE calls.connects
             given == IF f \in {"data", "accept"} THEN Append(calls.given, z.item)
                                                  ELSE calls.given
  <2>1. /\ loop' = [loop EXCEPT ![l] = x]
        /\ calls' = [calls EXCEPT !.connects = connects, !.given = given]
    BY <1>3 DEF CallOut, Goto
  <2>2. calls'.connects = connects /\ calls'.given = given
    <3> HIDE DEF connects, given
    <3> QED
      BY <1>1, <2>1 DEF Calls
  <2>3. /\ f = "connect" <=> "connect" \in z.due
        /\ "connect" \notin z.due /\ f \in ReadTypes => ReadType = {f} /\ f \in z.due
    <3>1. CASE "connect" \in z.due
      BY <3>1 DEF First
    <3>2. CASE "connect" \notin z.due
      BY <1>1, <3>2, TypesOfOne
    <3> QED
      BY <3>1, <3>2
  <2>4. /\ f = "connect" => connects = calls.connects + 1
        /\ f # "connect" => connects = calls.connects
        /\ f \in {"data", "accept"} =>
             given = Append(calls.given, z.item) /\ z.item \in Nat
        /\ f \notin {"data", "accept"} => given = calls.given
    BY <1>1, FirstIsDue
  <2> HIDE DEF z, connects, given
  <2>5. /\ x.at = "callout" /\ x.due = z.due /\ x.item = z.item
    BY <1>1 DEF Looper
  <2> HIDE DEF x
  <2>6. /\ loop'[l] = x /\ \A m \in SocketLoops \ {l} : loop'[m] = loop[m]
    BY <1>1, <2>1
  <2>7. Receiving'
    BY <1>1, <2>5, <2>6 DEF OrderInv, Receiving, ReadType, Types
  <2>8. Connecting'
    BY <1>1, <2>2, <2>3, <2>4, <2>5, <2>6
       DEF OrderInv, Connecting, ToConnect
  <2>9. ASSUME NEW m \in SocketLoops, sock.kind.loops = {m}
        PROVE  Keeping(m)' /\ Ending(m)'
    <3>1. m = l
      BY <1>1, <2>9
    <3>2. calls.given \in Seq(Nat) /\ Rest \in Seq(Nat) /\ Rest' = Rest
      BY <1>1, PartsAreSeqs DEF OrderInv, SocketInv, Rest, Held
    <3>3. CASE f \in {"data", "accept"}
      <4>1. InHand(l) = <<z.item>> /\ InHand(l)' = <<>>
        BY <1>1, <2>3, <2>5, <2>6, <3>3 DEF InHand, ReadTypes
      <4>2. Kept(l)' = Kept(l)
        <5> DEFINE g == calls.given
                   r == Rest
                   i == z.item
        <5>1. Kept(l) = g \o <<i>> \o r
          BY <4>1 DEF Kept
        <5>2. Kept(l)' = Append(g, i) \o <<>> \o r
          BY <2>2, <2>4, <3>2, <3>3, <4>1 DEF Kept
        <5>3. g \in Seq(Nat) /\ r \in Seq(Nat) /\ i \in Nat
          BY <2>4, <3>2, <3>3
        <5> HIDE DEF g, r, i
        <5> QED
          BY <5>1, <5>2, <5>3, ItemGiven
      <4>3. Keeping(l)'
        BY <1>1, <2>9, <3>1, <4>2 DEF OrderInv, Keeping, Numbered,
             ReadType, Types
      <4>4. Ending(l)'
        <5>1. /\ \A i \in 1..Len(calls.given) : calls.given[i] # End
          BY <2>9, <3>1, <4>1 DEF OrderInv, Ending
        <5>2. /\ calls'.given \in Seq(Nat)
              /\ Len(calls'.given) = Len(calls.given) + 1
              /\ calls'.given[Len(calls.given) + 1] = z.item
              /\ \A i \in 1..Len(calls.given) : calls'.given[i] = calls.given[i]
              /\ Len(calls.given) \in Nat
          <6> DEFINE g == calls.given
                     i == z.item
                     a == Append(g, i)
          <6>1. g \in Seq(Nat) /\ i \in Nat /\ calls'.given = a
            BY <2>2, <2>4, <3>2, <3>3
          <6> HIDE DEF g, i
          <6>2. /\ a \in Seq(Nat) /\ Len(a) = Len(g) + 1 /\ a[Len(g) + 1] = i
                /\ \A j \in 1..Len(g) : a[j] = g[j]
                /\ Len(g) \in Nat
            BY <6>1, AppendProperties, LenProperties
          <6> HIDE DEF a
          <6> QED
            BY <6>1, <6>2 DEF g, i
        <5>3. ASSUME z.item = End, sock.valid PROVE f = "data"
          <6>1. f # "data" => ReadType # {"data"}
            BY <1>1, <2>3, <3>3 DEF ReadTypes
          <6> DEFINE g == calls'.given
                     k == Kept(l)
                     r == Rest
          <6>2. g \in Seq(Nat) /\ r \in Seq(Nat) /\ net.sent \in Nat
            BY <3>2, <5>2, PartsAreSeqs DEF OrderInv, SocketInv
          <6>3. k = g \o r
            <7>1. k = g \o <<>> \o r
              BY <3>2, <4>1, <4>2 DEF Kept
            <7> QED
              BY <6>2, <7>1, ConcatEmptySeq
          <6>4. Numbered(k, net.sent) /\ (ReadType # {"data"} => Len(k) <= net.sent)
            BY <2>9, <3>1, <5>3 DEF OrderInv, Keeping
          <6> HIDE DEF g, k, r
          <6>5. ReadType # {"data"} => \A i \in 1..Len(g) : g[i] # End
            BY <6>2, <6>3, <6>4, SentIsNoEnd
          <6>6. Len(calls.given) + 1 \in 1..Len(g)
                /\ g[Len(calls.given) + 1] = End
            BY <5>2, <5>3 DEF g
          <6> QED
            BY <6>1, <6>5, <6>6
        <5> QED
          BY <1>1, <2>5, <2>6, <4>1, <5>1, <5>2, <5>3 DEF Ending
      <4> QED
        BY <3>1, <4>3, <4>4
    <3>4. CASE f \notin {"data", "accept"}
      <4>1. InHand(l)' = InHand(l)
        <5>1. CASE f = "connect"
          BY <1>1, <2>5, <2>6, <5>1 DEF InHand
        <5>2. CASE f # "connect"
          <6>1. z.due \cap {"data", "accept"} = {}
            BY <1>1, <2>3, <3>4, <5>2, TypesOfOne DEF ReadTypes
          <6> QED
            BY <1>1, <2>5, <2>6, <6>1 DEF InHand
        <5> QED
          BY <5>1, <5>2
      <4>2. Kept(l)' = Kept(l)
        BY <2>2, <2>4, <3>2, <3>4, <4>1 DEF Kept
      <4>3. Keeping(l)'
        BY <1>1, <2>9, <3>1, <4>2 DEF OrderInv, Keeping, Numbered,
             ReadType, Types
      <4>4. Ending(l)'
        BY <1>1, <2>2, <2>4, <2>9, <3>1, <3>4, <4>1 DEF OrderInv, Ending
      <4> QED
        BY <3>1, <4>3, <4>4
    <3> QED
      BY <3>3, <3>4
  <2> QED
    BY <1>1, <2>7, <2>8, <2>9 DEF OrderInv
<1> QED
  BY <1>2, <1>3

\* A client that reads is given the first item that was not received yet.
LEMMA ReadItemOrders ==
  ASSUME OrderInv, SocketInv', NEW l \in SocketLoops, ReadItem(l)
  PROVE  OrderInv'
<1> DEFINE due == loop[l].due
           g == calls.given
           x == net.inbox
<1>1. /\ loop[l].at = "callout" /\ First(due) = "read" /\ x # <<>>
      /\ UNCHANGED <<sock, active, manager, source, loop>>
      /\ net' = [net EXCEPT !.inbox = Tail(x)]
      /\ calls' = [calls EXCEPT !.given = Append(g, Head(x))]
      /\ net \in Net /\ calls \in Calls /\ sock \in Sock
  BY TypesAre DEF OrderInv, SocketInv, ReadItem
<1>2. /\ g \in Seq(Nat) /\ x \in Seq(Nat) /\ net.sent \in Nat
  BY PartsAreSeqs DEF OrderInv, SocketInv
<1>3. /\ Head(x) \in Nat /\ Tail(x) \in Seq(Nat) /\ Append(g, Head(x)) \in Seq(Nat)
  BY <1>1, <1>2, HeadAndTail, AppendProperties
<1>4. /\ net'.inbox = Tail(x) /\ net'.sent = net.sent /\ net'.ended = net.ended
      /\ calls'.given = Append(g, Head(x)) /\ calls'.connects = calls.connects
  BY <1>1, <1>3 DEF Net, Calls
<1>5. /\ sock.valid /\ due \subseteq Types /\ l \in sock.kind.loops
      /\ "connect" \notin due
  BY <1>1 DEF OrderInv, SocketInv, Looping, Receiving, First
<1>6. ReadType = {"read"} /\ due \cap {"data", "accept"} = {}
  BY <1>1, <1>5, TypesOfOne DEF ReadTypes
<1>7. /\ sock.queue = <<>> /\ Held = <<>> /\ InHand(l) = <<>>
  BY <1>6 DEF OrderInv, Receiving, Held, InHand
<1>8. Receiving'
  BY <1>1, <1>4, <1>5 DEF OrderInv, Receiving, ReadType, Types
<1>9. Connecting'
  BY <1>1, <1>4 DEF OrderInv, Connecting, ToConnect
<1>10. ASSUME NEW m \in SocketLoops, sock.kind.loops = {m}
       PROVE  Keeping(m)' /\ Ending(m)'
  <2>1. m = l
    BY <1>5, <1>10
  <2>2. Kept(l) = g \o <<>> \o (<<>> \o <<>> \o x)
    BY <1>5, <1>7 DEF Kept, Rest
  <2>3. /\ Rest' = <<>> \o <<>> \o Tail(x) /\ InHand(l)' = <<>>
        /\ Kept(l)' = Append(g, Head(x)) \o <<>> \o (<<>> \o <<>> \o Tail(x))
    BY <1>1, <1>4, <1>5, <1>7 DEF Kept, Rest, Held, InHand
  <2>4. Kept(l)' = Kept(l)
    <3> HIDE DEF g, x
    <3> QED
      BY <1>1, <1>2, <2>2, <2>3, ItemRead
  <2>5. Keeping(l)'
    BY <1>1, <1>4, <1>10, <2>1, <2>4
       DEF OrderInv, Keeping, Numbered, ReadType, Types
  <2>6. \A i \in 1..Len(calls'.given) : calls'.given[i] # End
    <3> DEFINE a == Append(g, Head(x))
               r == <<>> \o <<>> \o Tail(x)
               none == <<>>
    <3>1. r \in Seq(Nat) /\ a \in Seq(Nat)
      BY <1>3, ConcatEmptySeq
    <3>2. Kept(l) = a \o r
      <4>1. a \o none = a
        BY <3>1, ConcatEmptySeq
      <4> QED
        BY <2>3, <2>4, <4>1
    <3>3. Numbered(Kept(l), net.sent) /\ Len(Kept(l)) <= net.sent
      BY <1>5, <1>6, <1>10, <2>1 DEF OrderInv, Keeping
    <3> HIDE DEF a, r
    <3>4. \A i \in 1..Len(a) : a[i] # End
      BY <1>2, <3>1, <3>2, <3>3, SentIsNoEnd
    <3> QED
      BY <1>4, <3>4 DEF a
  <2>7. Ending(l)'
    BY <2>6 DEF Ending
  <2> QED
    BY <2>1, <2>5, <2>7
<1> QED
  BY <1>1, <1>8, <1>9, <1>10 DEF OrderInv

LEMMA ReturnedOrders ==
  ASSUME OrderInv, SocketInv', NEW l \in SocketLoops, Returned(l)
  PROVE  OrderInv'
<1> DEFINE z == loop[l]
           f == First(z.due)
           rest == z.due \ {f}
           x == [z EXCEPT !.at = "perform", !.called = TRUE, !.due = rest]
           back == [loop EXCEPT ![l] = x]
<1>1. /\ loop[l].at = "callout" /\ loop[l] = z /\ z \in Looper
      /\ loop \in [SocketLoops -> Looper] /\ sock \in Sock
      /\ l \in sock.kind.loops /\ z.due \subseteq Types
      /\ UNCHANGED <<manager, calls>>
  BY TypesAre DEF OrderInv, SocketInv, Returned, Looping, Receiving
<1>2. IF f = "data" /\ z.item = End
      THEN Invalidate(back)
      ELSE loop' = back /\ UNCHANGED <<sock, active, source, net>>
  <2> DEFINE ret == [loop EXCEPT ![l].at = "perform", ![l].called = TRUE,
                                 ![l].due = @ \ {First(loop[l].due)}]
  <2>1. ret = back
    BY <1>1 DEF Looper
  <2>2. IF First(loop[l].due) = "data" /\ loop[l].item = End
        THEN Invalidate(ret)
        ELSE loop' = ret /\ UNCHANGED <<sock, active, source, net>>
    BY Zenon DEF Returned
  <2> HIDE DEF ret
  <2> QED
    BY <2>1, <2>2
<1>3. rest \in AnyTypes /\ rest \subseteq z.due /\ rest = z.due \ {f}
  BY <1>1, LooperFields DEF AnyTypes
<1>11. "connect" \notin rest
  BY DEF First
<1> HIDE DEF z, rest
<1>4. x \in Looper /\ x.at = "perform" /\ x.due = rest /\ x.item = z.item
  BY <1>1, <1>3 DEF Looper
<1> HIDE DEF x
<1>5. /\ back \in [SocketLoops -> Looper] /\ back[l] = x
      /\ \A m \in SocketLoops \ {l} : back[m] = loop[m]
  BY <1>1, <1>4
<1> HIDE DEF back
<1>6. CASE Invalidate(back) /\ sock.valid /\ f = "data"
  BY <1>1, <1>3, <1>4, <1>5, <1>6, InvalidateOrders
<1>7. CASE /\ loop' = back /\ UNCHANGED <<sock, active, source, net>>
           /\ sock.valid => ~(f = "data" /\ z.item = End)
  <2>1. Receiving'
    BY <1>1, <1>3, <1>4, <1>5, <1>7
       DEF OrderInv, Receiving, ReadType, Types
  <2>2. \A m \in SocketLoops : ToConnect(m)' => ToConnect(m)
    BY <1>4, <1>5, <1>7, <1>11 DEF ToConnect
  <2>3. Connecting'
    BY <1>1, <1>7, <2>2 DEF OrderInv, Connecting
  <2>4. ASSUME NEW m \in SocketLoops, sock.kind.loops = {m}
        PROVE  Keeping(m)' /\ Ending(m)'
    <3>1. m = l
      BY <1>1, <2>4
    <3>2. InHand(l)' = InHand(l)
      <4>1. CASE f = "connect"
        <5>1. rest \cap {"data", "accept"} = z.due \cap {"data", "accept"}
          BY <1>3, <4>1
        <5> QED
          BY <1>1, <1>4, <1>5, <1>7, <4>1, <5>1 DEF InHand
      <4>2. CASE f # "connect"
        <5>1. "connect" \notin z.due
          BY <4>2 DEF First
        <5>2. rest \cap {"data", "accept"} = {}
          BY <1>1, <1>3, <5>1, TypesOfOne DEF ReadTypes
        <5> QED
          BY <1>1, <1>4, <1>5, <1>7, <4>2, <5>2 DEF InHand
      <4> QED
        BY <4>1, <4>2
    <3>3. Kept(l)' = Kept(l)
      BY <1>1, <1>7, <3>2 DEF Kept, Rest, Held
    <3>4. Keeping(l)'
      BY <1>7, <2>4, <3>1, <3>3
         DEF OrderInv, Keeping, Numbered, ReadType, Types
    <3>5. Ending(l)'
      BY <1>1, <1>7, <2>4, <3>1, <3>2 DEF OrderInv, Ending
    <3> QED
      BY <3>1, <3>4, <3>5
  <2> QED
    BY <1>7, <2>1, <2>3, <2>4 DEF OrderInv
<1>8. CASE Invalidate(back) /\ ~sock.valid
  BY <1>7, <1>8 DEF Invalidate
<1> QED
  BY <1>2, <1>6, <1>7, <1>8

LEMMA FinishOrders ==
  ASSUME OrderInv, SocketInv', NEW l \in SocketLoops, Finish(l)
  PROVE  OrderInv'
<1>1. /\ loop[l].at = "perform" /\ loop[l].due = {} /\ UNCHANGED <<manager, net>>
      /\ loop \in [SocketLoops -> Looper] /\ sock \in Sock /\ active \in Active
      /\ calls \in Calls
  BY TypesAre DEF OrderInv, SocketInv, Finish
<1>2. CASE sock.valid /\ sock.queue # <<>>
  <2>1. /\ UNCHANGED <<sock, active, calls>>
        /\ loop' = [loop EXCEPT ![l].at = "choose", ![l].runLoops = sock.runLoops]
    BY <1>2 DEF Finish
  <2>2. \A m \in SocketLoops : Quiet(m)
    BY <1>1, <2>1 DEF Quiet, Looper
  <2> QED
    BY <1>1, <2>1, <2>2, HoldsWhileReading, OrderStays DEF OrderInv
<1>3. CASE ~(sock.valid /\ sock.queue # <<>>)
  <2>1. EnableAgain(l) /\ loop' = [loop EXCEPT ![l] = Performed(l)]
    BY <1>3 DEF Finish
  <2>2. Performed(l).at = "run" /\ Performed(l).due = {}
    BY <1>1, PerformedFields
  <2>3. \A m \in SocketLoops : Quiet(m)
    BY <1>1, <2>1, <2>2 DEF Quiet
  <2>4. FALSE \in BOOLEAN
    OBVIOUS
  <2>5. /\ sock'.kind = sock.kind /\ sock'.valid = sock.valid
        /\ sock'.queue = sock.queue /\ (sock.connected => sock'.connected)
    BY <1>1, <2>1, <2>4, EnabledOrder DEF EnableAgain
  <2>6. UNCHANGED <<calls.given, calls.connects>>
    BY <1>1, <2>1 DEF EnableAgain, Calls
  <2> QED
    BY <1>1, <2>3, <2>5, <2>6, HoldsWhileReading, OrderStays DEF OrderInv
<1> QED
  BY <1>2, <1>3

LEMMA ReenableOrders ==
  ASSUME OrderInv, SocketInv', NEW l \in SocketLoops, Reenable(l)
  PROVE  OrderInv'
<1>1. /\ loop[l].at = "enable" /\ EnableAgain(l) /\ loop' = Goto(l, "wake")
      /\ UNCHANGED <<manager, source, net>>
      /\ loop \in [SocketLoops -> Looper] /\ sock \in Sock /\ active \in Active
      /\ calls \in Calls
  BY TypesAre DEF OrderInv, SocketInv, Reenable
<1>2. /\ loop'[l].at = "wake" /\ loop'[l].due = loop[l].due
      /\ \A m \in SocketLoops \ {l} : loop'[m] = loop[m]
  BY <1>1, GotoFields
<1>3. \A m \in SocketLoops : Quiet(m)
  BY <1>1, <1>2 DEF Quiet
<1>4. FALSE \in BOOLEAN
  OBVIOUS
<1>5. /\ sock'.kind = sock.kind /\ sock'.valid = sock.valid
      /\ sock'.queue = sock.queue /\ (sock.connected => sock'.connected)
  BY <1>1, <1>4, EnabledOrder DEF EnableAgain
<1>6. UNCHANGED <<calls.given, calls.connects>>
  BY <1>1 DEF EnableAgain, Calls
<1> QED
  BY <1>1, <1>3, <1>5, <1>6, HoldsWhileReading, OrderStays DEF OrderInv

LEMMA ChooseOtherOrders ==
  ASSUME OrderInv, SocketInv', NEW l \in SocketLoops, ChooseOther(l)
  PROVE  OrderInv'
<1>1. /\ loop[l].at = "choose" /\ loop \in [SocketLoops -> Looper]
      /\ UNCHANGED <<sock, active, manager, source, net, calls>>
  BY TypesAre DEF OrderInv, SocketInv, ChooseOther
<1>2. \/ loop' = Goto(l, "enable")
      \/ \E k : loop' = [loop EXCEPT ![l].at = "enable", ![l].runLoops = {k}]
  BY DEF ChooseOther
<1>3. /\ loop'[l].at = "enable" /\ loop'[l].due = loop[l].due
      /\ \A m \in SocketLoops \ {l} : loop'[m] = loop[m]
  <2>1. CASE loop' = Goto(l, "enable")
    BY <1>1, <2>1, GotoFields
  <2>2. ASSUME NEW k, loop' = [loop EXCEPT ![l].at = "enable", ![l].runLoops = {k}]
        PROVE  /\ loop'[l].at = "enable" /\ loop'[l].due = loop[l].due
               /\ \A m \in SocketLoops \ {l} : loop'[m] = loop[m]
    BY <1>1, <2>2 DEF Looper
  <2> QED
    BY <1>2, <2>1, <2>2
<1>4. \A m \in SocketLoops : Quiet(m)
  BY <1>1, <1>3 DEF Quiet
<1> QED
  BY <1>1, <1>4, HoldsWhileReading, OrderStays DEF OrderInv

LEMMA WakeOtherOrders ==
  ASSUME OrderInv, SocketInv', NEW l \in SocketLoops, WakeOther(l)
  PROVE  OrderInv'
<1> DEFINE f == [loop EXCEPT ![l] = Performed(l)]
<1>1. /\ loop[l].at = "wake" /\ loop' = WakeUp(f, loop[l].runLoops)
      /\ UNCHANGED <<sock, active, manager, source, net, calls>>
      /\ loop \in [SocketLoops -> Looper]
  BY TypesAre DEF OrderInv, SocketInv, WakeOther
<1>2. /\ Performed(l) \in Looper /\ Performed(l).at = "run"
      /\ Performed(l).due = {}
  BY <1>1, PerformedFields
<1>3. /\ f \in [SocketLoops -> Looper] /\ f[l] = Performed(l)
      /\ \A m \in SocketLoops \ {l} : f[m] = loop[m]
  BY <1>1, <1>2
<1> HIDE DEF f
<1>4. \A m \in SocketLoops :
        /\ loop'[m].at = f[m].at /\ loop'[m].due = f[m].due
        /\ loop'[m].item = f[m].item
  BY <1>1, <1>3, WakeUpFields
<1>5. \A m \in SocketLoops : Quiet(m)
  BY <1>1, <1>2, <1>3, <1>4 DEF Quiet
<1> QED
  BY <1>1, <1>5, HoldsWhileReading, OrderStays DEF OrderInv

-----------------------------------------------------------------------------
(* The other end.                                                           *)

LEMMA NetStepOrders ==
  ASSUME OrderInv, SocketInv', NetStep PROVE OrderInv'
<1>1. /\ net \in Net /\ sock.valid /\ net.sent \in Nat /\ net.inbox \in Seq(Nat)
      /\ UNCHANGED <<sock, active, manager, source, loop, calls>>
  BY TypesAre, PartsAreSeqs DEF OrderInv, SocketInv, NetStep
<1>2. CASE UNCHANGED <<net.inbox, net.sent>> /\ (net.ended => net'.ended)
  <2>1. \A l \in SocketLoops : Quiet(l)
    BY <1>1 DEF Quiet
  <2> QED
    BY <1>1, <1>2, <2>1, HoldsWhileReading, OrderStays DEF OrderInv
<1>3. CASE /\ ~net.ended
           /\ net' = [net EXCEPT !.sent = net.sent + 1,
                                 !.inbox = Append(net.inbox, net.sent + 1)]
  <2> DEFINE n == net.sent + 1
             x == Append(net.inbox, n)
  <2>1. n \in Nat /\ x \in Seq(Nat)
    BY <1>1, AppendProperties
  <2> HIDE DEF n, x
  <2>2. net'.sent = n /\ net'.inbox = x /\ ~net'.ended
    BY <1>1, <1>3, <2>1 DEF Net, n, x
  <2>3. Receiving' /\ Connecting'
    BY <1>1, <2>2
       DEF OrderInv, Receiving, Connecting, ToConnect, ReadType, Types
  <2>4. ASSUME NEW l \in SocketLoops, sock.kind.loops = {l}
        PROVE  Keeping(l)' /\ Ending(l)'
    <3> DEFINE g == calls.given \o InHand(l)
               q == sock.queue \o Held
               k == Kept(l)
    <3>1. /\ g \in Seq(Nat) /\ q \in Seq(Nat) /\ k \in Seq(Nat)
      BY PartsAreSeqs, Concatenates DEF OrderInv, SocketInv
    <3>2. k = g \o (q \o net.inbox) /\ Kept(l)' = g \o (q \o x)
      BY <1>1, <2>2 DEF Kept, Rest, Held, InHand
    <3> HIDE DEF g, q
    <3>3. Kept(l)' = Append(k, n)
      <4> DEFINE y == net.inbox
      <4>1. g \in Seq(Nat) /\ q \in Seq(Nat) /\ y \in Seq(Nat) /\ n \in Nat
        BY <1>1, <2>1, <3>1
      <4> HIDE DEF y
      <4>2. g \o (q \o Append(y, n)) = Append(g \o (q \o y), n)
        BY <4>1, ItemSent
      <4> QED
        BY <3>2, <4>2 DEF x, y
    <3>4. Numbered(k, net.sent) /\ net.sent <= Len(k) /\ Len(k) <= net.sent
      BY <1>1, <1>3, <2>4 DEF OrderInv, Keeping
    <3> HIDE DEF k
    <3>5. Len(k) = net.sent /\ Len(Append(k, n)) = n
      BY <1>1, <2>1, <3>1, <3>4, LenProperties, AppendProperties DEF n
    <3>6. Numbered(Append(k, n), n)
      BY <1>1, <2>1, <3>1, <3>4, <3>5, NumberedAppend DEF n
    <3>7. Keeping(l)'
      BY <2>1, <2>2, <3>3, <3>5, <3>6 DEF Keeping, Numbered
    <3>8. Ending(l)'
      BY <1>1, <2>4 DEF OrderInv, Ending, InHand
    <3> QED
      BY <3>7, <3>8
  <2> QED
    BY <1>1, <2>3, <2>4 DEF OrderInv
<1>4. \/ UNCHANGED <<net.inbox, net.sent>> /\ (net.ended => net'.ended)
      \/ /\ ~net.ended
         /\ net' = [net EXCEPT !.sent = net.sent + 1,
                               !.inbox = Append(net.inbox, net.sent + 1)]
  BY <1>1 DEF NetStep, Net
<1> QED
  BY <1>2, <1>3, <1>4

LEMMA ClientInvalidateOrders ==
  ASSUME OrderInv, SocketInv', CFSocketInvalidate PROVE OrderInv'
<1>1. /\ loop \in [SocketLoops -> Looper] /\ sock.valid /\ Invalidate(loop)
      /\ UNCHANGED <<manager, calls>>
  BY TypesAre DEF OrderInv, SocketInv, CFSocketInvalidate
<1> QED
  BY <1>1, InvalidateOrders

-----------------------------------------------------------------------------

LEMMA OrderInit ==
  SocketInit => OrderInv
<1> SUFFICES ASSUME SocketInit PROVE OrderInv
  OBVIOUS
<1>1. PICK k \in SocketKinds :
        /\ sock = [kind |-> k, valid |-> TRUE, connected |-> FALSE,
                   error |-> FALSE, disabled |-> {}, signalled |-> {},
                   setCount |-> 0, runLoops |-> {}, queue |-> <<>>]
        /\ manager = [at |-> "copy", watch |-> {}, found |-> {}, error |-> FALSE,
                      item |-> NoItem, runLoops |-> {}]
        /\ loop = [l \in SocketLoops |-> NotPerforming]
        /\ net = [inbox |-> <<>>, sent |-> 0, ended |-> FALSE, room |-> TRUE,
                  link |-> IF "connect" \in k.types THEN "trying" ELSE "up"]
        /\ calls = [given |-> <<>>, connects |-> 0, left |-> {}]
  BY DEF SocketInit
<1>2. /\ sock.valid /\ sock.queue = <<>> /\ manager.item = NoItem
      /\ net.inbox = <<>> /\ net.sent = 0 /\ calls.given = <<>>
      /\ calls.connects = 0
      /\ \A l \in SocketLoops : loop[l].at = "out" /\ loop[l].due = {}
  BY <1>1 DEF NotPerforming
<1>3. SocketInv
  BY SocketInitInv
<1>4. Receiving /\ Connecting
  BY <1>2 DEF Receiving, Connecting, ToConnect
<1>5. ASSUME NEW l \in SocketLoops PROVE Keeping(l) /\ Ending(l)
  <2> DEFINE none == <<>>
  <2>1. none \in Seq(Nat) /\ none \o none = none /\ Len(none) = 0
    BY ConcatEmptySeq
  <2>2. Kept(l) = none \o none \o (none \o none \o none)
    BY <1>2 DEF Kept, Rest, Held, InHand
  <2>3. Kept(l) = none
    BY <2>1, <2>2
  <2>4. Len(Kept(l)) = 0 /\ Len(calls.given) = 0
    BY <1>2, <2>3
  <2> QED
    BY <1>2, <2>4 DEF Keeping, Ending, Numbered
<1> QED
  BY <1>3, <1>4, <1>5 DEF OrderInv

LEMMA OrderStep ==
  OrderInv /\ [SocketNext]_socketVars => OrderInv'
<1> SUFFICES ASSUME OrderInv, [SocketNext]_socketVars PROVE OrderInv'
  OBVIOUS
<1>1. SocketInv'
  BY SocketStep DEF OrderInv
<1>2. CASE ClientStep
  BY <1>1, <1>2, EnableCallBacksOrders, DisableCallBacksOrders,
     ClientInvalidateOrders, ScheduleOrders, CancelOrders DEF ClientStep
<1>3. CASE ManagerStep
  BY <1>1, <1>3, CopyFdsOrders, SelectOrders, CollectOrders, GetErrorOrders,
     HandleWriteOrders, ReceiveOrders, HandleReadOrders, ChooseLoopOrders,
     WakeLoopOrders DEF ManagerStep
<1>4. CASE NetStep
  BY <1>1, <1>4, NetStepOrders
<1>5. ASSUME NEW l \in SocketLoops, LoopStep(l) PROVE OrderInv'
  BY <1>1, <1>5, RunLoopStepOrders, TakeSignalsOrders, CallOutOrders,
     ReadItemOrders, ReturnedOrders, FinishOrders, ChooseOtherOrders,
     ReenableOrders, WakeOtherOrders DEF LoopStep
<1>6. CASE UNCHANGED socketVars
  <2>1. UNCHANGED <<sock, active, manager, source, loop, net, calls>>
    BY <1>6 DEF socketVars
  <2> QED
    BY <1>1, <2>1, HoldsWhileReading, OrderStaysHere DEF OrderInv
<1> QED
  BY <1>2, <1>3, <1>4, <1>5, <1>6 DEF SocketNext

LEMMA OrderAlways == SocketSpec => []OrderInv
BY OrderInit, OrderStep, PTL DEF SocketSpec

LEMMA InvGivesOrder == OrderInv => GivenInOrder
<1> SUFFICES ASSUME OrderInv, NEW l \in SocketLoops, sock.kind.loops = {l}
             PROVE  /\ \A i \in DOMAIN Whole(l) :
                         Whole(l)[i] = IF i <= net.sent THEN i ELSE End
                    /\ sock.valid => net.sent <= Len(Whole(l))
                    /\ \A i \in DOMAIN calls.given :
                         calls.given[i] = End => i = Len(calls.given)
  BY DEF OrderInv, Connecting, GivenInOrder
<1> DEFINE g == calls.given
           h == InHand(l)
           q == sock.queue
           x == net.inbox
           m == Held
<1>1. /\ g \in Seq(Nat) /\ h \in Seq(Nat) /\ q \in Seq(Nat) /\ x \in Seq(Nat)
      /\ m \in Seq(Nat) /\ Rest \in Seq(Nat) /\ net.sent \in Nat
      /\ Kept(l) \in Seq(Nat) /\ g \o h \in Seq(Nat)
  BY PartsAreSeqs DEF OrderInv, SocketInv
<1>2. Numbered(Kept(l), net.sent) /\ (sock.valid => net.sent <= Len(Kept(l)))
  BY DEF OrderInv, Keeping
<1>3. /\ Whole(l) \in Seq(Nat) /\ Numbered(Whole(l), net.sent)
      /\ sock.valid => net.sent <= Len(Whole(l))
  <2>1. CASE sock.valid
    <3>1. Whole(l) = g \o (h \o q \o m \o x)
      BY <2>1 DEF Whole, Held
    <3>2. Kept(l) = g \o h \o (q \o m \o x)
      BY <2>1 DEF Kept, Rest
    <3> HIDE DEF g, h, q, x, m
    <3>3. /\ g \in Seq(Nat) /\ h \in Seq(Nat) /\ q \in Seq(Nat)
          /\ x \in Seq(Nat) /\ m \in Seq(Nat)
      BY <1>1
    <3> DEFINE u == q \o m
               v == u \o x
    <3>4. u \in Seq(Nat)
      BY <3>3, Concatenates
    <3>5. (h \o q) \o m = h \o u
      BY <3>3, Associates, Zenon
    <3> HIDE DEF u
    <3>6. v \in Seq(Nat)
      BY <3>3, <3>4, Concatenates
    <3>7. (h \o u) \o x = h \o v
      BY <3>3, <3>4, Associates, Zenon
    <3> HIDE DEF v
    <3>8. (g \o h) \o v = g \o (h \o v)
      BY <3>3, <3>6, Associates, Zenon
    <3>9. Whole(l) = Kept(l)
      BY <3>1, <3>2, <3>5, <3>7, <3>8 DEF u, v
    <3> QED
      BY <1>1, <1>2, <3>9
  <2>2. CASE ~sock.valid
    <3>1. Whole(l) = g
      BY <1>1, <2>2, ConcatEmptySeq DEF Whole
    <3>2. Numbered(g \o h, net.sent)
      BY <1>1, <1>2, NumberedPrefix DEF Kept
    <3>3. Numbered(g, net.sent)
      BY <1>1, <3>2, NumberedPrefix
    <3> QED
      BY <1>1, <2>2, <3>1, <3>3
  <2> QED
    BY <2>1, <2>2
<1>4. /\ DOMAIN Whole(l) = 1..Len(Whole(l))
      /\ DOMAIN g = 1..Len(g)
  BY <1>1, <1>3, LenProperties
<1>5. Ending(l)
  BY DEF OrderInv
<1> QED
  BY <1>3, <1>4, <1>5 DEF Numbered, Ending

\* What the other end sends to a socket of one loop is in the native socket, in
\* the hands of __CFSocketHandleRead, in _dataQueue or in those of
\* __CFSocketPerformV0, without a gap and in order, until the client is given
\* it; the end comes last, once; and a connection is told at most once, however
\* many loops perform the source.
THEOREM ItemsAreGivenInOrder == SocketSpec => []GivenInOrder
BY OrderAlways, InvGivesOrder, PTL
=============================================================================
