------------------------------- MODULE Socket -------------------------------
(* CFSocket.c (its second half: NEW_SOCKET is 0), for one socket.  A manager *)
(* thread waits in select on copies of two fd sets; what it finds it hands   *)
(* to a version 0 source, which run loops perform, and which asks the        *)
(* manager to listen again.  A critical section of the socket's lock, with   *)
(* that of __CFActiveSocketsLock inside it, is one step.                     *)
EXTENDS Naturals, FiniteSets, Sequences

CONSTANTS SocketLoops,  \* run loops, each with the thread that runs it
          SocketKinds,  \* how a socket is made and used
          MaxQueue,     \* bound: the queue's length when its end is received
          NoItem

ReadTypes  == {"read", "accept", "data"}
WriteTypes == {"connect", "write"}
Sets       == {"read", "write"}
End        == 0         \* data of length zero; what is sent is numbered from 1

\* The types of callbacks and those enabled again by themselves
\* (CFSocketSetSocketFlags), whether the socket is connection-oriented, the
\* loops that use it, and how many items the other end may send (a bound).
ASSUME SocketAssumption ==
  /\ NoItem \notin Nat
  /\ SocketKinds \subseteq
       [types : SUBSET (ReadTypes \cup WriteTypes),
        flags : SUBSET (ReadTypes \cup {"write"}),
        oriented : BOOLEAN, loops : SUBSET SocketLoops, sends : Nat]
  /\ \A k \in SocketKinds : /\ k.flags \subseteq k.types
                             /\ Cardinality(k.types \cap ReadTypes) <= 1

VARIABLES
  sock,         \* the socket
  active,       \* what __CFActiveSocketsLock guards, and the wake-up sockets
  manager,      \* where __CFSocketManager is, with its locals
  source,       \* the source's signaled bit and the loops that it is in
  loop,         \* where each loop is, in or out of __CFSocketPerformV0
  net,          \* the native socket and its other end
  calls         \* history: what callbacks were given, and the types that
                \* only CFSocketEnableCallBacks will enable again

socketVars == <<sock, active, manager, source, loop, net, calls>>

SocketTypeOK ==
  LET AnyTypes == SUBSET (ReadTypes \cup WriteTypes)
      Item     == Nat \cup {NoItem}
  IN
  /\ sock \in [kind : SocketKinds, valid : BOOLEAN, connected : BOOLEAN,
               error : BOOLEAN, disabled : AnyTypes, signalled : SUBSET Sets,
               setCount : Nat, runLoops : SUBSET SocketLoops, queue : Seq(Nat)]
  /\ active \in [fds : SUBSET Sets, arrays : SUBSET Sets, wake : BOOLEAN]
  /\ manager \in [at : {"copy", "select", "collect", "getError", "write",
                        "receive", "read", "choose", "wake"},
                  watch : SUBSET Sets, found : SUBSET Sets, error : BOOLEAN,
                  item : Item, runLoops : SUBSET SocketLoops]
  /\ source \in [signaled : BOOLEAN, in : SUBSET SocketLoops]
  /\ loop \in [SocketLoops ->
       [at : {"out", "run", "asleep", "entered", "perform", "callout",
              "choose", "enable", "wake"},
        woken : BOOLEAN, item : Item, due : AnyTypes, called : BOOLEAN,
        again : AnyTypes, runLoops : SUBSET SocketLoops]]
  /\ net \in [inbox : Seq(Nat), sent : Nat, ended : BOOLEAN,
              link : {"trying", "up", "failed", "told"}, room : BOOLEAN]
  /\ calls \in [given : Seq(Nat), connects : Nat, left : AnyTypes]

Types    == sock.kind.types
Flags    == sock.kind.flags             \* _f.client
ReadType == Types \cap ReadTypes        \* none, or one

IsScheduled(s) == s.setCount > 0

NotPerforming ==
  [at |-> "out", woken |-> FALSE, item |-> NoItem, due |-> {},
   called |-> FALSE, again |-> {}, runLoops |-> {}]

\* _CFSocketCreateWithNative, and a connection that has been asked for.
SocketInit ==
  \E k \in SocketKinds :
    /\ sock = [kind |-> k, valid |-> TRUE, connected |-> FALSE,
               error |-> FALSE, disabled |-> {}, signalled |-> {},
               setCount |-> 0, runLoops |-> {}, queue |-> <<>>]
    /\ active = [fds |-> {}, arrays |-> {}, wake |-> FALSE]
    /\ manager = [at |-> "copy", watch |-> {}, found |-> {}, error |-> FALSE,
                  item |-> NoItem, runLoops |-> {}]
    /\ source = [signaled |-> FALSE, in |-> {}]
    /\ loop = [l \in SocketLoops |-> NotPerforming]
    /\ net = [inbox |-> <<>>, sent |-> 0, ended |-> FALSE, room |-> TRUE,
              link |-> IF "connect" \in k.types THEN "trying" ELSE "up"]
    /\ calls = [given |-> <<>>, connects |-> 0, left |-> {}]

-----------------------------------------------------------------------------
(* The fd sets.  A change of one is told to the manager, by a byte; several  *)
(* bytes are as good as one.                                                 *)

\* Mutant: the manager is not told.
SetFDsQuietly(a, sets) == [a EXCEPT !.fds = @ \cup sets]

SetFDs(a, sets) ==
  [a EXCEPT !.fds = @ \cup sets, !.wake = @ \/ ~(sets \subseteq a.fds)]

ClearFDs(a, sets) ==
  [a EXCEPT !.fds = @ \ sets, !.wake = @ \/ sets \cap a.fds # {}]

\* The socket leaves the manager's arrays.
LeaveArrays(a) == [ClearFDs(a, a.arrays) EXCEPT !.arrays = {}]

\* Whether no connection is waited for, or has been.
Settled(s) ==
  s.connected \/ "accept" \in s.kind.types \/ ~s.kind.oriented

\* __CFSocketEnableCallBacks, for socket s and fd sets a.
EnableCallBacks(s, a, types, force) ==
  LET on       == types \cap s.kind.types
      disabled == IF force THEN s.disabled \ on ELSE s.disabled
      settled  == Settled(s)
      write    == IF settled \/ "connect" \notin on THEN "write" ELSE "connect"
      sets     == {x \in Sets :
                     IF x = "write" THEN write \in on \ disabled
                     ELSE /\ on \cap ReadTypes # {}
                          /\ disabled \cap {"read", "data"} = {}}
  IN  IF types # {} /\ s.valid /\ IsScheduled(s)
      THEN /\ sock' = [s EXCEPT !.disabled = disabled, !.connected = settled]
           /\ active' = SetFDs([a EXCEPT !.arrays =
                                  IF force THEN @ \cup sets ELSE @], sets)
      ELSE sock' = s /\ active' = a

-----------------------------------------------------------------------------
(* Calls of clients, from any thread.                                        *)

CFSocketEnableCallBacks(types) ==
  /\ EnableCallBacks(sock, active, types, TRUE)
  /\ calls' = IF IsScheduled(sock) THEN [calls EXCEPT !.left = @ \ types]
                                   ELSE calls
  /\ UNCHANGED <<manager, source, loop, net>>

CFSocketDisableCallBacks(types) ==
  /\ sock.valid /\ IsScheduled(sock)
  /\ sock' = [sock EXCEPT !.disabled = @ \cup types,
                          !.connected = Settled(sock)]
  /\ active' = ClearFDs(active,
       {x \in Sets : IF x = "read" THEN types \cap ReadTypes # {}
                     ELSE \/ "write" \in types
                          \/ "connect" \in types /\ ~Settled(sock)})
  /\ UNCHANGED <<manager, source, loop, net, calls>>

WakeUp(loops, ls) ==
  [l \in SocketLoops |-> [loops[l] EXCEPT !.woken =
                       @ \/ (l \in ls /\ loops[l].at # "out")]]

\* CFSocketInvalidate with the source's invalidation, which calls
\* __CFSocketCancel for each loop: nothing looks at more than the valid bit of
\* a socket that is not valid.  loops is the loops but for the waking.
Invalidate(loops) ==
  IF sock.valid
  THEN /\ sock' = [sock EXCEPT !.valid = FALSE, !.signalled = {},
                     !.queue = <<>>, !.runLoops = {},
                     !.setCount = 0]
       /\ active' = LeaveArrays(active)
       /\ source' = [signaled |-> FALSE, in |-> {}]
       /\ loop' = WakeUp(loops, sock.runLoops)
       /\ net' = [net EXCEPT !.inbox = <<>>]
  ELSE loop' = loops /\ UNCHANGED <<sock, active, source, net>>

CFSocketInvalidate ==
  /\ sock.valid
  /\ Invalidate(loop)
  /\ UNCHANGED <<manager, calls>>

\* A loop's thread is in its client's code.
InClient(l) == loop[l].at \in {"out", "run", "callout"}

\* CFRunLoopAddSource by the loop's own thread, with __CFSocketSchedule.
Schedule(l) ==
  LET s == [sock EXCEPT !.runLoops = @ \cup {l}, !.setCount = @ + 1]
  IN  /\ sock.valid /\ InClient(l) /\ l \in sock.kind.loops \ source.in
      /\ \/ /\ s.setCount = 1
            /\ EnableCallBacks(s, active, Types, TRUE)
            /\ calls' = [calls EXCEPT !.left = {}]
         \/ s.setCount > 1 /\ sock' = s /\ UNCHANGED <<active, calls>>
      /\ source' = [source EXCEPT !.in = @ \cup {l}]
      /\ UNCHANGED <<manager, loop, net>>

\* CFRunLoopRemoveSource by any thread, with __CFSocketCancel.
Cancel(l) ==
  /\ l \in source.in
  /\ sock' = [sock EXCEPT !.runLoops = @ \ {l}, !.setCount = @ - 1]
  /\ active' = IF sock'.setCount = 0 THEN LeaveArrays(active) ELSE active
  /\ source' = [source EXCEPT !.in = @ \ {l}]
  /\ UNCHANGED <<manager, loop, net, calls>>

-----------------------------------------------------------------------------
(* The manager.                                                              *)

Readable == sock.valid /\ (net.inbox # <<>> \/ net.ended)
Writable == /\ sock.valid
            /\ net.link \in {"failed", "told"} \/ (net.link = "up" /\ net.room)

CopyFds ==
  /\ manager.at = "copy"
  /\ manager' = [manager EXCEPT !.at = "select", !.watch = active.fds]
  /\ UNCHANGED <<sock, active, source, loop, net, calls>>

\* select, and the byte taken from the wake-up socket.
Select ==
  LET ready == {x \in manager.watch : IF x = "read" THEN Readable
                                                    ELSE Writable}
  IN  /\ manager.at = "select"
      /\ active.wake \/ ready # {}
      /\ manager' = [manager EXCEPT !.at = "collect", !.found = ready]
      /\ active' = [active EXCEPT !.wake = FALSE]
      /\ UNCHANGED <<sock, source, loop, net, calls>>

\* What the manager does about what it has found: first the write, then the
\* read.
Onward(found) ==
  [manager EXCEPT !.found = found, !.item = NoItem, !.runLoops = {},
                  !.error = FALSE, !.watch = {},
                  !.at = IF "write" \in found THEN "getError"
                         ELSE IF "read" \in found THEN "receive" ELSE "copy"]

\* Whichever of the two it was handling.
Handled == Onward(IF "write" \in manager.found THEN manager.found \ {"write"}
                                               ELSE {})

\* What is found leaves the fd sets, if the socket is still in the arrays.
Collect ==
  LET found == manager.found \cap active.arrays
  IN  /\ manager.at = "collect"
      /\ active' = [active EXCEPT !.fds = @ \ found]
      /\ manager' = Onward(found)
      /\ UNCHANGED <<sock, source, loop, net, calls>>

\* __CFSocketHandleWrite before its lock: getsockopt clears the error.
GetError ==
  /\ manager.at = "getError"
  /\ IF sock.valid
     THEN /\ manager' = [manager EXCEPT !.at = "write",
                                        !.error = net.link = "failed"]
          /\ net' = [net EXCEPT !.link = IF @ = "failed" THEN "told" ELSE @]
     ELSE manager' = Handled /\ UNCHANGED net
  /\ UNCHANGED <<sock, active, source, loop, calls>>

\* Signal the source for the socket s; the loop to wake is chosen later.
SignalSource(s) ==
  /\ sock' = s
  /\ source' = [source EXCEPT !.signaled = TRUE]
  /\ manager' = [manager EXCEPT !.at = "choose", !.runLoops = s.runLoops,
                                !.item = NoItem]

HandleWrite ==
  /\ manager.at = "write"
  /\ IF sock.valid /\ (Types \cap WriteTypes) \ sock.disabled # {}
     THEN SignalSource([sock EXCEPT !.signalled = @ \cup {"write"},
                                    !.error = manager.error])
     ELSE manager' = Handled /\ UNCHANGED <<sock, source>>
  /\ UNCHANGED <<active, loop, net, calls>>

\* __CFSocketHandleRead before its lock: recvfrom or accept, which may fail.
Receive ==
  /\ manager.at = "receive"
  /\ \/ ~sock.valid /\ manager' = Handled /\ UNCHANGED <<net, calls>>
     \/ /\ sock.valid /\ ReadType = {"read"}
        /\ manager' = [manager EXCEPT !.at = "read"]
        /\ UNCHANGED <<net, calls>>
     \/ /\ sock.valid /\ ReadType # {"read"} /\ net.inbox # <<>>
        /\ manager' = [manager EXCEPT !.at = "read", !.item = Head(net.inbox)]
        /\ net' = [net EXCEPT !.inbox = Tail(@)]
        /\ UNCHANGED calls
     \/ /\ sock.valid /\ ReadType = {"data"} /\ net.inbox = <<>> /\ net.ended
        /\ Len(sock.queue) < MaxQueue
        /\ manager' = [manager EXCEPT !.at = "read", !.item = End]
        /\ UNCHANGED <<net, calls>>
     \/ /\ sock.valid /\ ReadType = {"accept"}
        /\ manager' = Handled
        /\ calls' = [calls EXCEPT !.left = @ \cup {"accept"}]
        /\ UNCHANGED net
  /\ UNCHANGED <<sock, active, source, loop>>

\* Mutant: the socket may have left the loops meanwhile.
ListensAnyway ==
  manager.item # End /\ ReadType \subseteq Flags \ sock.disabled

\* Listen on if the client wants it, without waiting for the callback.
ListensOn ==
  /\ manager.item # End /\ ReadType \subseteq Flags \ sock.disabled
  /\ IsScheduled(sock)

HandleRead ==
  /\ manager.at = "read"
  /\ IF sock.valid /\ (ReadType = {"read"} => "read" \notin sock.disabled)
     THEN /\ SignalSource([sock EXCEPT
               !.signalled = @ \cup {"read"},
               !.queue = IF ReadType = {"read"} THEN @
                         ELSE Append(@, manager.item)])
          /\ active' = IF ReadType # {"read"} /\ ListensOn
                       THEN SetFDs(active, {"read"}) ELSE active
     ELSE manager' = Handled /\ UNCHANGED <<sock, source, active>>
  /\ UNCHANGED <<loop, net, calls>>

\* __CFSocketCopyRunLoopToWakeUp: of several loops one that waits with the
\* source in its mode, or else one that runs with it.  The array is turned, to
\* scramble them, which is left to chance here.
Choices(ls) ==
  LET running == {l \in ls : l \in source.in /\ loop[l].at # "out"}
      waiting == {l \in running : loop[l].at = "asleep"}
  IN  IF Cardinality(ls) = 1 \/ running = {} THEN ls
      ELSE IF waiting = {} THEN running ELSE waiting

ChooseLoop ==
  /\ manager.at = "choose"
  /\ \/ manager.runLoops = {} /\ manager' = Handled
     \/ \E l \in Choices(manager.runLoops) :
          manager' = [manager EXCEPT !.at = "wake", !.runLoops = {l}]
  /\ UNCHANGED <<sock, active, source, loop, net, calls>>

WakeLoop ==
  /\ manager.at = "wake"
  /\ loop' = WakeUp(loop, manager.runLoops)
  /\ manager' = Handled
  /\ UNCHANGED <<sock, active, source, net, calls>>

ManagerStep ==
  \/ CopyFds \/ Select \/ Collect \/ GetError \/ HandleWrite
  \/ Receive \/ HandleRead \/ ChooseLoop \/ WakeLoop

-----------------------------------------------------------------------------
(* Run loops (external: see RunLoop) and __CFSocketPerformV0.                *)

Goto(l, at) == [loop EXCEPT ![l].at = at]

RunLoopStep(l) ==
  /\ l \in sock.kind.loops
  /\ \/ loop[l].at = "out" /\ loop' = Goto(l, "run") /\ UNCHANGED source
     \/ loop[l].at = "run" /\ loop' = Goto(l, "out") /\ UNCHANGED source
     \/ /\ loop[l].at = "run" /\ source.signaled /\ l \in source.in
        /\ source' = [source EXCEPT !.signaled = FALSE]
        /\ loop' = Goto(l, "entered")
     \/ /\ loop[l].at = "run" /\ ~(source.signaled /\ l \in source.in)
        /\ loop' = Goto(l, "asleep") /\ UNCHANGED source
     \/ /\ loop[l].at = "asleep" /\ loop[l].woken
        /\ loop' = [loop EXCEPT ![l].at = "run", ![l].woken = FALSE]
        /\ UNCHANGED source
  /\ UNCHANGED <<sock, active, manager, net, calls>>

\* What is signalled, and the first item, are taken with the lock held.
TakeSignals(l) ==
  LET wrote == "write" \in sock.signalled
      item  == IF sock.queue = <<>> THEN NoItem ELSE Head(sock.queue)
      reads == IF ReadType = {"read"} THEN "read" \in sock.signalled
                                      ELSE item # NoItem
      due   == {x \in Types :
                  CASE x = "connect" -> wrote /\ ~sock.connected
                    [] x = "write"   -> wrote /\ ~sock.error
                    [] OTHER         -> reads}
  IN  /\ loop[l].at = "entered"
      /\ IF sock.valid
         THEN /\ loop' = [loop EXCEPT ![l] =
                   [@ EXCEPT !.at = "perform", !.due = due, !.item = item,
                      !.again = {x \in Types :
                                   \/ x \in ReadTypes
                                        /\ "read" \in sock.signalled
                                   \/ x = "write" /\ wrote}]]
              /\ sock' = [sock EXCEPT !.signalled = {},
                            !.connected = @ \/ wrote,
                            !.queue = IF @ = <<>> THEN @ ELSE Tail(@)]
         ELSE loop' = Goto(l, "run") /\ UNCHANGED sock
      /\ UNCHANGED <<active, manager, source, net, calls>>

\* __CFSocketDoCallback calls out in this order.
First(due) ==
  IF "connect" \in due THEN "connect"
  ELSE IF due \cap ReadTypes # {} THEN CHOOSE x \in due : x \in ReadTypes
  ELSE "write"

CallOut(l) ==
  /\ loop[l].at = "perform" /\ loop[l].due # {}
  /\ IF loop[l].called /\ ~sock.valid
     THEN loop' = [loop EXCEPT ![l].due = {}] /\ UNCHANGED calls
     ELSE LET x == First(loop[l].due)
          IN  /\ loop' = Goto(l, "callout")
              /\ calls' = [calls EXCEPT
                   !.connects = IF x = "connect" THEN @ + 1 ELSE @,
                   !.given = IF x \in {"data", "accept"}
                             THEN Append(@, loop[l].item) ELSE @]
  /\ UNCHANGED <<sock, active, manager, source, net>>

\* The client reads, having been told that it can.
ReadItem(l) ==
  /\ loop[l].at = "callout" /\ First(loop[l].due) = "read"
  /\ net.inbox # <<>>
  /\ net' = [net EXCEPT !.inbox = Tail(@)]
  /\ calls' = [calls EXCEPT !.given = Append(@, Head(net.inbox))]
  /\ UNCHANGED <<sock, active, manager, source, loop>>

\* Mutant: it does not.
ReturnedOn(l) ==
  /\ loop[l].at = "callout"
  /\ loop' = [loop EXCEPT ![l].at = "perform", ![l].called = TRUE,
                          ![l].due = @ \ {First(loop[l].due)}]
  /\ UNCHANGED <<sock, active, manager, source, net, calls>>

\* Data of length zero invalidates the socket.
Returned(l) ==
  LET x    == First(loop[l].due)
      back == [loop EXCEPT ![l].at = "perform", ![l].called = TRUE,
                           ![l].due = @ \ {x}]
  IN  /\ loop[l].at = "callout"
      /\ IF x = "data" /\ loop[l].item = End
         THEN Invalidate(back)
         ELSE loop' = back /\ UNCHANGED <<sock, active, source, net>>
      /\ UNCHANGED <<manager, calls>>

\* Back in the loop, as it was before the source was performed.
Performed(l) == [NotPerforming EXCEPT !.at = "run", !.woken = loop[l].woken]

\* Types that have signalled are enabled again, if they are to be by themselves.
EnableAgain(l) ==
  /\ EnableCallBacks(sock, active, loop[l].again \cap Flags, FALSE)
  /\ calls' = [calls EXCEPT !.left = @ \cup (loop[l].again \ Flags)]

\* Items that are left signal the source again at once.
Finish(l) ==
  /\ loop[l].at = "perform" /\ loop[l].due = {}
  /\ IF sock.valid /\ sock.queue # <<>>
     THEN /\ source' = [source EXCEPT !.signaled = TRUE]
          /\ loop' = [loop EXCEPT ![l].at = "choose",
                                  ![l].runLoops = sock.runLoops]
          /\ UNCHANGED <<sock, active, calls>>
     ELSE /\ EnableAgain(l)
          /\ loop' = [loop EXCEPT ![l] = Performed(l)]
          /\ UNCHANGED source
  /\ UNCHANGED <<manager, net>>

ChooseOther(l) ==
  /\ loop[l].at = "choose"
  /\ \/ loop[l].runLoops = {} /\ loop' = Goto(l, "enable")
     \/ \E m \in Choices(loop[l].runLoops) :
          loop' = [loop EXCEPT ![l].at = "enable", ![l].runLoops = {m}]
  /\ UNCHANGED <<sock, active, manager, source, net, calls>>

Reenable(l) ==
  /\ loop[l].at = "enable"
  /\ EnableAgain(l)
  /\ loop' = Goto(l, "wake")
  /\ UNCHANGED <<manager, source, net>>

WakeOther(l) ==
  /\ loop[l].at = "wake"
  /\ loop' = WakeUp([loop EXCEPT ![l] = Performed(l)], loop[l].runLoops)
  /\ UNCHANGED <<sock, active, manager, source, net, calls>>

LoopStep(l) ==
  \/ RunLoopStep(l) \/ TakeSignals(l) \/ CallOut(l) \/ ReadItem(l)
  \/ Returned(l) \/ Finish(l) \/ ChooseOther(l) \/ Reenable(l) \/ WakeOther(l)

-----------------------------------------------------------------------------
(* The other end, and the kernel (external).                                 *)

\* It sends, and ends, only if the socket reads.
NetStep ==
  /\ sock.valid
  /\ \/ /\ net.link = "up" /\ ~net.ended /\ net.sent < sock.kind.sends
        /\ net' = [net EXCEPT !.sent = @ + 1,
                              !.inbox = Append(@, net.sent + 1)]
     \/ /\ net.link = "up" /\ ~net.ended /\ ReadType \in {{"read"}, {"data"}}
        /\ net' = [net EXCEPT !.ended = TRUE]
     \/ /\ net.link = "trying"
        /\ net' = [net EXCEPT !.link = "up"]
     \/ /\ net.link = "trying"
        /\ net' = [net EXCEPT !.link = "failed", !.ended = TRUE]
     \/ /\ net.link = "up" /\ "write" \in Types
        /\ net' = [net EXCEPT !.room = ~@]
  /\ UNCHANGED <<sock, active, manager, source, loop, calls>>

ClientStep ==
  \/ \E x \in Types :
       CFSocketEnableCallBacks({x}) \/ CFSocketDisableCallBacks({x})
  \/ CFSocketInvalidate
  \/ \E l \in SocketLoops : Schedule(l) \/ Cancel(l)

SocketNext ==
  \/ ClientStep \/ ManagerStep \/ NetStep
  \/ \E l \in SocketLoops : LoopStep(l)

SocketSpec == SocketInit /\ [][SocketNext]_socketVars

-----------------------------------------------------------------------------
\* An item that a callback is about to be given.
InHand(l) ==
  IF /\ loop[l].at \in {"perform", "callout"}
     /\ loop[l].due \cap {"data", "accept"} # {}
     /\ loop[l].at = "callout" => First(loop[l].due) = "connect"
  THEN <<loop[l].item>> ELSE <<>>

\* All that was sent, where it is now: given, or on its way to loop l.
Whole(l) ==
  LET held == IF manager.item = NoItem THEN <<>> ELSE <<manager.item>>
  IN  calls.given \o IF sock.valid
                     THEN InHand(l) \o sock.queue \o held \o net.inbox
                     ELSE <<>>

\* __CFSocketHandleRead to __CFSocketDoCallback: the end of the connecting is
\* told once.  A socket that one loop uses gives its client what was sent, in
\* order and all of it as long as the socket is valid, and the end once, last:
\* "zero-length data is the signal for perform to invalidate".
GivenInOrder ==
  /\ calls.connects <= 1
  /\ \A l \in SocketLoops : sock.kind.loops = {l} =>
       /\ \A i \in DOMAIN Whole(l) :
            Whole(l)[i] = IF i <= net.sent THEN i ELSE End
       /\ sock.valid => net.sent <= Len(Whole(l))
       /\ \A i \in DOMAIN calls.given :
            calls.given[i] = End => i = Len(calls.given)

\* The types that a client relies on without another call of
\* CFSocketEnableCallBacks.  (The fd set for writing serves two types:
\* disabling the one clears it for the other.)
Awaited ==
  {x \in Types \ (sock.disabled \cup calls.left) :
     /\ sock.valid /\ IsScheduled(sock)
     /\ \/ x \in ReadTypes
        \/ x = "connect" /\ ~sock.connected /\ "write" \notin sock.disabled}

SetOf(x) == IF x \in ReadTypes THEN "read" ELSE "write"

\* The manager will see that the socket is ready, or has seen it and not yet
\* said so.
Watched(set) ==
  \/ /\ set \in active.fds
     /\ manager.at = "select" => set \in manager.watch \/ active.wake
  \/ /\ set \in manager.found /\ manager.at # "collect"
     /\ \/ manager.at \in {"getError", "write", "receive", "read"}
        \/ set = "read" /\ "write" \in manager.found

Performing(l) == loop[l].at \in {"perform", "callout", "choose", "enable"}

\* __CFSocketManager, __CFSocketPerformV0: a type that a client relies on is
\* watched for, or signalled, or will be enabled again by the thread that
\* performs it.  What is signalled or queued has its source signaled, or a
\* thread about to look; and a loop that the source alone could wake is not
\* left asleep.
NothingForgotten ==
  /\ \A x \in Awaited :
       \/ Watched(SetOf(x))
       \/ SetOf(x) \in sock.signalled
       \/ \E l \in SocketLoops : Performing(l) /\ x \in loop[l].again
  /\ sock.valid /\ (sock.signalled # {} \/ sock.queue # <<>>) =>
       \/ source.signaled
       \/ \E l \in SocketLoops :
            loop[l].at \in {"entered", "perform", "callout"}
  /\ \A l \in SocketLoops :
       /\ sock.kind.loops = {l} /\ l \in source.in /\ source.signaled
       /\ loop[l].at = "asleep" /\ ~loop[l].woken
       => manager.at \in {"choose", "wake"}

\* "Changes to the master fs_sets occur via these 4 functions": whoever makes
\* them, and after whatever he has looked at, the manager listens only for a
\* socket that is valid, scheduled and in its arrays, and not for data that is
\* disabled.
BitsAreOwned ==
  /\ active.fds # {} => sock.valid /\ IsScheduled(sock)
  /\ active.fds \subseteq active.arrays
  /\ "read" \in active.fds /\ "accept" \notin Types =>
       ReadType \ sock.disabled # {}

\* BitsAreOwned, and what the variables hold.
FdsAreOwned == SocketTypeOK /\ BitsAreOwned

\* "if (!force) we respect those bits, meaning they may stop us from enabling":
\* the same of every type that reads, of accepting too.
DisabledIsRespected ==
  "read" \in active.fds => ReadType \ sock.disabled # {}
=============================================================================
