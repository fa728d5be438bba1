------------------------------ MODULE MachPort ------------------------------
(* CFMachPort: objects for Mach ports, found again by port in a table that  *)
(* all threads share.  An object comes apart in steps, and from two sides:  *)
(* by CFMachPortInvalidate, and by the checker that runs when a port with a *)
(* send right dies and leaves the rest to a block on the main queue.        *)
(* A critical section of __CFAllMachPortsLock or of the _lock of an object  *)
(* is one step; neither lock is held across callouts, and so neither needs  *)
(* a variable.  References are not counted but found where they are kept.   *)
EXTENDS Naturals, FiniteSets

CONSTANTS PortUsers,    \* threads
          PortNames,    \* mach_port_t
          SendPorts,    \* those with a send right when they are first used
          MachPorts,    \* memory for CFMachPorts
          PortSources,  \* memory for run loop sources
          Nothing

ASSUME MachPortAssumption ==
  /\ IsFiniteSet(PortUsers) /\ IsFiniteSet(MachPorts)
  /\ IsFiniteSet(PortSources)
  /\ SendPorts \subseteq PortNames
  /\ PortUsers \cap MachPorts = {}
  /\ Nothing \notin PortNames \cup MachPorts \cup PortSources

VARIABLES
  dead,         \* ports whose rights are gone or dead names
  allMachPorts, \* __CFAllMachPorts
  mp,           \* the objects
  info,         \* references to the info of each object's context
  rls,          \* the run loop sources of objects, each with one to its object
  doing,        \* the call each thread is in, and the block for each object
  holds         \* what the client in each thread has references to

machVars == <<dead, allMachPorts, mp, info, rls, doing, holds>>

\* A thread is one actor; the block that the checker sends to the main queue
\* for an object is another.
Actors == PortUsers \cup MachPorts

\* struct __CFMachPort.  watch: the dispatch source that was made for it, which
\* _dsrc stands for until it is canceled, and with it _dsrc_sem; told: how
\* often _icallout has been called.
Unused == [state |-> "none", port |-> Nothing, source |-> Nothing,
           dsrc |-> FALSE, watch |-> "none", icallout |-> FALSE, told |-> 0,
           info |-> FALSE]
NoSource == [of |-> Nothing, valid |-> FALSE]
Resting  == [at |-> "idle", mp |-> Nothing, port |-> Nothing, rls |-> Nothing,
             keeps |-> FALSE]   \* keeps: a reference to mp
NoHold   == [mp |-> Nothing, rls |-> Nothing]

MachInit ==
  /\ dead = {} /\ allMachPorts = {}
  /\ mp = [o \in MachPorts |-> Unused]
  /\ info = [o \in MachPorts |-> 0]
  /\ rls = [s \in PortSources |-> NoSource]
  /\ doing = [a \in Actors |-> Resting]
  /\ holds = [u \in PortUsers |-> NoHold]

\* CFGetRetainCount, of whatever holds references in the instance (TablesMC has
\* two).
RetainCount(o) ==
  Cardinality({o} \cap allMachPorts)
  + Cardinality({u \in DOMAIN holds : holds[u].mp = o})
  + Cardinality({a \in DOMAIN doing : doing[a].mp = o /\ doing[a].keeps})
  + Cardinality({s \in DOMAIN rls : rls[s].of = o})

SourceCount(s) ==
  Cardinality({o \in MachPorts : mp[o].source = s})
  + Cardinality({u \in PortUsers : holds[u].rls = s})
  + Cardinality({a \in Actors : doing[a].rls = s})

IsReady(o) == mp[o].state = "ready"
Go(a, place) == doing' = [doing EXCEPT ![a].at = place]
Stop(a)      == doing' = [doing EXCEPT ![a] = Resting]
InStep(a, place) == doing[a].at = place

-----------------------------------------------------------------------------
(* _CFMachPortCreateWithPort2                                               *)

FindPort(u, p) ==
  LET found == {o \in allMachPorts : mp[o].port = p} IN
  /\ InStep(u, "idle") /\ holds[u].mp = Nothing /\ p \notin dead
  /\ \/ \E o \in found : doing' = [doing EXCEPT ![u] =
          [Resting EXCEPT !.at = "check", !.mp = o, !.keeps = TRUE]]
     \/ /\ found = {}
        /\ doing' = [doing EXCEPT ![u] =
             [Resting EXCEPT !.at = "make", !.port = p]]
  /\ UNCHANGED <<dead, allMachPorts, mp, info, rls, holds>>

MakePort(u) ==
  LET free == {o \in MachPorts : mp[o].state = "none"}
      new  == CHOOSE o \in free : TRUE
      p    == doing[u].port
  IN
  /\ InStep(u, "make") /\ free # {}
  /\ mp' = [mp EXCEPT ![new] =
              [Unused EXCEPT !.state = "ready", !.port = p, !.info = TRUE]]
  /\ info' = [info EXCEPT ![new] = 1]
  /\ allMachPorts' = allMachPorts \cup {new}
  /\ doing' = [doing EXCEPT ![u] =
       [Resting EXCEPT !.at = IF p \in SendPorts THEN "watch" ELSE "check",
                       !.mp = new, !.keeps = TRUE]]
  /\ UNCHANGED <<dead, rls, holds>>

\* Without the lock, although the object can be found by now.
WatchPort(u) ==
  /\ InStep(u, "watch")
  /\ mp' = [mp EXCEPT ![doing[u].mp].dsrc = TRUE,
                      ![doing[u].mp].watch = "live"]
  /\ Go(u, "check")
  /\ UNCHANGED <<dead, allMachPorts, info, rls, holds>>

\* CFMachPortIsValid
PortIsValid(o) == IsReady(o) /\ mp[o].port \notin dead

CheckPort(u) ==
  LET o == doing[u].mp IN
  /\ InStep(u, "check")
  /\ \/ /\ PortIsValid(o)
        /\ holds' = [holds EXCEPT ![u].mp = o]
        /\ Stop(u)
     \/ ~PortIsValid(o) /\ Go(u, "release") /\ UNCHANGED holds
  /\ UNCHANGED <<dead, allMachPorts, mp, info, rls>>

-----------------------------------------------------------------------------
(* CFMachPortInvalidate and __CFMachPortInvalidateLocked                    *)

\* What both sides do to an object under its lock.
TakenDown(x) ==
  [x EXCEPT !.state = "invalidating", !.dsrc = FALSE, !.source = Nothing,
            !.watch = IF x.dsrc THEN "canceled" ELSE @]

TakingDown(o, place) ==
  [Resting EXCEPT !.at = place, !.mp = o, !.keeps = TRUE, !.rls = mp[o].source]

Invalidate(u) ==
  LET o == holds[u].mp IN
  /\ InStep(u, "idle") /\ o # Nothing
  /\ \/ /\ IsReady(o)
        /\ allMachPorts' = allMachPorts \ {o}
        /\ mp' = [mp EXCEPT ![o] = TakenDown(@)]
        /\ doing' = [doing EXCEPT ![u] = TakingDown(o, "callback")]
     \/ /\ ~IsReady(o)
        /\ doing' = [doing EXCEPT ![u] =
             [Resting EXCEPT !.at = "release", !.mp = o, !.keeps = TRUE]]
        /\ UNCHANGED <<allMachPorts, mp>>
  /\ UNCHANGED <<dead, info, rls, holds>>

\* The invalidation callback is called without the lock.
CallBack(a) ==
  LET o == doing[a].mp IN
  /\ InStep(a, "callback")
  /\ \/ /\ mp[o].icallout
        /\ mp' = [mp EXCEPT ![o].told = @ + 1]
        /\ Go(a, "telling")
     \/ ~mp[o].icallout /\ Go(a, "source") /\ UNCHANGED mp
  /\ UNCHANGED <<dead, allMachPorts, info, rls, holds>>

Told(a) ==
  /\ InStep(a, "telling") /\ Go(a, "source")
  /\ UNCHANGED <<dead, allMachPorts, mp, info, rls, holds>>

\* CFRunLoopSourceInvalidate and CFRelease of the source.
Unsource(a) ==
  LET s == doing[a].rls IN
  /\ InStep(a, "source")
  /\ rls' = IF s = Nothing THEN rls
            ELSE IF SourceCount(s) = 1 THEN [rls EXCEPT ![s] = NoSource]
            ELSE [rls EXCEPT ![s].valid = FALSE]
  /\ doing' = [doing EXCEPT ![a].at = "giveUp", ![a].rls = Nothing]
  /\ UNCHANGED <<dead, allMachPorts, mp, info, holds>>

GiveUpInfo(a) ==
  /\ InStep(a, "giveUp")
  /\ mp' = [mp EXCEPT ![doing[a].mp].info = FALSE]
  /\ Go(a, "giving")
  /\ UNCHANGED <<dead, allMachPorts, info, rls, holds>>

\* The info is released without the lock.
Invalidated(a) ==
  LET o == doing[a].mp IN
  /\ InStep(a, "giving")
  /\ info' = [info EXCEPT ![o] = @ - 1]
  /\ mp' = [mp EXCEPT ![o].state = "invalid"]
  /\ Go(a, IF doing[a].keeps THEN "release" ELSE "handOver")
  /\ UNCHANGED <<dead, allMachPorts, rls, holds>>

-----------------------------------------------------------------------------
(* CFRelease and __CFMachPortDeallocate                                     *)

\* Of the reference that a call has been using, or was made for.
ReleasePort(a) ==
  /\ InStep(a, "release")
  /\ \/ /\ RetainCount(doing[a].mp) = 1
        /\ doing' = [doing EXCEPT ![a].at = "deallocate", ![a].keeps = FALSE]
     \/ RetainCount(doing[a].mp) > 1 /\ Stop(a)
  /\ UNCHANGED <<dead, allMachPorts, mp, info, rls, holds>>

CFReleasePort(u) ==
  LET o == holds[u].mp IN
  /\ InStep(u, "idle") /\ o # Nothing
  /\ holds' = [holds EXCEPT ![u].mp = Nothing]
  /\ doing' = [doing EXCEPT ![u] =
       [Resting EXCEPT !.at = "release", !.mp = o, !.keeps = TRUE]]
  /\ UNCHANGED <<dead, allMachPorts, mp, info, rls>>

\* An object that is still ready would be taken down first.
DeallocatePort(a) ==
  LET o == doing[a].mp IN
  /\ InStep(a, "deallocate")
  /\ mp' = IF IsReady(o) THEN [mp EXCEPT ![o] = TakenDown(@)] ELSE mp
  /\ doing' = [doing EXCEPT ![a] =
       [TakingDown(o, IF IsReady(o) THEN "callback" ELSE "handOver")
          EXCEPT !.keeps = FALSE]]
  /\ UNCHANGED <<dead, allMachPorts, info, rls, holds>>

HandOver(a) ==
  /\ InStep(a, "handOver")
  /\ mp' = [mp EXCEPT ![doing[a].mp].state = "deallocating"]
  /\ Stop(a)
  /\ UNCHANGED <<dead, allMachPorts, info, rls, holds>>

\* The block in the background waits for the cancel handler of the source
\* before it gives the rights up.
DropRights(o) ==
  /\ mp[o].state = "deallocating" /\ mp[o].watch \in {"none", "done"}
  /\ mp' = [mp EXCEPT ![o] = Unused]
  /\ UNCHANGED <<dead, allMachPorts, info, rls, doing, holds>>

-----------------------------------------------------------------------------
(* The dispatch sources and the main queue.                                 *)

PortDies(p) ==
  /\ p \notin dead
  /\ dead' = dead \cup {p}
  /\ UNCHANGED <<allMachPorts, mp, info, rls, doing, holds>>

\* The name is given out again; clients keep it until no object needs it.
PortReused(p) ==
  /\ p \in dead
  /\ \A o \in MachPorts :
       mp[o].port = p => mp[o].state \in {"invalid", "deallocating"}
  /\ dead' = dead \ {p}
  /\ UNCHANGED <<allMachPorts, mp, info, rls, doing, holds>>

\* __CFMachPortChecker: objects with dead ports, and those that only the table
\* still has.
Checker ==
  LET gone == {o \in allMachPorts : mp[o].port \in dead \/ RetainCount(o) = 1}
      ready == {o \in gone : IsReady(o)}
  IN
  /\ \E o \in MachPorts : mp[o].watch = "live" /\ mp[o].port \in dead
  /\ allMachPorts' = allMachPorts \ gone
  /\ mp' = [o \in MachPorts |->
              IF o \in ready THEN TakenDown(mp[o]) ELSE mp[o]]
  /\ doing' = [a \in Actors |-> IF a \in ready THEN TakingDown(a, "queued")
                                ELSE doing[a]]
  /\ UNCHANGED <<dead, info, rls, holds>>

\* The main queue runs one block at a time.
RunBlock(o) ==
  /\ InStep(o, "queued")
  /\ \A q \in MachPorts : doing[q].at \in {"idle", "queued"}
  /\ Go(o, "callback")
  /\ UNCHANGED <<dead, allMachPorts, mp, info, rls, holds>>

\* The cancel handler signals the semaphore.
Canceled(o) ==
  /\ mp[o].watch = "canceled"
  /\ mp' = [mp EXCEPT ![o].watch = "done"]
  /\ UNCHANGED <<dead, allMachPorts, info, rls, doing, holds>>

-----------------------------------------------------------------------------
(* CFMachPortSetInvalidationCallBack                                        *)

SetCallBack(u, callout) ==
  LET o == holds[u].mp IN
  /\ InStep(u, "idle") /\ o # Nothing
  /\ \/ /\ IsReady(o) \/ ~callout
        /\ mp' = [mp EXCEPT ![o].icallout = callout]
        /\ UNCHANGED doing
     \/ /\ ~IsReady(o) /\ callout /\ ~mp[o].icallout
        /\ doing' = [doing EXCEPT ![u] = [Resting EXCEPT !.at = "direct"]]
        /\ UNCHANGED mp
  /\ UNCHANGED <<dead, allMachPorts, info, rls, holds>>

CalledDirectly(u) ==
  /\ InStep(u, "direct") /\ Stop(u)
  /\ UNCHANGED <<dead, allMachPorts, mp, info, rls, holds>>

-----------------------------------------------------------------------------
(* CFMachPortCreateRunLoopSource, and the sources it returns.               *)

AskForSource(u) ==
  LET o == holds[u].mp IN
  /\ InStep(u, "idle") /\ o # Nothing /\ holds[u].rls = Nothing
  /\ PortIsValid(o)
  /\ doing' = [doing EXCEPT ![u] = [Resting EXCEPT !.at = "create", !.mp = o]]
  /\ UNCHANGED <<dead, allMachPorts, mp, info, rls, holds>>

GiveSource(u, o) ==
  LET old  == mp[o].source
      stale == old # Nothing /\ ~rls[old].valid
      free == {s \in PortSources : rls[s].of = Nothing}
      new  == CHOOSE s \in free : TRUE
  IN
  \/ /\ old # Nothing /\ ~stale
     /\ holds' = [holds EXCEPT ![u].rls = old]
     /\ UNCHANGED <<mp, rls>>
  \/ /\ (old = Nothing \/ stale) /\ free # {}
     /\ rls' = [s \in PortSources |->
                  IF s = new THEN [of |-> o, valid |-> TRUE]
                  ELSE IF s = old /\ SourceCount(s) = 1 THEN NoSource
                  ELSE rls[s]]
     /\ mp' = [mp EXCEPT ![o].source = new]
     /\ holds' = [holds EXCEPT ![u].rls = new]

\* Mutant: no second look.
CreateSourceBlindly(u) ==
  LET o == doing[u].mp IN
  /\ InStep(u, "create")
  /\ GiveSource(u, o)
  /\ Stop(u)
  /\ UNCHANGED <<dead, allMachPorts, info>>

\* The second look under the lock.
CreateSource(u) ==
  LET o == doing[u].mp IN
  /\ InStep(u, "create")
  /\ \/ IsReady(o) /\ GiveSource(u, o)
     \/ ~IsReady(o) /\ UNCHANGED <<mp, rls, holds>>
  /\ Stop(u)
  /\ UNCHANGED <<dead, allMachPorts, info>>

InvalidateSource(u) ==
  LET s == holds[u].rls IN
  /\ InStep(u, "idle") /\ s # Nothing /\ rls[s].valid
  /\ rls' = [rls EXCEPT ![s].valid = FALSE]
  /\ UNCHANGED <<dead, allMachPorts, mp, info, doing, holds>>

\* A source that is freed releases its object.
ReleaseSource(u) ==
  LET s == holds[u].rls IN
  /\ InStep(u, "idle") /\ s # Nothing
  /\ holds' = [holds EXCEPT ![u].rls = Nothing]
  /\ \/ /\ SourceCount(s) = 1
        /\ rls' = [rls EXCEPT ![s] = NoSource]
        /\ \/ /\ RetainCount(rls[s].of) = 1
              /\ doing' = [doing EXCEPT ![u] =
                   [Resting EXCEPT !.at = "deallocate", !.mp = rls[s].of]]
           \/ RetainCount(rls[s].of) > 1 /\ UNCHANGED doing
     \/ SourceCount(s) > 1 /\ UNCHANGED <<rls, doing>>
  /\ UNCHANGED <<dead, allMachPorts, mp, info>>

\* __CFRunLoopDoSource1 has looked at the source under its lock.
Message(u) ==
  LET s == holds[u].rls IN
  /\ InStep(u, "idle") /\ s # Nothing /\ rls[s].valid
  /\ doing' = [doing EXCEPT ![u] =
       [Resting EXCEPT !.at = "perform", !.mp = rls[s].of]]
  /\ UNCHANGED <<dead, allMachPorts, mp, info, rls, holds>>

\* Mutant: the info is not retained for the callout.
PerformUnretained(u) ==
  LET o == doing[u].mp IN
  /\ InStep(u, "perform")
  /\ IF IsReady(o) THEN Go(u, "performing") ELSE Stop(u)
  /\ UNCHANGED <<dead, allMachPorts, mp, info, rls, holds>>

\* __CFMachPortPerform
Perform(u) ==
  LET o == doing[u].mp IN
  /\ InStep(u, "perform")
  /\ \/ /\ IsReady(o)
        /\ info' = [info EXCEPT ![o] = @ + 1]
        /\ Go(u, "performing")
     \/ ~IsReady(o) /\ Stop(u) /\ UNCHANGED info
  /\ UNCHANGED <<dead, allMachPorts, mp, rls, holds>>

Performed(u) ==
  LET o == doing[u].mp IN
  /\ InStep(u, "performing")
  /\ info' = [info EXCEPT ![o] = @ - 1]
  /\ Stop(u)
  /\ UNCHANGED <<dead, allMachPorts, mp, rls, holds>>

-----------------------------------------------------------------------------
MachNext ==
  \/ \E u \in PortUsers :
       \/ \E p \in PortNames : FindPort(u, p)
       \/ MakePort(u) \/ WatchPort(u) \/ CheckPort(u)
       \/ Invalidate(u) \/ CFReleasePort(u)
       \/ \E callout \in BOOLEAN : SetCallBack(u, callout)
       \/ CalledDirectly(u)
       \/ AskForSource(u) \/ CreateSource(u)
       \/ InvalidateSource(u) \/ ReleaseSource(u)
       \/ Message(u) \/ Perform(u) \/ Performed(u)
  \/ \E a \in Actors :
       \/ CallBack(a) \/ Told(a) \/ Unsource(a) \/ GiveUpInfo(a)
       \/ Invalidated(a) \/ ReleasePort(a) \/ DeallocatePort(a) \/ HandOver(a)
  \/ \E o \in MachPorts : RunBlock(o) \/ Canceled(o) \/ DropRights(o)
  \/ \E p \in PortNames : PortDies(p) \/ PortReused(p)
  \/ Checker

MachSpec == MachInit /\ [][MachNext]_machVars

-----------------------------------------------------------------------------
\* CFMachPortInvalidate, __CFMachPortChecker and CFMachPortCreateRunLoopSource:
\* however an object is taken down, it is out of the table and has no source
\* from then on; when it is invalid its callback has been called once and no
\* valid source is left; and "CFMachPortRef is invalid before we get here" is
\* true of __CFMachPortDeallocate.
ComesApart ==
  \A o \in DOMAIN mp :
    /\ mp[o].state \notin {"none", "ready"} =>
         o \notin allMachPorts /\ mp[o].source = Nothing
    /\ mp[o].state \in {"invalid", "deallocating"} =>
         /\ mp[o].icallout => mp[o].told = 1
         /\ \A s \in DOMAIN rls : rls[s].of = o => ~rls[s].valid
    /\ mp[o].state # "none" /\ RetainCount(o) = 0 =>
         mp[o].state \in {"invalid", "deallocating"}

\* __CFMachPortPerform and __CFMachPortInvalidateLocked: while a callout is
\* using the info of an object, which another thread may be invalidating, there
\* is a reference to the info.
InfoKept ==
  \A a \in DOMAIN doing :
    doing[a].at \in {"performing", "telling"} => info[doing[a].mp] > 0
=============================================================================
