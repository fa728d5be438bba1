------------------------------ MODULE RunLoop ------------------------------
(***************************************************************************)
(* One CFRunLoop: the thread that runs it (__CFRunLoopRun and the helpers   *)
(* it calls), the threads that signal it, and the wake-up port between      *)
(* them.  Nested runs (a callout that runs the loop again) are a stack of   *)
(* frames; frame d is the d-th activation of CFRunLoopRunSpecific together  *)
(* with its _per_run_data, frame 0 the state outside every run.             *)
(*                                                                          *)
(* A step of the loop thread is the code between two points where it takes  *)
(* or drops the run loop lock, or reads something another thread may change *)
(* without that lock.  While the top frame is at a pc of Locked the loop    *)
(* thread owns the lock; "out" says that it is inside user code.            *)
(* Membership of modes does not change here (module RunLoopModes), and      *)
(* timers are left to module RunLoopTimers.                                 *)
(***************************************************************************)
EXTENDS Integers, Sequences, FiniteSets, SequencesExt

CONSTANTS Clients,      \* threads that use the loop from outside
          Loop,         \* the thread that runs it
          Modes,        \* names of modes
          Sources0,     \* version 0 sources: signalled by hand
          Sources1,     \* version 1 sources: a mach port each
          Blocks,       \* blocks, each handed to CFRunLoopPerformBlock once
          ModesOf,      \* the modes each source is in
          BlockModes,   \* the modes each block may run in
          Order,        \* CFRunLoopSourceGetOrder of each version 0 source
          MainModes,    \* modes that serve the main dispatch queue
          Calls,        \* the <<returnAfterSourceHandled, timeout>> of runs
          MaxDepth      \* bound on nested runs

Limits  == {"instant", "finite", "infinite"}

ASSUME RunLoopAssumption ==
  /\ MaxDepth \in Nat \ {0}
  /\ Modes # {}                  \* the default mode always exists
  /\ Loop \notin Clients
  /\ Sources1 \cap {"nothing", "wakeUp", "main"} = {}
  /\ ModesOf \in [Sources0 \cup Sources1 -> SUBSET Modes]
  /\ BlockModes \in [Blocks -> SUBSET Modes]
  /\ Order \in [Sources0 -> Int]
  /\ MainModes \subseteq Modes
  /\ Calls \subseteq BOOLEAN \X Limits

VARIABLES depth,        \* activations of CFRunLoopRunSpecific on the stack
          frame,        \* their local state and per-run data
          signaled,     \* version 0 sources whose signaled bit is set
          blocks,       \* the list from _blocks_head to _blocks_tail
          modeStopped,  \* modes whose _stopped is set
          wakePort,     \* messages queued on _wakeUpPort (its limit is 1)
          ports,        \* version 1 sources whose port holds a message
          mainQ,        \* the main dispatch queue's port holds a message
          owes,         \* threads that have yet to call CFRunLoopWakeUp
          firing,       \* timeout handlers between termTSR = 0 and WakeUp
          asked,        \* history: blocks handed over, in order
          ran           \* history: blocks that have run

vars == <<depth, frame, signaled, blocks, modeStopped, wakePort, ports,
          mainQ, owes, firing, asked, ran>>

Threads == Clients \cup {Loop}
Nothing == "nothing"

\* The loop thread owns the run loop lock between two steps at these.
Locked  == {"collect", "prepare", "handle", "decide"}
PCs     == Locked \cup
           {"idle", "entry", "timers", "sources", "blocks1", "perform",
            "blocks2", "waiting", "asleep", "received", "woke", "main",
            "source1", "blocks3", "exit"}
\* A nested run that ends in user code called from one of these returns to
\* code that will not look again at everything before it sleeps.
Lulling == {"timers", "sources", "blocks1", "waiting"}

Frame ==
  [pc : PCs, out : BOOLEAN, mode : Modes, stopAfter : BOOLEAN,
   limit : Limits, dispatch : BOOLEAN,
   expired : BOOLEAN,           \* termTSR is 0
   stopped : BOOLEAN, ignore : BOOLEAN,
   poll : BOOLEAN, handled : BOOLEAN, didDispatch : BOOLEAN,
   unread : SUBSET Sources0, todo : SUBSET Sources0, list : Seq(Blocks),
   live : Sources1 \cup {Nothing, "wakeUp", "main"},
   nested : BOOLEAN]            \* history: lulled by a nested run

NewFrame(m, sa, lim) ==
  [pc |-> "entry", out |-> TRUE, mode |-> m, stopAfter |-> sa,
   limit |-> lim, dispatch |-> FALSE, expired |-> FALSE,
   stopped |-> FALSE, ignore |-> FALSE,
   poll |-> FALSE, handled |-> FALSE, didDispatch |-> TRUE,
   unread |-> {}, todo |-> {}, list |-> <<>>, live |-> Nothing,
   nested |-> FALSE]

\* Outside every run: user code, and the per-run data the loop is created with.
NoRun == [NewFrame(CHOOSE m \in Modes : TRUE, FALSE, "infinite")
            EXCEPT !.pc = "idle", !.ignore = TRUE]

Top       == frame[depth]
SetTop(f) == frame' = [frame EXCEPT ![depth] = f]
At(pc)    == Top.pc = pc /\ ~Top.out

LockFree    == Top.pc \notin Locked
Callable(t) == t = Loop => Top.out
\* User code called from pc returns; it has made the WakeUp calls it owed.
Returns(pc) == Top.pc = pc /\ Top.out /\ Loop \notin owes

InMainQueue == \E d \in 1..depth : frame[d].pc = "main"

ServesMainAlways(m) == m \in MainModes      \* mutant: no look at the TSD

\* libdispatchQSafe, main loop and common mode: this run serves the queue.
ServesMain(m) == m \in MainModes /\ ~InMainQueue

ModeIsEmpty(m) ==
  /\ ~ServesMain(m)
  /\ \A s \in Sources0 \cup Sources1 : m \notin ModesOf[s]
  /\ \A i \in DOMAIN blocks : m \notin BlockModes[blocks[i]]

Init ==
  /\ depth = 0
  /\ frame = [d \in 0..MaxDepth |-> NoRun]
  /\ signaled = {}
  /\ blocks = <<>>
  /\ modeStopped = {}
  /\ wakePort = 0
  /\ ports = {}
  /\ mainQ = FALSE
  /\ owes = {}
  /\ firing = {}
  /\ asked = <<>>
  /\ ran = {}

-----------------------------------------------------------------------------
(* Calls that any thread may make, the loop's own from inside a callout.    *)
(* The callers follow the signalling protocol: after giving the loop work   *)
(* they call CFRunLoopWakeUp, not necessarily at once.                      *)

\* CFRunLoopSourceSignal takes only the source's lock.
SourceSignal(t, s) ==
  /\ Callable(t)
  /\ signaled' = signaled \cup {s}
  /\ owes' = owes \cup {t}
  /\ UNCHANGED <<depth, frame, blocks, modeStopped, wakePort, ports, mainQ,
                 firing, asked, ran>>

PerformBlock(t, b) ==
  /\ Callable(t) /\ LockFree
  /\ \A i \in DOMAIN asked : asked[i] # b
  /\ blocks' = Append(blocks, b)
  /\ asked' = Append(asked, b)
  /\ owes' = owes \cup {t}
  /\ UNCHANGED <<depth, frame, signaled, modeStopped, wakePort, ports, mainQ,
                 firing, ran>>

Stop(t) ==
  /\ Callable(t) /\ LockFree
  /\ depth > 0                          \* _currentMode is set
  /\ SetTop([Top EXCEPT !.stopped = TRUE])
  /\ owes' = owes \cup {t}
  /\ UNCHANGED <<depth, signaled, blocks, modeStopped, wakePort, ports, mainQ,
                 firing, asked, ran>>

StopMode(t, m) ==
  /\ Callable(t) /\ LockFree
  /\ modeStopped' = modeStopped \cup {m}
  /\ owes' = owes \cup {t}
  /\ UNCHANGED <<depth, frame, signaled, blocks, wakePort, ports, mainQ,
                 firing, asked, ran>>

\* Mutants: no limit on the queue; a message only for a loop that sleeps.
SendWithoutLimit == wakePort' = IF Top.ignore THEN wakePort ELSE wakePort + 1
SendIfAsleep == wakePort' = IF At("asleep") THEN 1 ELSE wakePort

\* The port's queue limit is 1: a send that finds a message times out.
SendWakeUp == wakePort' = IF Top.ignore THEN wakePort ELSE 1

WakeUp(t) ==
  /\ Callable(t) /\ LockFree
  /\ SendWakeUp
  /\ owes' = owes \ {t}
  /\ UNCHANGED <<depth, frame, signaled, blocks, modeStopped, ports, mainQ,
                 firing, asked, ran>>

-----------------------------------------------------------------------------
(* The timeout of a run: __CFRunLoopTimeout on a dispatch queue.  The       *)
(* source is cancelled when __CFRunLoopRun returns.                         *)

TimeoutFires(d) ==
  /\ frame[d].limit = "finite" /\ ~frame[d].expired
  /\ frame[d].pc \notin {"idle", "entry", "exit"}
  /\ d \notin firing
  /\ frame' = [frame EXCEPT ![d] = [@ EXCEPT !.expired = TRUE]]
  /\ firing' = firing \cup {d}
  /\ UNCHANGED <<depth, signaled, blocks, modeStopped, wakePort, ports, mainQ,
                 owes, asked, ran>>

TimeoutWakeUp(d) ==
  /\ d \in firing /\ LockFree
  /\ SendWakeUp
  /\ firing' = firing \ {d}
  /\ UNCHANGED <<depth, frame, signaled, blocks, modeStopped, ports, mainQ,
                 owes, asked, ran>>

-----------------------------------------------------------------------------
(* The kernel and libdispatch.                                              *)

SendToPort(s) ==
  /\ ports' = ports \cup {s}
  /\ UNCHANGED <<depth, frame, signaled, blocks, modeStopped, wakePort, mainQ,
                 owes, firing, asked, ran>>

MainQueueReady ==
  /\ MainModes # {}
  /\ mainQ' = TRUE
  /\ UNCHANGED <<depth, frame, signaled, blocks, modeStopped, wakePort, ports,
                 owes, firing, asked, ran>>

-----------------------------------------------------------------------------
(* CFRunLoopRunSpecific.                                                    *)

\* The mode is found and not empty: push per-run data, then call the entry
\* observers.
RunSpecific(m, call) ==
  /\ Callable(Loop) /\ Loop \notin owes
  /\ depth < MaxDepth
  /\ ~ModeIsEmpty(m)
  /\ depth' = depth + 1
  /\ frame' = [frame EXCEPT ![depth + 1] = NewFrame(m, call[1], call[2])]
  /\ UNCHANGED <<signaled, blocks, modeStopped, wakePort, ports, mainQ, owes,
                 firing, asked, ran>>

\* The exit observers return: pop the per-run data.  A frame below that was
\* about to sleep remembers that another run had the loop in between.
RunReturns ==
  /\ Returns("exit")
  /\ depth' = depth - 1
  /\ LET below == frame[depth - 1]
     IN  frame' = [frame EXCEPT
           ![depth] = NoRun,
           ![depth - 1] = [below EXCEPT !.nested =
                             below.nested \/ below.pc \in Lulling]]
  /\ UNCHANGED <<signaled, blocks, modeStopped, wakePort, ports, mainQ, owes,
                 firing, asked, ran>>

-----------------------------------------------------------------------------
(* __CFRunLoopRun.                                                          *)

Exit(f) == [f EXCEPT !.pc = "exit", !.out = TRUE]

\* The start of an iteration, up to the before-timers observers.
Iterate(f) ==
  [f EXCEPT !.pc = "timers", !.out = TRUE, !.ignore = FALSE,
            !.poll = FALSE, !.handled = FALSE, !.todo = {},
            !.live = Nothing, !.nested = FALSE]

StartStopped ==
  /\ Returns("entry")
  /\ Top.stopped
  /\ SetTop(Exit([Top EXCEPT !.stopped = FALSE]))
  /\ UNCHANGED <<depth, signaled, blocks, modeStopped, wakePort, ports, mainQ,
                 owes, firing, asked, ran>>

StartModeStopped ==
  /\ Returns("entry")
  /\ ~Top.stopped /\ Top.mode \in modeStopped
  /\ modeStopped' = modeStopped \ {Top.mode}
  /\ SetTop(Exit(Top))
  /\ UNCHANGED <<depth, signaled, blocks, wakePort, ports, mainQ, owes,
                 firing, asked, ran>>

Start ==
  /\ Returns("entry")
  /\ ~Top.stopped /\ Top.mode \notin modeStopped
  /\ SetTop(Iterate([Top EXCEPT !.dispatch = ServesMain(Top.mode),
                                !.expired = Top.limit = "instant"]))
  /\ UNCHANGED <<depth, signaled, blocks, modeStopped, wakePort, ports, mainQ,
                 owes, firing, asked, ran>>

BeforeSources ==
  /\ Returns("timers")
  /\ SetTop([Top EXCEPT !.pc = "sources"])
  /\ UNCHANGED <<depth, signaled, blocks, modeStopped, wakePort, ports, mainQ,
                 owes, firing, asked, ran>>

-----------------------------------------------------------------------------
(* __CFRunLoopDoBlocks, called at three places.                             *)

\* Detach the list and drop the lock, or go on with the lock if it is empty.
EnterBlocks(f, place, next) ==
  /\ blocks' = <<>>
  /\ IF blocks = <<>>
       THEN SetTop([f EXCEPT !.pc = next, !.out = FALSE])
       ELSE SetTop([f EXCEPT !.pc = place, !.out = FALSE, !.list = blocks])

Runnable(f, i) == f.mode \in BlockModes[f.list[i]]

\* Take the next block for this mode out of the detached list and call it.
BeginBlock(place) ==
  /\ At(place)
  /\ \E i \in DOMAIN Top.list :
       /\ Runnable(Top, i)
       /\ \A j \in 1..(i - 1) : ~Runnable(Top, j)
       /\ ran' = ran \cup {Top.list[i]}
       /\ SetTop([Top EXCEPT !.out = TRUE, !.list = RemoveAt(Top.list, i)])
  /\ UNCHANGED <<depth, signaled, blocks, modeStopped, wakePort, ports, mainQ,
                 owes, firing, asked>>

EndBlock(place) ==
  /\ Returns(place)
  /\ SetTop([Top EXCEPT !.out = FALSE])
  /\ UNCHANGED <<depth, signaled, blocks, modeStopped, wakePort, ports, mainQ,
                 owes, firing, asked, ran>>

\* Mutants: what arrived meanwhile is dropped; it overtakes.
SpliceOver(kept, arrived) == kept
SpliceBehind(kept, arrived) == arrived \o kept

\* What was not run goes back in front of what arrived meanwhile.
Splice(kept, arrived) == kept \o arrived

LeaveBlocks(place, next) ==
  /\ At(place)
  /\ \A i \in DOMAIN Top.list : ~Runnable(Top, i)
  /\ blocks' = Splice(Top.list, blocks)
  /\ SetTop([Top EXCEPT !.pc = next, !.list = <<>>])
  /\ UNCHANGED <<depth, signaled, modeStopped, wakePort, ports, mainQ, owes,
                 firing, asked, ran>>

-----------------------------------------------------------------------------
(* __CFRunLoopDoSources0.                                                   *)

MembersOf(m) == {s \in Sources0 : m \in ModesOf[s]}

StartBlocks1 ==
  /\ Returns("sources")
  /\ EnterBlocks([Top EXCEPT !.unread = MembersOf(Top.mode)],
                 "blocks1", "collect")
  /\ UNCHANGED <<depth, signaled, modeStopped, wakePort, ports, mainQ, owes,
                 firing, asked, ran>>

\* One call of __CFRunLoopCollectSources0; the set is visited in any order.
CollectSource(s) ==
  /\ At("collect")
  /\ s \in Top.unread
  /\ SetTop([Top EXCEPT !.unread = @ \ {s},
                        !.todo = IF s \in signaled THEN @ \cup {s} ELSE @])
  /\ UNCHANGED <<depth, signaled, blocks, modeStopped, wakePort, ports, mainQ,
                 owes, firing, asked, ran>>

Collected ==
  /\ At("collect")
  /\ Top.unread = {}
  /\ SetTop([Top EXCEPT !.pc = IF Top.todo = {} THEN "prepare" ELSE "perform"])
  /\ UNCHANGED <<depth, signaled, blocks, modeStopped, wakePort, ports, mainQ,
                 owes, firing, asked, ran>>

\* The next source by order, if it is still signaled, is called.
PerformSource(s) ==
  /\ At("perform")
  /\ s \in Top.todo
  /\ \A r \in Top.todo : Order[s] <= Order[r]
  /\ SetTop([Top EXCEPT !.todo = @ \ {s}, !.out = s \in signaled])
  /\ signaled' = signaled \ {s}
  /\ UNCHANGED <<depth, blocks, modeStopped, wakePort, ports, mainQ, owes,
                 firing, asked, ran>>

EndSource ==
  /\ Returns("perform")
  /\ SetTop([Top EXCEPT !.out = FALSE, !.handled = TRUE,
                        !.todo = IF Top.stopAfter THEN {} ELSE @])
  /\ UNCHANGED <<depth, signaled, blocks, modeStopped, wakePort, ports, mainQ,
                 owes, firing, asked, ran>>

\* Lock again; a handled source earns the blocks a second pass.
Performed ==
  /\ At("perform")
  /\ Top.todo = {}
  /\ \/ Top.handled /\ EnterBlocks(Top, "blocks2", "prepare")
     \/ /\ ~Top.handled
        /\ SetTop([Top EXCEPT !.pc = "prepare"])
        /\ UNCHANGED blocks
  /\ UNCHANGED <<depth, signaled, modeStopped, wakePort, ports, mainQ, owes,
                 firing, asked, ran>>

-----------------------------------------------------------------------------
(* Going to sleep and waking up.                                            *)

NoExtraLook == FALSE                        \* mutant: it is not looked at

\* The extra look at the main queue, on an iteration after one that did not
\* serve it.
ExtraLook == Top.dispatch /\ ~Top.didDispatch /\ mainQ

TakeMainFirst ==
  /\ At("prepare")
  /\ ExtraLook
  /\ mainQ' = FALSE
  /\ SetTop([Top EXCEPT !.pc = "handle", !.live = "main"])
  /\ UNCHANGED <<depth, signaled, blocks, modeStopped, wakePort, ports, owes,
                 firing, asked, ran>>

\* Decide whether to block, call the before-waiting observers if so, drop
\* the lock.
Prepare ==
  /\ At("prepare")
  /\ ~ExtraLook
  /\ LET poll == Top.handled \/ Top.expired
     IN  SetTop([Top EXCEPT !.poll = poll, !.didDispatch = FALSE,
                            !.pc = IF poll THEN "asleep" ELSE "waiting",
                            !.out = ~poll])
  /\ UNCHANGED <<depth, signaled, blocks, modeStopped, wakePort, ports, mainQ,
                 owes, firing, asked, ran>>

Sleep ==
  /\ Returns("waiting")
  /\ SetTop([Top EXCEPT !.pc = "asleep", !.out = FALSE])
  /\ UNCHANGED <<depth, signaled, blocks, modeStopped, wakePort, ports, mainQ,
                 owes, firing, asked, ran>>

\* mach_msg on the mode's port set; the kernel chooses among ready ports.
Woken(port) == SetTop([Top EXCEPT !.pc = "received", !.live = port])

ReceiveWakeUp ==
  /\ At("asleep")
  /\ wakePort > 0
  /\ wakePort' = wakePort - 1
  /\ Woken("wakeUp")
  /\ UNCHANGED <<depth, signaled, blocks, modeStopped, ports, mainQ, owes,
                 firing, asked, ran>>

ReceiveSource1(s) ==
  /\ At("asleep")
  /\ s \in ports /\ Top.mode \in ModesOf[s]
  /\ ports' = ports \ {s}
  /\ Woken(s)
  /\ UNCHANGED <<depth, signaled, blocks, modeStopped, wakePort, mainQ, owes,
                 firing, asked, ran>>

ReceiveMain ==
  /\ At("asleep")
  /\ Top.dispatch /\ mainQ
  /\ mainQ' = FALSE
  /\ Woken("main")
  /\ UNCHANGED <<depth, signaled, blocks, modeStopped, wakePort, ports, owes,
                 firing, asked, ran>>

PollFindsNothing ==
  /\ At("asleep")
  /\ Top.poll
  /\ wakePort = 0 /\ ~(Top.dispatch /\ mainQ)
  /\ \A s \in ports : Top.mode \notin ModesOf[s]
  /\ Woken(Nothing)
  /\ UNCHANGED <<depth, signaled, blocks, modeStopped, wakePort, ports, mainQ,
                 owes, firing, asked, ran>>

\* Lock, ignore wake-ups from now on, call the after-waiting observers.
AfterReceive ==
  /\ At("received")
  /\ SetTop([Top EXCEPT !.ignore = TRUE, !.out = ~Top.poll,
                        !.pc = IF Top.poll THEN "handle" ELSE "woke"])
  /\ UNCHANGED <<depth, signaled, blocks, modeStopped, wakePort, ports, mainQ,
                 owes, firing, asked, ran>>

AfterWaiting ==
  /\ Returns("woke")
  /\ SetTop([Top EXCEPT !.pc = "handle", !.out = FALSE])
  /\ UNCHANGED <<depth, signaled, blocks, modeStopped, wakePort, ports, mainQ,
                 owes, firing, asked, ran>>

-----------------------------------------------------------------------------
(* handle_msg.                                                              *)

HandleNothing ==
  /\ At("handle")
  /\ Top.live \in {Nothing, "wakeUp"}
  /\ EnterBlocks([Top EXCEPT !.ignore = TRUE], "blocks3", "decide")
  /\ UNCHANGED <<depth, signaled, modeStopped, wakePort, ports, mainQ, owes,
                 firing, asked, ran>>

\* Call out to the main queue, or to the source's perform function, unlocked.
HandleCallout ==
  /\ At("handle")
  /\ Top.live \notin {Nothing, "wakeUp"}
  /\ LET callout == IF Top.live = "main" THEN "main" ELSE "source1"
     IN  SetTop([Top EXCEPT !.ignore = TRUE, !.out = TRUE, !.pc = callout])
  /\ UNCHANGED <<depth, signaled, blocks, modeStopped, wakePort, ports, mainQ,
                 owes, firing, asked, ran>>

EndMain ==
  /\ Returns("main")
  /\ EnterBlocks([Top EXCEPT !.handled = TRUE, !.didDispatch = TRUE],
                 "blocks3", "decide")
  /\ UNCHANGED <<depth, signaled, modeStopped, wakePort, ports, mainQ, owes,
                 firing, asked, ran>>

EndSource1 ==
  /\ Returns("source1")
  /\ EnterBlocks([Top EXCEPT !.handled = TRUE], "blocks3", "decide")
  /\ UNCHANGED <<depth, signaled, modeStopped, wakePort, ports, mainQ, owes,
                 firing, asked, ran>>

-----------------------------------------------------------------------------
(* The end of an iteration: the first reason to return, in this order.      *)

HandledSource == Top.handled /\ Top.stopAfter

DecideHandledSource ==
  /\ At("decide")
  /\ HandledSource
  /\ SetTop(Exit(Top))
  /\ UNCHANGED <<depth, signaled, blocks, modeStopped, wakePort, ports, mainQ,
                 owes, firing, asked, ran>>

\* termTSR is past: the handler cleared it, or the clock has got there first.
DecideTimedOut ==
  /\ At("decide")
  /\ ~HandledSource
  /\ Top.limit # "infinite"
  /\ SetTop(Exit(Top))
  /\ UNCHANGED <<depth, signaled, blocks, modeStopped, wakePort, ports, mainQ,
                 owes, firing, asked, ran>>

DecideStopped ==
  /\ At("decide")
  /\ ~HandledSource /\ ~Top.expired
  /\ Top.stopped
  /\ SetTop(Exit([Top EXCEPT !.stopped = FALSE]))
  /\ UNCHANGED <<depth, signaled, blocks, modeStopped, wakePort, ports, mainQ,
                 owes, firing, asked, ran>>

DecideModeStopped ==
  /\ At("decide")
  /\ ~HandledSource /\ ~Top.expired /\ ~Top.stopped
  /\ Top.mode \in modeStopped
  /\ modeStopped' = modeStopped \ {Top.mode}
  /\ SetTop(Exit(Top))
  /\ UNCHANGED <<depth, signaled, blocks, wakePort, ports, mainQ, owes,
                 firing, asked, ran>>

\* Nothing else asked for it: return if the mode is empty, else go round.
DecideRest ==
  /\ At("decide")
  /\ ~HandledSource /\ ~Top.expired /\ ~Top.stopped
  /\ Top.mode \notin modeStopped
  /\ SetTop(IF ModeIsEmpty(Top.mode) THEN Exit(Top) ELSE Iterate(Top))
  /\ UNCHANGED <<depth, signaled, blocks, modeStopped, wakePort, ports, mainQ,
                 owes, firing, asked, ran>>

-----------------------------------------------------------------------------
BlockStep ==
  \/ \E place \in {"blocks1", "blocks2", "blocks3"} :
       BeginBlock(place) \/ EndBlock(place)
  \/ LeaveBlocks("blocks1", "collect")
  \/ LeaveBlocks("blocks2", "prepare")
  \/ LeaveBlocks("blocks3", "decide")

SourceStep ==
  \/ StartBlocks1
  \/ \E s \in Sources0 : CollectSource(s) \/ PerformSource(s)
  \/ Collected \/ EndSource \/ Performed

SleepStep ==
  \/ TakeMainFirst \/ Prepare \/ Sleep
  \/ ReceiveWakeUp \/ ReceiveMain \/ PollFindsNothing
  \/ \E s \in Sources1 : ReceiveSource1(s)
  \/ AfterReceive \/ AfterWaiting

HandleStep ==
  \/ HandleNothing \/ HandleCallout \/ EndMain \/ EndSource1
  \/ DecideHandledSource \/ DecideTimedOut \/ DecideStopped
  \/ DecideModeStopped \/ DecideRest

\* What the loop thread does by itself once a run has begun.
LoopStep ==
  \/ StartStopped \/ StartModeStopped \/ Start \/ BeforeSources
  \/ BlockStep \/ SourceStep \/ SleepStep \/ HandleStep
  \/ RunReturns

TimeoutStep == \E d \in 1..MaxDepth : TimeoutFires(d) \/ TimeoutWakeUp(d)

ClientStep ==
  \E t \in Threads :
    \/ \E s \in Sources0 : SourceSignal(t, s)
    \/ \E b \in Blocks : PerformBlock(t, b)
    \/ Stop(t)
    \/ \E m \in Modes : StopMode(t, m)
    \/ WakeUp(t)

Next ==
  \/ \E m \in Modes, call \in Calls : RunSpecific(m, call)
  \/ LoopStep \/ TimeoutStep \/ ClientStep
  \/ \E s \in Sources1 : SendToPort(s)
  \/ MainQueueReady

Spec == Init /\ [][Next]_vars

\* The loop thread keeps going and user code returns; a thread that owes a
\* WakeUp makes the call; the timeout source fires and its handler runs.
Fairness ==
  /\ SF_vars(LoopStep)
  /\ \A t \in Threads : WF_vars(t \in owes /\ WakeUp(t))
  /\ \A d \in 1..MaxDepth : /\ WF_vars(TimeoutFires(d))
                            /\ WF_vars(TimeoutWakeUp(d))

FairSpec == Spec /\ Fairness
-----------------------------------------------------------------------------
(* Properties.                                                              *)

\* Every variable keeps its type; the wake-up port never holds two messages.
TypeOK ==
  /\ depth \in 0..MaxDepth
  /\ frame \in [0..MaxDepth -> Frame]
  /\ signaled \subseteq Sources0
  /\ blocks \in Seq(Blocks)
  /\ modeStopped \subseteq Modes
  /\ wakePort \in 0..1
  /\ ports \subseteq Sources1
  /\ mainQ \in BOOLEAN
  /\ owes \subseteq Threads
  /\ firing \subseteq 1..MaxDepth
  /\ asked \in Seq(Blocks)
  /\ ran \subseteq Blocks

\* The run at the top has something to do or a reason to return.
WorkPending ==
  \/ \E s \in signaled : Top.mode \in ModesOf[s]
  \/ \E i \in DOMAIN blocks : Top.mode \in BlockModes[blocks[i]]
  \/ Top.stopped \/ Top.expired
  \/ Top.mode \in modeStopped

\* Blocked in mach_msg with nothing on the way that would end the wait.
SleepsSoundly ==
  /\ At("asleep") /\ ~Top.poll
  /\ wakePort = 0 /\ owes = {} /\ firing = {}

\* The comment in CFRunLoopWakeUp, "we don't want to lose a wakeup": once
\* every thread that signaled a source has made its WakeUp call, the loop
\* does not sleep on that source.
WakeUpNeverLost ==
  SleepsSoundly => \A s \in signaled : Top.mode \notin ModesOf[s]

\* CFRunLoopWakeUp and the ignoreWakeUps window of __CFRunLoopRun: once every
\* thread that gave the loop work has made its WakeUp call, a run does not
\* sleep on that work, provided it had the loop to itself: since the
\* iteration began no nested run has taken its wake-ups between two looks.
NoLostWakeUp == SleepsSoundly /\ ~Top.nested => ~WorkPending

\* __CFRunLoopDoBlocks detaches and splices the list around callouts and
\* nested runs: a block that has not run is in exactly one list, once.
NoBlockLost ==
  \A b \in Blocks :
    LET queued   == {i \in DOMAIN blocks : blocks[i] = b}
        detached == {d \in 1..depth :
                       \E i \in DOMAIN frame[d].list : frame[d].list[i] = b}
        pending  == b \notin ran /\ \E i \in DOMAIN asked : asked[i] = b
    IN  Cardinality(queued) + Cardinality(detached) = IF pending THEN 1 ELSE 0

\* Without nested runs, blocks for the same modes run in the order in which
\* CFRunLoopPerformBlock got them.
BlocksInOrder ==
  \A i, j \in DOMAIN asked :
    /\ i < j /\ BlockModes[asked[i]] = BlockModes[asked[j]]
    /\ asked[j] \in ran
    => asked[i] \in ran

\* A run inside a main-queue callout does not serve the main queue again.
MainQueueNotReentered ==
  \A c, d \in 1..depth : frame[c].pc = "main" /\ frame[d].pc = "main" => c = d

\* A signaled source of the running mode is called, or the run is over.
SignalServed ==
  \A s \in Sources0 :
    (s \in signaled /\ depth = 1 /\ frame[1].mode \in ModesOf[s])
      ~> (s \notin signaled \/ depth = 0)

\* A block for the running mode runs, or the run is over.
BlockServed ==
  \A b \in Blocks :
    (depth = 1 /\ frame[1].mode \in BlockModes[b]
       /\ \E i \in DOMAIN blocks : blocks[i] = b)
      ~> (b \in ran \/ depth = 0)

\* CFRunLoopStop, and the timeout, end the run they are meant for.
RunEnds ==
  (depth = 1 /\ (frame[1].stopped \/ frame[1].expired)) ~> (depth = 0)

\* A run that serves the main queue gets to it however busy its sources are.
MainQueueServed ==
  (mainQ /\ depth = 1 /\ frame[1].dispatch) ~> (~mainQ \/ depth = 0)
=============================================================================
