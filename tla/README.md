# A TLA+ verification development for CoreFoundation (Darling)

This directory holds specifications of the parts of CoreFoundation whose
correctness depends on the order in which threads, callbacks and messages act:
modules written from the C sources, TLC configurations that check them on small
instances, and theorems that TLAPS proves for every value of the constants.

1. [The system](#1-the-system)
2. [Modules](#2-modules)
3. [Runs](#3-runs)
4. [Fairness](#4-fairness)
5. [Proofs](#5-proofs)
6. [Findings](#6-findings)
7. [What is not modelled](#7-what-is-not-modelled)
8. [Plan](#8-plan)

## 1. The system

CoreFoundation is a C library of reference-counted objects. Most of it is
sequential data structures; the parts below keep state that several threads, or
a thread and the callbacks it makes, change in orders that nobody chose.

| Part | State | Operations | Interacts with | What is hard | What makes it correct |
|---|---|---|---|---|---|
| Running a loop (`CFRunLoop.c`: `CFRunLoopRunSpecific`, `__CFRunLoopRun` and what they call) | one record of per-run data for each nested run (stopped, ignoring wake-ups), local variables of each activation, list of blocks, signaled bits, the wake-up port | run, stop, wake up, perform a block, signal a source, time out | every thread, the kernel's ports, libdispatch's main queue, user code in callouts | work arriving between the look at it and `mach_msg`; nested runs; a wake-up port with room for one message; unlocked fields | work whose owner made its wake-up call is not slept on; blocks run once and in order; stop and timeout end the run; the main queue is neither starved nor re-entered |
| Modes and membership (`CFRunLoop.c`: `CFRunLoopAdd*`, `Remove*`, `*Invalidate`, common modes) | each mode's sets of sources, observers and timers, the common modes and their items, each source's bag of run loops, valid bits | add, remove, invalidate, add a common mode | source, mode and loop locks; schedule and cancel callouts | checks made before the lock is taken; callouts made with a recursive lock held; items that leave a mode while it runs | schedule and cancel calls balance; an invalidated source is in no mode; callouts hold no loop lock |
| Timers (`CFRunLoop.c`: `CFRunLoopTimer*`, `__CFRunLoopDoTimer*`, `__CFArmNextTimerInMode`) | per-mode arrays sorted by fire date, soft and hard deadlines that are armed, firing bits | add, remove, fire, set the next date, tolerance, invalidate | the mode's timer port, the run | a date that changes during the callout; a timer in several modes; a deadline armed for a timer that moved | arrays stay sorted; a due timer has a deadline armed no later than it allows; no timer fires early or twice |
| Registry of loops (`CFRunLoop.c`: `_CFRunLoopGet0`, `__CFFinalizeRunLoop`; `CFPlatform.c`: `__CFTSDFinalize`) | thread to loop dictionary, thread-specific data and its destructor passes | get, set current, exit of a thread | thread exit, fork | two threads creating one loop; destructors that ask for it again in a later pass; a lock that freeing a loop takes | one loop for one thread, at whatever moment it is asked for; an exited thread's loop is taken out |
| Reference counts (`CFRuntime.c`: `_CFRetain`, `_CFRelease`) | count and state bits in the object header, side table on 32-bit builds | retain, try-retain, release, retain again while deallocating | every type's finalizer | compare-and-swap loops; resurrection in the finalizer; the overflow between inline bits and table | freed once, after the last release; counts neither lost nor wrapped |
| Unique UUIDs (`CFUUID.c`) | a table of objects that it does not retain | create, look up, constants, finalize | reference counts | an object is found while its last release waits for the lock | what is found is not freed |
| `CFSocket.c` | flags of enabled and disabled callbacks, fd sets of the manager thread, queues of received data | enable, disable, perform, invalidate, connect | a manager thread in `select`, run loops | the manager acting on copies of its sets and on a socket being invalidated; callbacks that are enabled again after they were made | what arrives is given once and in order; a type that a client waits for is watched for; the manager listens for no socket that has gone |
| `CFMachPort.c` | a table of objects by port, each with a state, a source and a dispatch source | create, look up, create a source, receive, invalidate, finalize | a checker on a dispatch queue, blocks on the main queue, run loops, reference counts | an object that two sides take apart, each under another lock for part of the way; fields used after unlocking | taken apart once, and entirely before it is freed; what a callout uses is there |
| `CFMessagePort.c` | port caches, pending replies | create, send, receive, invalidate | mach messages, run loops | a reply after its timeout; invalidation during a callout | a reply goes to its request; cached objects are valid ones |
| `CFStream.c`, `CFSocketStream.c` | stream status, pending client events | open, read, write, close, set client, schedule | run-loop source shared by streams | events signaled while the client changes | status only moves forward; no event after close |
| Storages (`CFStorage.c`) | a tree of nodes that storages share, a remembered leaf each | insert, delete, replace, get, make from a range of another | reference counts of nodes | frozen nodes that are shared, copied and thawed; a remembered leaf that goes stale; lazily allocated memory | each storage holds the list that its calls describe, whatever others do |
| Hashes (`CFBasicHash.c`, under `CFDictionary.c`, `CFSet.c`, `CFBag.c`) | open-addressing tables with marks and counts; a table of callbacks common to all | add, replace, set, remove, clear, set capacity; enter a callback | owner only; all threads | marks that are reused, counted, cleared, roll over; an entry counted before it is written | each is the bag that its calls describe; an index leads to its callback |
| Other collections (`CFArray.c`, `CFBinaryHeap.c`, `CFTree.c`) | deques, heaps, linked siblings | insert, remove, replace, look up | owner only | gaps, wrap-around | each agrees with a sequence or an ordered set |
| Plug-ins, preferences, bundles | factory tables with instance counts, cached search lists | register, create, synchronise | files, loaded code | stale caches, unloading code in use | a factory is disabled only when unused |
| Text, locale, property lists, URLs | immutable values and generated tables | parse, format, look up | - | data, not control | not a subject for model checking |

`PROJECT.json` lists every source file under one of these components.

## 2. Modules

### RunLoop — one run loop and those who wake it

`RunLoop.tla` models `__CFRunLoopRun` and its helpers for one loop, with
membership of the modes fixed.

- **Frames.** `frame[d]` is the d-th activation of `CFRunLoopRunSpecific` on the
  stack of the loop's thread, with its `_per_run_data` (`stopped`, `ignore`) and
  the locals of `__CFRunLoopRun` (`poll`, `handled` for
  `sourceHandledThisLoop`, `didDispatch` for `didDispatchPortLastTime`, `live`
  for `livePort`, `expired` for `termTSR == 0`). `frame[0]` stands for the
  state outside every run, whose per-run data ignores wake-ups. Only the
  deepest frame moves; those below it are inside user code.
- **Steps.** A step is the code between two points at which the loop's thread
  takes or drops the loop lock, or reads something that another thread may
  change without it (the signaled bits and `termTSR`). `Locked` lists the
  places at which the loop's thread owns the lock between steps; calls of other
  threads that need the lock (`PerformBlock`, `Stop`, `StopMode`, `WakeUp`) are
  disabled there, and `SourceSignal`, which takes the source's lock only, is not.
- **User code.** `out` says that the thread is in a callout. From there it may
  make the calls other threads make, and start a nested run. It returns once it
  has made the wake-up calls it owes.
- **Callers.** A thread that signals a source, adds a block or asks for a stop
  is recorded in `owes` until it calls `CFRunLoopWakeUp`; the two calls are
  separate steps, as they are in the code. `_CFRunLoopStopMode` and
  `CFRunLoopStop` call it themselves after dropping the lock.
- **The wake-up port** has a queue limit of one message; a second send times
  out and is discarded (`SendWakeUp`). While the top frame ignores wake-ups
  none is sent.
- **Timeouts.** `TimeoutFires` is the dispatch source's handler up to the store
  to `termTSR`, `TimeoutWakeUp` its call of `CFRunLoopWakeUp`. The end of an
  iteration compares the clock with `termTSR` and may find it past before the
  handler has run (`DecideTimedOut`).
- **Main queue.** A frame has `dispatch` if the run serves the main dispatch
  queue, decided at its start from the mode and from
  `__CFTSDKeyIsInGCDMainQ` (`InMainQueue`).
- **Abstracted.** A block is one model value handed over once. Observers appear
  as the callouts they make at each activity. The kernel's choice among ready
  ports is nondeterministic. Timers and changes of membership belong to other
  modules of the plan.

History variables, not in the code: `asked` (blocks in the order of the calls),
`ran`, and the frame field `nested`, set when a nested run ended inside a
callout made between the start of the iteration and the end of the wait.

`RunLoopNesting.tla` marks the behaviours in which one run ends before the next
begins, which is what the order of the blocks depends on (`FlatBlocksInOrder`).
`RunLoopMC.tla` holds the constants of the instances, `RunLoopSafetyMC.tla` puts
two instances side by side for the invariants, and `RunLoopProofs.tla` holds the
proofs.

### RunLoopModes — which source is in which mode of which loop

`RunLoopModes.tla` models the calls that change membership, for version 0
sources and any number of threads and loops: `CFRunLoopAddSource`,
`CFRunLoopRemoveSource`, `CFRunLoopSourceInvalidate`, `CFRunLoopAddCommonMode`
and the steps of a source that calls out.

- **State.** `members[l][m]` is a mode's `_sources0`, `runLoops[s]` the source's
  bag of loops, `commonModes` and `commonItems` the loop's sets, `valid` the
  sources with the valid bit. `lock[l]` is the owner of the loop lock, which is
  recursive: `CanLock` lets the owner in. `guard[s]` is a lock of the source's
  client that its schedule and cancel callouts take, and under which a client
  asks the loop about the source (`TakeGuard`, `ContainsSource`): the situation
  that the comments about lock order describe.
- **Steps.** `work[t]` is what a thread is doing. It looks at what the code looks
  at before the lock is taken, takes the lock, changes the sets for one source
  and one mode, and makes the callout. A call for the common modes, a new common
  mode, `RemoveAllSources` and invalidation are a sequence of such inner calls
  (`todo`) made while the outer call holds the lock (`held`), so their callouts
  are made with it.
- **History.** `told` is the number of schedule less that of cancel callouts,
  `late` the sources inserted although invalid by then, `taken` the places a
  source has been removed from since it was last put there.

### TimerArray, TimerArrays, RunLoopTimers — timers of one loop

`TimerArray.tla` holds two pure algorithms: the binary search of
`__CFRunLoopInsertionIndexInTimerArray` (powers of two from `flsl`, a last test
with a step of zero, short cuts at the ends of arrays longer than 256) and the
scan of `__CFArmNextTimerInMode` that stops at the first timer whose soft
deadline is past a hard deadline seen before. `TimerArrays.tla` is one array under
insertions, each at the place that the search finds, and removals, and compares
the two with what they promise: the number of items that are not later, and the
least soft and the least hard deadline of all timers that are not firing.

`RunLoopTimers.tla` models one loop, its modes and its timers.

- **Mode.** `timers` is the array; `limits` the deadlines the mode remembers
  (`_timerSoftDeadline`, `_timerHardDeadline`); `armed` what the kernel has been
  asked for; `ready` an event in the mode's ports. `ArmNext` is
  `__CFArmNextTimerInMode`: it arms only if the deadlines differ from those
  remembered, and `ArmAgain` is its call after an event that called no timer.
  `spent` is history: the mode's last event met an invalid timer (section 6). All that is not specific to one kind of kernel timer is kept; the
  mach and the dispatch timer of a mode are one timer with a deadline window.
- **Frames.** `stack` is the runs of the loop, each at its wait, with its event
  received, going through the list of due timers with the lock held (`due`), in
  a callout, or after it. `old` is `oldFireTSR`. The lists of due timers are
  computed once and may be stale; `MayFire` is what `__CFRunLoopDoTimer` tests
  again.
- **Callers.** Threads, and callouts of the loop's own thread, add, remove,
  move and invalidate timers. `CFRunLoopAddTimer`,
  `CFRunLoopTimerSetNextFireDate` and `CFRunLoopTimerInvalidate` look at the
  timer before they take the loop lock: `call[c]` holds what they saw.
- **External.** `KernelFires` delivers an event once the soft deadline is
  within `Early`; `Tick` is the clock.

`Allowed` says which threads make which calls, so that each instance can choose
the races it looks at; `RunLoopTimersMC.tla` has two of them. The
invariants speak of the modes in the domain of `mode`, which tells them apart.
`RunLoopTimersProofs.tla` holds the proofs.

### Counted, RefCount, UUIDs — reference counts and a table that does not retain

`Counted.tla` is what `CFRetain` and `CFRelease` promise: references keep an
object alive, the finalizer runs when the last one is given up, an object whose
finalizer hands out a reference lives on, only an object without references is
freed. It knows references as a set, and no count.

`RefCount.tla` is the code of 64-bit builds: one word with the count and two
bits, read and replaced by compare-and-swap. A pass of a loop that fails changes
nothing, so one that succeeds is one step. `work[t]` is where thread `t` is in
`_CFRelease`: it has found a count of one (`StartFinalizing` sets the
deallocating bit, in the pass that finds the word unchanged), is in the
finalizer, has read the count again, is setting the deallocated bit, or drops
the deallocating bit and starts over. `refs` names the references, which the
code does not have, so that a retain or release can be said to be lost; a
client releases a reference that it has and nobody else is giving up. `Life`
maps the bits to `Counted`'s phases (`KeepsReferences`, an `INSTANCE` of it).

`UUIDs.tla` extends it with `CFUUID.c`: `table` is `_uniquedUUIDs`, which does
not retain what it holds. A lookup and the retain of what it finds are made
under one lock, and so is the finalizer's removal of the entry
(`Deallocate`, a `FinalizerEnds` of `RefCount` that also changes the table). A
critical section makes one access to what others touch without the lock, the
word of an object, and is one step. `FoundInTime` says that every step is one
of `RefCount`.

### Storage, StorageNodes, ValueLists — trees that share nodes

`Storage.tla` models `CFStorage.c`, over `StorageNodes.tla`, which has what an
operation does to one node without those above and below it: nodes with at most three children, leaves
with lazily allocated memory, a node count and a frozen mark for storages made
from a range of another, the leaf that each storage remembers (`cacheNode`) and
the range kept in that leaf. The operators have the names of the functions and
thread a record through them: the nodes, the remembered leaf, and whether
memory that is not there was copied from (`crashed`). A step is one call of the
interface. `ValueLists.tla` makes the same calls on plain lists, which is what
`CFStorage.h` describes; `list` is their result and `TreesAreLists` compares.
Both make lists longer and shorter with the operators of `ValueSequences.tla`.

`ContainersMC.tla` runs three kinds of storages and the timer arrays side by
side: `kind` says which one a behaviour is about.

### RunLoopRegistry — which loop is whose

`RunLoopRegistry.tla` models `_CFRunLoopGet0`, `CFRunLoopGetCurrent`,
`_CFRunLoopSetCurrent`, `__CFFinalizeRunLoop` and the thread-specific data of
`CFPlatform.c` that calls it.

- **State.** `runLoops` is the dictionary and `made` whether it is installed,
  `rc` the reference counts of loops, `tsd` each thread's table with the two
  slots (`loop`, `cntr`) and `destructorCount`, `call` the call a thread is in,
  with the answer it will give (`loop`) and the reference it holds (`mine`).
- **Steps.** A critical section of `loopsLock` that releases no loop is one
  step. The two that retain a loop first (`SetCurrent`, `Finalize`) keep the lock
  until `Unlock`, so that freeing inside would be seen; freeing a loop takes the
  lock (`DeallocateLoop`), as `__CFRunLoopDeallocate` does.
- **End of a thread.** `life[t]` counts the passes that pthreads makes. `Sweep`
  is `__CFTSDFinalize` up to the slot of the count, `Finalize` the end of
  `__CFFinalizeRunLoop`, `EndSweep` the destructors behind it and the end of
  `__CFTSDFinalize`. Between them, and between passes, the thread may ask for its
  loop: these are the destructors of others. `Start` gives the same `pthread_t`
  to a new thread.
- **History.** `told` is the loops that were given out as that of a thread since
  it last changed, `missed` the threads for which the finalizer will not come, or
  has come already (see section 6).

### CallBackPtrs, BasicHash — hashes and what they share

`CallBackPtrs.tla` models `CFBasicHashGetPtrIndex`, which enters callbacks in a
table of all hashes without a lock: search (the count is read anew in each turn),
limit, atomic increment and the write of the entry are steps. `given` is the
indexes that were returned.

`BasicHash.tla` models `CFBasicHash.c` under linear probing, the only style that
dictionaries, sets and bags ask for. `ht` is a record of the hash; an entry is
what fills a bucket, with its key and that key's hash code as constants, so
that equal keys and colliding codes are chosen by the instance. `Deleted` is the
mark `~0`. A step is one call, with the rehashing it leads to: `Rehash` chooses the
new size, and `MoveAll` goes over the old buckets in order and puts what it finds in
the first empty bucket on the way of its key. `bag` is how often
the calls put each key in, `held` how often each entry was retained and not
released.

### MachPort — objects for Mach ports

`MachPort.tla` models `CFMachPort.c`: `_CFMachPortCreateWithPort2`, invalidation
with its callback, the checker that runs when a port dies, the finalizer, the run
loop source of an object and the message that arrives through it.

- **State.** `mp` is the objects, with the state of `__CFMachPort`, the port, the
  source and the dispatch source; `watch` is how far that dispatch source is
  (alive, canceled, cancel handler done). `allMachPorts` is `__CFAllMachPorts`,
  `info` how often each context's info is retained, `rls` the sources, `dead` the
  ports that died. `doing[a]` is what a thread is doing, or the block that the
  checker has sent to the main queue for an object; `holds` what clients own.
- **Steps.** A critical section of `__CFAllMachPortsLock` or of an object's
  `_lock` is a step, and so is what lies between two of them. `WatchPort` is the
  store of `_dsrc` and `_dsrc_sem`, which no lock covers. References are not
  counted but found where they are kept (`RetainCount`, `SourceCount`).
- **External.** Ports die, and a name is given out again once no object relies on
  it (`PortReused`). The main queue runs one block at a time (`RunBlock`); the
  order of its blocks is left open.

`TablesMC.tla` runs these three, the registry and the UUIDs side by side.

### Socket — a socket between its clients, the manager and the run loops

`Socket.tla` models the second half of `CFSocket.c` (`NEW_SOCKET` is 0) for one
socket: clients enable, disable, schedule and invalidate it; the manager thread
waits in `select`, receives and signals; run loops perform its source.

- **State.** `sock` is the socket: the valid and signalled bits, `_f.disabled`,
  `_f.connected`, `_errorCode`, `_socketSetCount`, `_runLoops` and the data
  queue. `active` is what `__CFActiveSocketsLock` guards: whether the socket is in
  the manager's arrays and in each of the two fd sets, and whether a byte is in the
  wake-up sockets. `manager` is the place of `__CFSocketManager` with its copies of
  the sets and what it has received; `source` the signaled bit and the loops of
  the source; `loop[l]` the place of a loop, in or out of `__CFSocketPerformV0`.
  How a socket was made (its types of callbacks, its flags, whether it is
  connection-oriented) is its `kind`, which does not change.
- **Steps.** A critical section of the socket's lock, with that of
  `__CFActiveSocketsLock` inside it, is a step. `recvfrom`, `accept` and
  `getsockopt` are called before the lock is taken and are steps of their own;
  so are the choice of a loop to wake, the waking, and each callback.
- **User code.** While a callback runs, its thread and others may call what they
  like of the interface; a client that was told it can read may read (`ReadItem`)
  or not.
- **External.** `NetStep` is the other end and the kernel: a connection that
  succeeds or fails, items numbered in the order they are sent, the end of the
  data, a send buffer that fills. `RunLoopStep` is what a socket sees of a loop
  (`RunLoop` models it).
- **History.** `calls` holds the items that callbacks were given, how often the
  end of connecting was told, and the types that only a call of
  `CFSocketEnableCallBacks` will enable again (`left`).

`SourcesMC.tla` runs it beside `RunLoopModes`; `SocketMC.tla` has the kinds.

## 3. Runs

| Run | Instance | Shows |
|---|---|---|
| `runloop` | two instances: one run at a time in either of two modes, with two ordered version 0 sources, stopped modes and three blocks; and runs nested two deep in either of two modes, one of which serves the main queue, with a port source, a block for one mode and one for both | types; a run that had the loop to itself since its iteration began loses no wake-up, whatever callouts do; blocks for the same modes run first in, first out unless runs nest; each pending block is in exactly one list, once; the main queue is not served from inside its own callout |
| `runloop_live` | one run, with every kind of timeout, a source of either version, a block and the main queue, fairness of section 4 | sources and blocks of the running mode are served, stop and timeout end the run, a busy loop gets to the main queue |
| `runloop_lost_wakeup` | two nested runs, a source in one mode only; expected to be violated | a finding of section 6 |
| `sources` | modes: two threads, two loops of two modes, one source, every operation; sockets: seven kinds, for one loop or two (accept; data with connect; data; read; connect with write), sent up to two items | types; schedule and cancel callouts balance; the source's bag counts its modes; a source that was invalidated is in no mode once the call returns, unless an add that saw it valid came late; common items are in all common modes; a socket gives what arrives once and in order, the end last; a type that a client waits for is watched for, signalled or about to be enabled again; the manager listens only for a socket that is valid, scheduled and in its arrays, and for no data that is disabled |
| `modes_embrace` | the calls for the common modes only; expected to be violated | a finding of section 6 |
| `timers` | two instances, runs nested two deep in each: one mode, timers that both threads add, remove, move and invalidate at will; and two modes, with timers added by name or to the common modes, whose dates are left alone | types; arrays sorted; each timer of a mode has an event or a deadline in time, but for modes that hold an invalid timer or whose last event met one; no early or recursive callout |
| `timers_live` | one run at a time, timers added and moved, fairness of section 4 | a due timer is called, moved or removed |
| `timers_honored` | callouts that add and move two timers in two modes; expected to be violated | a finding of section 6 |
| `containers` | a storage alone (five values, leaves of two), two that share leaves (three values), two that share branches (four, leaves of one), every sequence of calls; beside them timer arrays up to length 6 over four dates and three tolerances | each tree holds its list and is sound as `__CFStorageCheckNodeIntegrity` demands; nodes neither leak nor dangle; shared leaves are frozen; a storage alone finds values through its remembered leaf; the binary search and the scan agree with their definitions |
| `storage_writable` | two storages with leaves of one value; expected to be violated | a finding of section 6 |
| `tables` | unique UUIDs: three threads, two objects, three references, two values; registry: two threads and four passes; callbacks: two threads, three callbacks, limit 3; hash: six entries, plain and counted, growing fast and not; Mach ports: one port, two threads with one object and two sources, and one thread with two objects | counts are exact, one finalizer at a time, the word implements `Counted`, lookups find live objects, releases return; callers agree on loops, which are counted, taken out and freed outside the lock; an index leads to its callback; a hash is the bag its calls describe; a Mach port object is taken apart once, and entirely before it is freed, and the info that a callout uses is retained |
| `socket_accept` | one socket that accepts; expected to be violated | a finding of section 6 |

Deadlock is not checked in `sources`, because the deadlock of `modes_embrace`
is one of its behaviours, nor in the runs of `Storage`, which end when the
process has crashed.

Bounds. One client thread and the loop's own thread are enough for each race of
two: the client may stand at any point of its call sequence while the loop is at
any point of its iteration. Two frames are enough for a nested run to disturb an
outer one; the outer one sees nothing of the depth above it. Two sources, or two
blocks, give two positions in an order. The wake-up port, ports of version 1
sources and the main queue's port are bits or bounded by the kernel's limit in
the code itself, so no bound is added to them; `MaxDepth` bounds the nesting,
and each block is handed over once, which bounds the lists.

In `RunLoopModes` two threads stand for each pair of racing calls, and two modes
for a call that goes through all common modes; two loops for an invalidation that
visits one after the other. `Ops` says which calls a run has. No bound is put on
their number: the state space is finite. In
`RunLoopTimers` two timers give the array an order, a timer and its successor to
arm; the clock stops at `MaxTime = 2`, after one more repetition of a timer first
due at 1, and `LastDate` stands for the date of timers that never fire again.
Both timers tolerate a delay of one, so that soft and hard deadlines differ.
`Limit` of `TimerArray` is 256 in the code and 4 in `containers`, so that both
kinds of array occur. In the runs of `RunLoopTimers` the place of an insertion is
the count that the search returns (`PlaceIsFound`).

In `runloop_live` a source of either version and calls of either kind are enough:
liveness of one run does not depend on which other sources there are.

Nodes of a storage are told apart only by what refers to them, so `containers`
compares states by `Nameless`, which numbers nodes as they are found from the
roots and leaves out a cached range that nothing reads. Five values in leaves of
two make a root with branches under it, and with it each kind of split and merge;
sharing needs a second storage and a depth of one or two more, hence the other
two kinds.

Three threads in `UUIDs` are one in the finalizer, one that finds the object
meanwhile and one that releases that reference again. Two threads of the registry
are the main thread and one that ends and is replaced; four passes is the number
of pthreads (`PTHREAD_DESTRUCTOR_ITERATIONS`), and four loops are enough for
those entered, remembered and just made at once. In `CallBackPtrs` `Size - Limit`
is as small as the number of threads. `BasicHash` has the tables of sizes and
capacities of the code in small: a table without room beside its capacity, larger
ones with some, six steps, of which shrinking looks back 2 or 3 (2 or 5), purging
from nine buckets (20), marks counted modulo 3 (2^16), counts wider at 1, 2 and 3.
`MaxBag = 2` bounds how often a bag holds a key. In `MachPort` one port is enough,
because nothing relates two of them but the checker, which goes through its table
entry by entry; a second source stands for one made after the first was
invalidated, a second object for one made while the first is taken apart. Two
threads that make two objects for one port are not covered together.

In `Socket` one socket is enough: sockets share the fd sets, in which each has its
own bits, and the manager's loops, which handle one after the other. A socket has
one type that reads; two loops are enough for a choice between them and for two
performers at once, who may give their items in either order, so that the order is
stated for one loop. Two items and the end make a queue that outlives a perform;
`MaxQueue = 2` bounds it, because a client that enables the callback while the end
is queued has the end received again.

Every run terminates on its full state space.

## 4. Fairness

`FairSpec` of `RunLoop` assumes, besides `Spec`:

- `SF_vars(LoopStep)`: once a run has begun its thread keeps taking steps, and
  user code it calls returns. The fairness is strong because other threads may
  hold the loop lock (and so disable a step) again and again; a pthread mutex
  that is released infinitely often is acquired eventually. It is fairness of
  the thread as a whole, so no promise is made that the kernel prefers one
  ready port to another.
- `WF_vars(t \in owes /\ WakeUp(t))`: a thread that gave the loop work makes
  its `CFRunLoopWakeUp` call. `CFRunLoopStop` makes it itself; for sources and
  blocks it is the protocol that `CFRunLoopSourceSignal`'s callers follow.
- Weak fairness of the timeout handler, which libdispatch runs.

Starting a run, signaling, sending to ports and the main queue becoming ready
are never required to happen.

`FairSpec` of `RunLoopTimers` assumes the same of the loop's thread
(`SF_vars(LoopStep)`: its callouts return, the loop lock is not withheld from it
for ever), that each thread ends the call it has begun (`SF_vars(Continue(c))`),
and that the kernel delivers the event of an armed timer
(`WF_vars(KernelFires(m))`). No run is required to begin, nor to end.

`FairUUIDSpec` of `UUIDs`, and `TablesSpec` for it, assumes that a thread inside
`_CFRelease` keeps running, finalizer included. That is all: it follows that the
release returns, because others can keep resurrecting the object only as long as
it is in the table, which it enters once.

## 5. Proofs

`RunLoopProofs.tla` proves, for any sets of threads, modes, sources and blocks,
any assignment of modes, any set of ways to call a run and any depth of nesting:

- `TypeCorrectness`: `Spec => []TypeOK`;
- `WakeUpsAreNotLost`: `Spec => []NoLostWakeUp`;
- `MainQueueIsNotReentered`: `Spec => []MainQueueNotReentered`;
- `BlocksAreNotLost`: `Spec => []NoBlockLost`;
- `FlatRunsKeepOrder`: `NestingSpec => []FlatBlocksInOrder`: behaviours with one run
  at a time keep the order of the blocks; nested runs do reorder them.

The only assumption is `RunLoopAssumption`: the constants have the right kinds,
at least one mode exists, and the loop's thread is not one of the clients.

No safety property is inductive. `NoLostWakeUp` speaks of a run that is
asleep, and how it came to sleep matters. The invariant `IInv` adds

- `Stack`: frame 0 is outside every run, all frames below the top are in user
  code, and each frame satisfies `FrameOK`, the facts that the code relies on
  at each place (wake-ups are not ignored between the start of an iteration and
  `mach_msg`, a second pass over the blocks happens only after a handled
  source, a run that decided to block has handled nothing);
- `Watchful`: if the top frame is before its sleep and will block (`Alert`), and
  no wake-up is queued or owed, then there is nothing that this frame will not
  look at again before it blocks (`NothingMissed`): a signaled source only while
  the frame has yet to collect or to call it, a block only before the first
  pass;
- `OneServer`: no frame above one that is in the main queue's callout serves
  the main queue.

For blocks, `BlocksInv` names the places at which a run has a detached list, and
says that the loop's list and all detached ones hold no block twice, share none,
and have exactly the blocks that were handed over and have not run. `OrderInv`
adds that the detached list followed by the loop's list is in the order of the
calls, which is what the splice at the end of `__CFRunLoopDoBlocks` restores.

There is one lemma per action. Most go through `TopStep`, which reduces a step
of the loop's thread to a fact about its new top frame, or `OtherStep`, for
steps that leave the frames alone.

`RunLoopModesProofs.tla` proves every safety property that `sources` checks of modes, for any
finite number of threads and modes, any loops and sources, any common modes at
the start and any set of operations in use:

- `TypeCorrectness`: `Spec => []TypeOK`;
- `BagsAreExact`: `Spec => []BagCountsModes`;
- `CalloutsDoBalance`: `Spec => []CalloutsBalance`;
- `InvalidDoLeave`: `Spec => []InvalidLeaves`;
- `CommonItemsAreEverywhere`: `Spec => []CommonItemsEverywhere`.

The only assumption is `ModesAssumption`: the constants have the right kinds,
threads and modes are finite sets, and no set of the model is empty. Four
invariants carry the proofs, each with the types:

- `Bags`: the count of a loop in a source's bag is at most the number of the
  loop's modes that the source is in, and equal to it while the source is valid.
  The first half is what bounds the bag once an invalidation has emptied it and
  late adds count from zero.
- `Told`: what a source has been told of a mode is 1 or 0, as it is a member or
  not, less the schedule callouts and plus the cancel callouts still to be
  made. The threads that have one to make form a finite set (`Telling`), and a
  step changes its size by what it adds or takes (`TellingChange`).
- `Left`: whatever an invalid source is still in, unless it came late, is on the
  list of the thread that invalidates it (`Leaving`). That the list is complete
  when it is made is `Bags`.
- `Everywhere` with `Owners`: a valid common item that is missing from a common
  mode, and was not taken out of it, is on the list of a thread (`Adding`) that
  holds the loop lock; a thread owns the lock that its outer call holds, so the
  lists are empty when the lock is free.

Each invariant has a lemma on the thread that moves (`LeavingGoesOn`,
`AddingGoesOn`), one on the others (`OthersStay`, `LocksStay`), and one on what
can enter or leave the sets (`OnlyInsertJoins`, `MemberOrTaken`, `ItemComes`).

`TablesProofs.tla` proves, for any number of threads, objects and (finitely
many) references:

- `CountsAlwaysExact`: `Spec => []CountsAreExact`;
- `OneFinalizerAlways`: `Spec => []OneFinalizer`;
- `ReferencesKept`: `Spec => C!Spec`, the refinement of `Counted`.

The refinement needs to know that a thread which frees an object holds its last
reference. The invariant `IInv` adds that the count is the number of references
(`Counts`), that a thread inside `_CFRelease` still has the reference it gives up,
alone (`Working`), that the deallocating bit is that of the one thread which set it
(`Deallocating`), and that past the second read of the count nobody else has a
reference (`Hammering`).

It also proves `TableImplements` (`UUIDSpec => FoundInTime`: each step
over the table is a step of `RefCount`, so its theorems hold for the table too)
and `TableAlwaysFresh` (`UUIDSpec => []TableIsFresh`). An object in the table has
not passed its finalizer's removal, so its release will read the count again and
see the reference that a lookup has taken.

`RunLoopRegistryProofs.tla` proves, for any number of threads and loops and any
number of passes above two:

- `RegistryTypes`: `RegistrySpec => []RegistryTypeOK`;
- `CallersAgree`: `RegistrySpec => []AnswersAgree`;
- `LoopsDieWithThreads`: `RegistrySpec => []DeadHaveNoLoop`;
- `LoopsAreCounted`: `RegistrySpec => []LoopsCounted`;
- `NoLoopFreedInside`: `RegistrySpec => []FreedOutsideLock`.

The invariant `RegistryInv` adds to these that an answer on its way is the loop
that is entered (`Answers`), that a thread remembers the loop that is entered for
it (`Remembers`), that nobody asks for the loop of a thread that ends, except
itself (`Asking`), and the arithmetic of the passes: while a thread runs its count
is `Iterations - 1` (`Countdown`), and when it ends the count is that of the passes
to come but one, until the finalizer is reached in the last pass that still finds
the table (`Waiting`). `RegistryAssumption` asks for at least three passes, POSIX
having no fewer than four, and for finitely many threads. `LoopsCounted` says that the
count of a loop is the number of places that have it; `CountInv` adds which calls
carry a loop (`Hands`). A step changes one entry of the dictionary and one call, so
that one lemma (`Recount`) about the two cardinalities covers them all.

`RunLoopTimersProofs.tla` proves, for any number of modes, timers and threads, any
dates, intervals and tolerances, and any nesting:

- `TimerTypes`: `Spec => []TypeOK`; no array holds a timer twice, and no date that
  a repetition computes is past the last one;
- `TimersFireInTurn`: `Spec => []FiresInTurn`;
- `ArraysStaySorted`: `ASSUME Steady PROVE Spec => []ArraysSorted`;
- `TimersAreArmed`: `ASSUME Steady, Early = 0 PROVE Spec => []EveryTimerArmed`.

`Steady` is that there is one mode, or that no thread calls
`CFRunLoopTimerSetNextFireDate`. Without it both properties fail, in the sequences of
section 6; `Early = 0` is needed for the event described there. `TimersAssumption`
also asks that the clock stays an interval away from `LastDate`, as intervals are
limited in the code "for conservative arithmetic safety" and the clock starts at boot.

`TurnInv` says that a timer which is being called has the firing bit, and that no two
runs call the same one. `TimersInv` has the types, the timers of each array
(`Members`) and what a call or a callout may have left behind (`Moving`, `Timely`);
with it `Sorted` is inductive: the place of an insertion is the number of timers
that are not later, which in a sorted array are its first ones (`Inserting`).
`ArmedInv` carries the last theorem. `Covered`: the remembered hard deadline is no
later than that of any timer that can fire, because the scan of
`__CFArmNextTimerInMode` may stop only where later timers cannot lower it
(`ScanIsRight`, for every sorted array). `Armed`: the kernel was asked for just these
deadlines, or its event has come, and then waits, is being looked after, or was
spent. `Collected`: the timers that the event is for are in the list of those to
fire, so that an event which calls no timer had none to call; with `Runs`, which
says what the runs below the innermost one are at. Induction over positions in an
array is avoided by `Interval1`: a set of positions that has with each the one
before it is 1..k for its cardinality k.

`SocketProofs.tla` proves, for any kinds of sockets, any number of loops and any
number of items sent:

- `FdsAreAlwaysOwned`: `SocketSpec => []FdsAreOwned`;
- `NothingIsForgotten`: `SocketSpec => []NothingForgotten`;
- `ItemsAreGivenInOrder`: `SocketSpec => []GivenInOrder`.

`SocketInv` says what the arrays and fd sets may hold (`Owned`, `Entered`), that the
schedules are counted (`Schedules`), what the manager and each loop have in hand
(`Managing`, `Looping`), and follows a type that a client waits for through the
hands it passes: watched for, with the manager waiting on no stale copy (`Telling`);
signalled, with the source signaled or a loop about to look (`Pending`); noted to be
enabled again by a performer (`Covering`). `Sleeping` covers the gap between
signaling the source and waking the loop. `OrderInv` adds that what was given, what a
loop holds, the queue, what the manager has received and what has not been read are,
one after the other, the items in the order sent (`Keeping`), for a socket with one
loop, that nothing follows the end (`Ending`), and that the end of connecting is in
one performer's hands (`Connecting`). `SocketAssumption` says what kinds of sockets
there are.

`MachPortProofs.tla` proves, for any number of ports and finitely many threads,
objects and sources:

- `PortsComeApart`: `MachSpec => []ComesApart`;
- `InfoOutlivesCallouts`: `MachSpec => []InfoKept`.

`MachInv` says for each place of an actor what it has and in which state its object
is (`Placed`, `Informing`). An object is in the table while it is ready, and only then.
One that is being invalidated is in the hands of one actor, alone (`Alone`), which
keeps a reference; hence one without references that is not free is invalid, and its
finalizer has nothing left to take down (`Sound`). The references to an info are
counted as those of the object and of the actors about to give one up or performing
(`InfoCounted`).

`RunLoopTimersProofs.tla` also proves, for timer arrays of any length, any dates and
tolerances and any `Limit`:

- `SearchesAndScans`: `ArraySpec => []SearchAndScanAreRight`;
- `PlaceIsFound`: the place at which `RunLoopTimers` inserts a timer is the one that
  the search finds.

`ArrayInv` is that the array is in order. In one that is, the items that are not later
than a date are the first p (`NotLaterAre`), so a test of the search tells whether an
index is below p. Through the loop, p is at `idx` or at most `add` behind it, and
`idx` is 0 or was tested (`SearchFinds`); that this is exact at the end, with `add`
down to 1 and then 0, needs every `add` to be a power of two, and the first one to be
above the length (`PowersAre`). The scan leaves out only what comes after the hard
deadline of something that it visits (`ScanVisits`). What is put at p keeps the array
in order (`PutKeeps`).

`TablesProofs.tla` also has the theorems about the tables of CFBasicHash:

- `IndexesLeadToPtrs`: `PtrsSpec => []IndexLeadsToPtr`, for any number of threads that fits
  between the limit and the end of the table. Every call past the check has room
  (`Room`), an entry that is taken is its taker's alone (`Taken`), and nobody finds
  NULL in an entry that is about to be written, because it is found in the first
  (`NullIsFirst`);
- `HashesAreBags`: `HashSpec => []HashIsBag`, for any finite set of entries, any keys,
  hash codes, table sizes and capacities.

`HashAssumption` says of the sizes and capacities what the code's two tables
satisfy: capacities do not fall and are never above the sizes, the first size is 0, and
all keys fit into a size that is not the last. `HashInv` adds to `HashIsBag` what the searches rely on. `Layout`: every bucket has an
entry, is empty or is marked (the types); no key is in two buckets (`Distinct`); no
bucket on the way to a key is empty (`Reached`), which is why a removal leaves a mark;
counts are kept for what is there, and only for that (`CountsKept`). `Sound`: the
table counts the buckets in use, and these are within its capacity. `MarksCounted`: the
marks are as many as the table has counted, fewer than the limit at which it is rehashed.
`Agrees`: a key is in the table if it is in the bag, as often, with the entry that is
retained. That rehashing keeps this is `AllMoved`: after i buckets the new table holds
what the first i old ones do, and nothing else (`OneMoreMoved`).

Where a recursive function is involved (`MoveAll`, the two of `TimerArray`), its
equations are proved first, by building the function up to n (`LoopUnrolled`,
`ShiftUnrolled`, `SearchUnrolled`). Induction is done with sets: if 0 is in a set, and
each number is when those before it are, then all are (`UpTo`), because a set of
numbers that is not empty has a least one.

`StorageProofs.tla` proves what an operation does to a single node of a storage, for
any capacity of a leaf, any values and any heap with nodes to spare (one, or two where
the code makes two), in `StorageNodes`:

- `UnfrozenLeafTakesValues`, of `__CFStorageInsertLeafUnfrozen`, and `FrozenLeafIsKept`,
  of `__CFStorageInsertLeafFrozen`: the one leaf or two that come out have the list of
  the leaf's values opened at the place, lazily allocated or not; neither is empty or
  too long; the leaf that is remembered knows where in the tree it begins; no other node
  changes, and a frozen leaf not at all but for a count. The second also says when
  memory that is not there is read: in the middle of a full leaf, and never else;
- `LeafLosesValues`, of `__CFStorageDeleteLeafFrozen` and the leaves of
  `__CFStorageDeleteUnfrozen`: the list is closed, in a new leaf if and only if the
  leaf is frozen;
- `ChildIsFound`, of `__CFStorageFindChild`: the child that has the value; for an
  insertion the first that has the place or ends there;
- `PartsAreInRange`, of `intersectionRange`: a deletion takes from a child what the range
  and the child have in common;
- `SplicedChildrenGrow`, `BranchTakesChildren` and `BranchIsCopied`, of
  `__CFStorageInsertBranchUnfrozen` and `__CFStorageInsertBranchFrozen`: after an
  insertion below one child the children are at most one more, and together longer by
  what was inserted; they go, in their order, to one branch or two and two to two, which
  know their lengths.

The hypotheses are that the node and its children are there, of the right types and
sound themselves, that nodes on the heap are numbers (the first free one is taken) and
that `None` is neither the name of a node nor one (`StorageNodesAssumption`). Values are tracked by what a leaf holds
(`Held`: its memory, or garbage where there is none), so one lemma (`OpenedLazily`,
`ClosedLazily`) covers both kinds of memory; lengths by their partial sums (`Sums`),
because the length of a list of children is a recursive function (`LengthUnrolled`).
These are the steps of an induction over the tree; the induction itself is over
recursive operators, in `Storage`, and is left to TLC.

Only model-checked: `TreesAreLists`, `EachTreeIsSound`, `SharedLeavesAreFrozen` and
`OwnCacheIsRight` of the storages, whose operators are recursive over trees; and all
liveness (`SignalServed`, `BlockServed`, `RunEnds`, `MainQueueServed`,
`DueTimerFires`, `ReleaseReturns`), which is out of the prover's reach.

## 6. Findings

Each is a run that is expected to fail; the trace shows the sequence.

`runloop_lost_wakeup`: `CFRunLoopWakeUp` says that it sends unconditionally
"since we don't want to lose a wakeup". All activations of a loop share one
wake-up port, and `__CFRunLoopRun` looks at its sources before it calls the
before-waiting observers. A nested run started in such an observer, in a mode
that does not hold the source, receives the one message sent for it; when it
returns, the outer run blocks in `mach_msg` with its own source signaled and no
message queued. `NoLostWakeUp` is the strongest form that does hold: it excuses
runs in which a nested run ended between two looks (`nested`).

`modes_embrace`: the schedule and cancel callouts are made "after unlocking the
run loop and mode locks, to avoid deadlocks where the source wants to take a
lock which is already held in another thread which is itself waiting for a run
loop/mode lock". A call for the common modes reaches them through a recursive
call made with the loop lock held, so the inner unlock does not release it, and
that deadlock exists. With calls for named modes only it does not.

`timers_honored`: a date moved later in the timer's own callout is honored, with
the minimum computed again, but only for the mode that is running. Moving the
date while the timer was firing left it out of the computation in its other
modes, which are then not armed for it.

`storage_writable`: "If a node is frozen, all of its descendants should be
considered frozen" (`CFStorage.c`). A storage made from a range of another freezes
the nodes that both refer to, not those below. The fast path through the
remembered leaf looks at the mark of the leaf alone, so that a storage that
remembers a leaf two levels down writes through it into the other.

`socket_accept`: of the bits of disabled callbacks the comment says "if (!force) we
respect those bits, meaning they may stop us from enabling". The code tests the bit
of `kCFSocketReadCallBack` for every type that reads. `kCFSocketDataCallBack`
contains that bit, `kCFSocketAcceptCallBack` does not: a client that disables the
accept callback while it is being made is listened for again when its source has
been performed, and called again.

Observations that no run is about. `CFUUIDGetConstantUUIDWithBytes` retains
nothing if an equal object exists, which its creator may then free
(`ConstantsAreImmortal` does not hold). When a deletion makes a shared branch
the root of a storage, its children are retained for the root without being marked
frozen; an insertion in the middle of a full shared leaf whose memory is not there
yet copies from a null pointer (`crashed`); and two storages that remember one leaf
overwrite each other's range. `containers` is split into kinds along these lines.
The callbacks of a hash run while the table is half changed; the model has none
that call back.

Of the registry: `__CFFinalizeRunLoop` is "Called for each thread as it exits", but
only if the thread has asked for its own loop while its table of thread-specific
data was there. The loop of a thread that others have asked about stays in the
dictionary, and a later thread with that `pthread_t` inherits it, with its sources.
`AnswersAgree` and `DeadHaveNoLoop` excuse those threads (`missed`), and threads that
ask once more after their finalizer has run: the slot of the loop is not cleared, and
what they are given may be freed.

Of `CFSocket.c`: when `accept` fails, the manager has cleared the fd and nothing sets
it again, so that the socket accepts no more until its client enables the callback.
A client that disables the write callback before the socket is connected clears the
fd that the connect callback waits for; a write callback that is disabled is still
made together with the connect callback. `__CFSocketHandleWrite` clears the error of
the native socket before it finds the callbacks disabled. Any failure of `recvfrom`,
`EAGAIN` among them, counts as the end of the data and invalidates the socket.
Callbacks are disabled only while the socket is scheduled, and scheduling enables
them all again. `CFSocketInvalidate` holds `__CFAllSocketsLock` across the release
callback of the context and the invalidation of the source. `GivenInOrder`,
`NothingForgotten` and `BitsAreOwned` are worded around these.

Of `CFMachPort.c`: `_CFMachPortCreateWithPort2` stores the dispatch source and its
semaphore after the object can be found in the table, without the lock that the
comment on those fields names. A thread that finds the object in between and
invalidates it cancels nothing, and the block that gives the rights up waits for
the cancel handler for ever; the model reaches that state, and no property denies
it. The invalidation callback cannot be changed once an object "has started going
invalid", but it can be cleared, and set again after that, and is then called
twice. A callback that is called directly is given an info read after unlocking,
which an invalidation in another thread may have released.

Two more sequences bound what the runs of `RunLoopTimers` claim. With `Early = 1`,
an event that comes too early leaves a mode without a deadline:
`__CFRunLoopRun` calls `__CFArmNextTimerInMode` to arm it again, which does
nothing because the deadlines are those it remembers. The same happens with an event
in time if the timer it was for has been invalidated and not yet removed: it is
skipped, the deadlines stay as they are, and if another timer with the same
deadlines then takes its place nothing is armed for it (`Spent`). And a client that moves a
timer while another thread adds it to the common modes can leave the array of
one of them unsorted, because `CFRunLoopTimerSetNextFireDate` notes the timer's
modes before it takes the loop lock. The runs therefore have `Early = 0`, and
timers are moved only where there is one mode.

## 7. What is not modelled

`PROJECT.json` says for each component whether it is modelled and why not. In
short: text, Unicode, locales, URLs, XML and property lists are functions on
data with next to no control state; bundles and file utilities are wrappers of
I/O; the Foundation classes forward to the CF types; the rest is in the plan.

Within the modelled parts these are left out. `RunLoop`: membership and timers,
which have modules of their own, and the Windows port. `RunLoopModes`: observers
and timers, ports of version 1 sources, `CFRunLoopRemoveAllSources` of a loop's
common modes, a loop that is being deallocated. `RunLoopTimers`:
`CFRunLoopTimerSetTolerance`, removal from the common modes, timers that move to
another loop, wake-up calls (part of `RunLoop`), a loop that is being
deallocated, the difference between the mach and the dispatch timer of a mode.
`RefCount`: the 32-bit word with its external table, classes that count
themselves, garbage collection. `UUIDs`: strings, hashing, the weak set of
collected builds. `Storage`: enumeration with blocks, the option that freezes every
new node, values of more than a byte (the code works in bytes throughout).
`RunLoopRegistry`: what the finalizer does to a loop's contents, the counterpart
that Foundation attaches, fork. `BasicHash`: copies, enumeration, the two calls
that change integer values (nothing in the library calls them), double and
exponential hashing (nothing asks for them), weak and collected memory, cached
hash codes, callbacks that change the hash they are called from.
`MachPort`: which rights a new port is given and how they are dropped, contexts
without a retain callback, descriptions and getters, garbage collection.
`Socket`: buffered reads with their timeouts (and the restoring of an fd there
without a look at whether the socket is scheduled), addresses, sending, flags that
change, `kCFSocketLeaveErrors`, a source in several modes of a loop or invalidated
without its socket, loops nested in callbacks, schedule and cancel callouts that come
late (`RunLoopModes` has them), a `select` that fails, several sockets, the name
registry, the implementation on libdispatch (`NEW_SOCKET`).

## 8. Plan

Modules, most important first; each gets an MC module, runs and mutants.

1. `RunLoop`, `RunLoopProofs` (done).
2. `RunLoopModes`, `RunLoopModesProofs` (done): still to come, observers and
   timers as members of modes, and a loop that is being deallocated.
3. `TimerArray`, `TimerArrays`, `RunLoopTimers` with their proofs (done): still to come, tolerances
   that change.
4. `Counted`, `RefCount`, `UUIDs` and their proofs (done): still to come, the
   32-bit word with its table as a second refinement of `Counted`.
5. `Storage`, `StorageNodes`, `ValueLists`, and proofs about single nodes (done).
6. `RunLoopRegistry` with its proofs (done): still to come, the draining of a
   loop, composed with `RunLoopModes`.
7. `CallBackPtrs`, `BasicHash` with their proofs (done): still to come, callbacks
   that call back.
8. `MachPort` with its proofs (done).
9. `Socket` with its proofs (done): still to come, buffered reads.
   `MessagePort`, `Stream`.
10. `Array`, `BinaryHeap`, `Tree` as operators against reference definitions.
11. `NSCache`, plug-in factories, preferences' search list cache.

Theorems still to prove: that the trees of `Storage` hold their lists, once its
operators on trees are given by recursive functions.
