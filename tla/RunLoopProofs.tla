--------------------------- MODULE RunLoopProofs ---------------------------
(* Proofs about RunLoop for any number of threads, sources, blocks and      *)
(* nested runs: the variables keep their types, a run that had the loop to  *)
(* itself never sleeps on work it was woken for, the main queue is not      *)
(* served from inside its own callout, no block is lost, and runs that do   *)
(* not nest call the blocks in order.                                       *)
(*                                                                          *)
(* The inductive invariant IInv adds to the types what the code relies on   *)
(* at each place: Stack says it of every frame, Watchful of the work that   *)
(* the top frame would miss, OneServer of the main queue.                   *)
EXTENDS RunLoopNesting, TLAPS, SequenceTheorems, FiniteSetTheorems

\* Where a run is between the start of its iteration and the end of its wait.
BeforeSleep == {"timers", "sources", "blocks1", "collect", "perform",
                "blocks2", "prepare", "waiting", "asleep"}

\* What holds of every frame by itself.
FrameOK(f) ==
  /\ f.pc \in Locked \cup {"asleep", "received"} => ~f.out
  /\ f.pc \in BeforeSleep => ~f.ignore
  /\ f.pc = "blocks1" => f.unread = MembersOf(f.mode)
  /\ f.pc = "blocks2" => f.handled
  /\ f.pc = "waiting" => ~f.poll /\ ~f.handled
  /\ f.pc = "asleep" /\ ~f.poll => ~f.handled
  /\ f.pc = "main" => f.dispatch
  /\ f.pc \in {"received", "woke", "handle"} /\ f.live = "main" => f.dispatch

\* Frame 0 is outside every run; what is below the top is in user code.
Stack ==
  /\ frame[0].pc = "idle"
  /\ \A d \in 1..depth : frame[d].pc # "idle"
  /\ \A d \in 0..depth : FrameOK(frame[d]) /\ (d < depth => frame[d].out)

\* The top frame will block unless something ends the wait.
Alert == /\ Top.pc \in BeforeSleep
         /\ ~Top.nested /\ ~Top.handled
         /\ ~(Top.pc = "perform" /\ Top.out)
         /\ ~(Top.pc = "asleep" /\ Top.poll)

OnTheWay == wakePort = 1 \/ owes # {} \/ firing # {}

\* What the run would not look at again before it blocks.
NothingMissed ==
  /\ ~Top.stopped /\ Top.mode \notin modeStopped
  /\ Top.pc \in {"waiting", "asleep"} => ~Top.expired
  /\ \A s \in signaled :
       Top.mode \in ModesOf[s] =>
         \/ Top.pc \in {"timers", "sources", "blocks1"}
         \/ Top.pc = "collect" /\ s \in Top.unread \cup Top.todo
         \/ Top.pc = "perform" /\ s \in Top.todo
  /\ Top.pc \notin {"timers", "sources"} =>
       \A i \in DOMAIN blocks : Top.mode \notin BlockModes[blocks[i]]

Watchful == Alert /\ ~OnTheWay => NothingMissed

\* The main queue is served by at most one frame, and not above it.
OneServer ==
  \A c, d \in 0..depth :
    c < d /\ frame[c].pc = "main" => ~frame[d].dispatch

IInv == TypeOK /\ Stack /\ Watchful /\ OneServer

\* The part of TypeOK that is not about frames.
RestOK ==
  /\ signaled \subseteq Sources0
  /\ blocks \in Seq(Blocks)
  /\ modeStopped \subseteq Modes
  /\ wakePort \in 0..1
  /\ ports \subseteq Sources1
  /\ mainQ \in BOOLEAN
  /\ owes \subseteq Threads
  /\ firing \subseteq 1..MaxDepth
  /\ asked \in Seq(Blocks)
  /\ ran \subseteq Blocks

-----------------------------------------------------------------------------
(* Lemmas used by every step.                                               *)

LEMMA RemoveAtType ==
  ASSUME NEW S, NEW s \in Seq(S), NEW i \in DOMAIN s
  PROVE  RemoveAt(s, i) \in Seq(S)
<1>1. i \in 1..Len(s) /\ Len(s) \in Nat
  OBVIOUS
<1>2. SubSeq(s, 1, i - 1) \in Seq(S) /\ SubSeq(s, i + 1, Len(s)) \in Seq(S)
  BY <1>1, SubSeqProperties
<1> QED
  BY <1>2, ConcatProperties DEF RemoveAt

\* The top frame is a frame, and outside every run only frame 0 is left.
LEMMA TopFacts ==
  ASSUME IInv
  PROVE  /\ Top \in Frame /\ FrameOK(Top) /\ RestOK
         /\ depth \in 0..MaxDepth /\ MaxDepth \in Nat
         /\ Top.pc # "idle" => depth \in 1..MaxDepth
  BY RunLoopAssumption DEF IInv, TypeOK, RestOK, Stack, Top

\* A step of the loop thread that changes its top frame only.
LEMMA TopStep ==
  ASSUME IInv, NEW g \in Frame, FrameOK(g), g.pc # "idle",
         depth \in 1..MaxDepth, depth' = depth, SetTop(g), RestOK',
         g.dispatch => Top.dispatch \/ ~InMainQueue,
         Watchful'
  PROVE  IInv'
<1>1. /\ depth \in 1..MaxDepth /\ MaxDepth \in Nat
      /\ frame \in [0..MaxDepth -> Frame]
      /\ frame' = [frame EXCEPT ![depth] = g]
  BY RunLoopAssumption DEF IInv, TypeOK, SetTop
<1>2. TypeOK'
  BY <1>1 DEF TypeOK, RestOK
<1>3. Stack'
  <2>1. \A d \in 0..depth : FrameOK(frame'[d]) /\ (d < depth => frame'[d].out)
    BY <1>1 DEF IInv, Stack
  <2>2. frame'[0].pc = "idle" /\ \A d \in 1..depth : frame'[d].pc # "idle"
    BY <1>1 DEF IInv, Stack
  <2> QED
    BY <2>1, <2>2 DEF Stack, FrameOK
<1>4. OneServer'
  <2>1. SUFFICES ASSUME NEW c \in 0..depth, NEW d \in 0..depth,
                        c < d, frame'[c].pc = "main"
                 PROVE  ~frame'[d].dispatch
    BY DEF OneServer
  <2>2. frame[c].pc = "main" /\ c \in 1..depth
    BY <1>1, <2>1 DEF IInv, Stack
  <2>3. CASE d = depth
    BY <1>1, <2>1, <2>2, <2>3 DEF IInv, OneServer, InMainQueue, Top
  <2>4. CASE d # depth
    BY <1>1, <2>1, <2>2, <2>4 DEF IInv, OneServer
  <2> QED
    BY <2>3, <2>4
<1> QED
  BY <1>2, <1>3, <1>4 DEF IInv

\* A step that leaves the frames alone.
LEMMA OtherStep ==
  ASSUME IInv, UNCHANGED <<depth, frame>>, RestOK', Watchful'
  PROVE  IInv'
  BY DEF IInv, TypeOK, RestOK, Stack, FrameOK, OneServer

\* The frames that Iterate and Exit return.
LEMMA IterateFacts ==
  ASSUME NEW f \in Frame
  PROVE  /\ Iterate(f) \in Frame /\ FrameOK(Iterate(f))
         /\ Iterate(f).pc = "timers" /\ Iterate(f).mode = f.mode
         /\ Iterate(f).dispatch = f.dispatch /\ Iterate(f).stopped = f.stopped
  BY DEF Frame, Iterate, FrameOK, PCs, Locked, Nothing

LEMMA ExitFacts ==
  ASSUME NEW f \in Frame
  PROVE  /\ Exit(f) \in Frame /\ FrameOK(Exit(f))
         /\ Exit(f).pc = "exit" /\ Exit(f).dispatch = f.dispatch
  BY DEF Frame, Exit, FrameOK, PCs, Locked, BeforeSleep

-----------------------------------------------------------------------------
(* Each step of the loop thread keeps the invariant.                        *)

LEMMA StartInv == ASSUME IInv, Start PROVE IInv'
<1> DEFINE h == [Top EXCEPT !.dispatch = ServesMain(Top.mode),
                            !.expired = Top.limit = "instant"]
<1> DEFINE g == Iterate(h)
<1>1. Top \in Frame /\ RestOK /\ depth \in 1..MaxDepth
  BY TopFacts DEF Start, Returns
<1>2. /\ h \in Frame /\ h.dispatch = ServesMain(Top.mode)
      /\ h.mode = Top.mode /\ h.stopped = Top.stopped
  BY <1>1 DEF Frame, ServesMain
<1> HIDE DEF h
<1>3. /\ g \in Frame /\ FrameOK(g) /\ g.pc = "timers" /\ g.mode = Top.mode
      /\ g.dispatch = ServesMain(Top.mode) /\ g.stopped = Top.stopped
  BY <1>2, IterateFacts
<1>4. SetTop(g) /\ depth' = depth /\ RestOK'
  BY <1>1 DEF Start, RestOK, h
<1>5. frame'[depth'] = g
  BY <1>4, <1>1 DEF SetTop, IInv, TypeOK
<1> HIDE DEF g
<1>6. Watchful'
  BY <1>3, <1>4, <1>5 DEF Watchful, NothingMissed, Top, Start
<1> QED
  BY <1>1, <1>3, <1>4, <1>6, TopStep DEF ServesMain

\* A step that ends the run.
LEMMA ExitStep ==
  ASSUME IInv, NEW h \in Frame, h.dispatch = Top.dispatch, SetTop(Exit(h)),
         Top.pc # "idle", depth' = depth, RestOK'
  PROVE  IInv'
<1>1. depth \in 1..MaxDepth
  BY TopFacts
<1>2. /\ Exit(h) \in Frame /\ FrameOK(Exit(h)) /\ Exit(h).pc = "exit"
      /\ Exit(h).dispatch = Top.dispatch
  BY ExitFacts
<1>3. Watchful'
  BY <1>1, <1>2 DEF SetTop, IInv, TypeOK, Watchful, Alert, Top, BeforeSleep
<1> QED
  BY <1>1, <1>2, <1>3, TopStep

LEMMA ExitingInv ==
  ASSUME IInv, \/ StartStopped \/ StartModeStopped
               \/ DecideHandledSource \/ DecideTimedOut
               \/ DecideStopped \/ DecideModeStopped
  PROVE  IInv'
<1> DEFINE h == [Top EXCEPT !.stopped = FALSE]
<1>1. Top \in Frame /\ RestOK
  BY TopFacts
<1>2. h \in Frame /\ h.dispatch = Top.dispatch
  BY <1>1 DEF Frame
<1>3. CASE StartStopped \/ DecideStopped
  <2>1. /\ SetTop(Exit(h)) /\ Top.pc # "idle" /\ depth' = depth /\ RestOK'
    BY <1>1, <1>3 DEF StartStopped, DecideStopped, Returns, At, RestOK
  <2> QED
    BY <1>2, <2>1, ExitStep
<1>4. CASE StartModeStopped \/ DecideHandledSource \/ DecideTimedOut
           \/ DecideModeStopped
  <2>1. /\ SetTop(Exit(Top)) /\ Top.pc # "idle" /\ depth' = depth /\ RestOK'
    BY <1>1, <1>4 DEF StartModeStopped, DecideHandledSource, DecideTimedOut,
                      DecideModeStopped, Returns, At, RestOK
  <2> QED
    BY <1>1, <2>1, ExitStep
<1> QED
  BY <1>3, <1>4

LEMMA DecideRestInv == ASSUME IInv, DecideRest PROVE IInv'
<1> DEFINE g == IF ModeIsEmpty(Top.mode) THEN Exit(Top) ELSE Iterate(Top)
<1>1. Top \in Frame /\ RestOK /\ depth \in 1..MaxDepth
  BY TopFacts DEF DecideRest, At
<1>2. /\ g \in Frame /\ FrameOK(g) /\ g.dispatch = Top.dispatch
      /\ \/ g.pc = "exit"
         \/ g.pc = "timers" /\ g.mode = Top.mode /\ g.stopped = Top.stopped
  BY <1>1, IterateFacts, ExitFacts
<1> HIDE DEF g
<1>3. SetTop(g) /\ depth' = depth /\ RestOK'
  BY <1>1 DEF DecideRest, RestOK, g
<1>4. frame'[depth'] = g
  BY <1>1, <1>3 DEF SetTop, IInv, TypeOK
<1>5. Watchful'
  BY <1>1, <1>2, <1>3, <1>4 DEF DecideRest, Watchful, Alert, NothingMissed,
       Top, BeforeSleep
<1>6. g.pc # "idle"
  BY <1>2
<1> QED
  BY <1>1, <1>2, <1>3, <1>5, <1>6, TopStep

LEMMA BeforeSourcesInv == ASSUME IInv, BeforeSources PROVE IInv'
<1> DEFINE g == [Top EXCEPT !.pc = "sources"]
<1>1. Top \in Frame /\ FrameOK(Top) /\ RestOK /\ depth \in 1..MaxDepth
  BY TopFacts DEF BeforeSources, Returns, At
<1>2. /\ g \in Frame /\ FrameOK(g) /\ g.pc = "sources"
      /\ g.dispatch = Top.dispatch
  BY <1>1 DEF BeforeSources, Returns, At, Frame, FrameOK, PCs, Locked,
       BeforeSleep, Nothing
<1>3. SetTop(g) /\ depth' = depth /\ RestOK'
  BY <1>1 DEF BeforeSources, RestOK
<1>4. frame'[depth'] = g
  BY <1>1, <1>3 DEF SetTop, IInv, TypeOK
<1>5. Watchful'
  BY <1>1, <1>2, <1>3, <1>4 DEF BeforeSources, Returns, At, Frame, IInv,
       Watchful, Alert, OnTheWay, NothingMissed, Top, BeforeSleep
<1> QED
  BY <1>1, <1>2, <1>3, <1>5, TopStep

LEMMA SleepInv == ASSUME IInv, Sleep PROVE IInv'
<1> DEFINE g == [Top EXCEPT !.pc = "asleep", !.out = FALSE]
<1>1. Top \in Frame /\ FrameOK(Top) /\ RestOK /\ depth \in 1..MaxDepth
  BY TopFacts DEF Sleep, Returns, At
<1>2. g \in Frame /\ FrameOK(g) /\ g.pc = "asleep" /\ g.dispatch = Top.dispatch
  BY <1>1 DEF Sleep, Returns, At, Frame, FrameOK, PCs, Locked, BeforeSleep,
       Nothing
<1>3. SetTop(g) /\ depth' = depth /\ RestOK'
  BY <1>1 DEF Sleep, RestOK
<1>4. frame'[depth'] = g
  BY <1>1, <1>3 DEF SetTop, IInv, TypeOK
<1>5. Watchful'
  BY <1>1, <1>2, <1>3, <1>4 DEF Sleep, Returns, At, Frame, IInv, Watchful,
       Alert, OnTheWay, NothingMissed, Top, BeforeSleep
<1> QED
  BY <1>1, <1>2, <1>3, <1>5, TopStep

LEMMA CollectSourceInv ==
  ASSUME IInv, NEW s \in Sources0, CollectSource(s)
  PROVE  IInv'
<1> DEFINE g == [Top EXCEPT !.unread = @ \ {s},
                        !.todo = IF s \in signaled THEN @ \cup {s} ELSE @]
<1>1. Top \in Frame /\ FrameOK(Top) /\ RestOK /\ depth \in 1..MaxDepth
  BY TopFacts DEF CollectSource, Returns, At
<1>2. /\ g \in Frame /\ FrameOK(g) /\ g.pc = "collect"
      /\ g.dispatch = Top.dispatch
  BY <1>1 DEF CollectSource, Returns, At, Frame, FrameOK, PCs, Locked,
       BeforeSleep, Nothing
<1>3. SetTop(g) /\ depth' = depth /\ RestOK'
  BY <1>1 DEF CollectSource, RestOK
<1>4. frame'[depth'] = g
  BY <1>1, <1>3 DEF SetTop, IInv, TypeOK
<1>5. Watchful'
  BY <1>1, <1>2, <1>3, <1>4 DEF CollectSource, Returns, At, Frame, IInv,
       Watchful, Alert, OnTheWay, NothingMissed, Top, BeforeSleep
<1> QED
  BY <1>1, <1>2, <1>3, <1>5, TopStep

LEMMA CollectedInv == ASSUME IInv, Collected PROVE IInv'
<1> DEFINE g == [Top EXCEPT !.pc =
                   IF Top.todo = {} THEN "prepare" ELSE "perform"]
<1>1. Top \in Frame /\ FrameOK(Top) /\ RestOK /\ depth \in 1..MaxDepth
  BY TopFacts DEF Collected, Returns, At
<1>2. /\ g \in Frame /\ FrameOK(g) /\ g.pc \in {"prepare", "perform"}
      /\ g.dispatch = Top.dispatch
  BY <1>1 DEF Collected, Returns, At, Frame, FrameOK, PCs, Locked, BeforeSleep,
       Nothing
<1>3. SetTop(g) /\ depth' = depth /\ RestOK'
  BY <1>1 DEF Collected, RestOK
<1>4. frame'[depth'] = g
  BY <1>1, <1>3 DEF SetTop, IInv, TypeOK
<1>5. Watchful'
  BY <1>1, <1>2, <1>3, <1>4 DEF Collected, Returns, At, Frame, IInv, Watchful,
       Alert, OnTheWay, NothingMissed, Top, BeforeSleep
<1> QED
  BY <1>1, <1>2, <1>3, <1>5, TopStep

LEMMA PerformSourceInv ==
  ASSUME IInv, NEW s \in Sources0, PerformSource(s)
  PROVE  IInv'
<1> DEFINE called == s \in signaled
<1> DEFINE g == [Top EXCEPT !.todo = @ \ {s}, !.out = called]
<1>1. Top \in Frame /\ FrameOK(Top) /\ RestOK /\ depth \in 1..MaxDepth
  BY TopFacts DEF PerformSource, Returns, At
<1>a. called \in BOOLEAN
  BY DEF called
<1> HIDE DEF called
<1>2. /\ g \in Frame /\ FrameOK(g) /\ g.pc = "perform"
      /\ g.dispatch = Top.dispatch
  BY <1>1, <1>a DEF PerformSource, Returns, At, Frame, FrameOK, PCs, Locked,
       BeforeSleep, Nothing
<1>3. SetTop(g) /\ depth' = depth /\ RestOK'
  BY <1>1, <1>a DEF PerformSource, RestOK, called
<1>4. frame'[depth'] = g
  BY <1>1, <1>3 DEF SetTop, IInv, TypeOK
<1>5. Watchful'
  BY <1>1, <1>2, <1>3, <1>4 DEF PerformSource, Returns, At, Frame, IInv,
       Watchful, Alert, OnTheWay, NothingMissed, Top, BeforeSleep, called
<1> QED
  BY <1>1, <1>2, <1>3, <1>5, TopStep

LEMMA EndSourceInv == ASSUME IInv, EndSource PROVE IInv'
<1> DEFINE g == [Top EXCEPT !.out = FALSE, !.handled = TRUE,
                        !.todo = IF Top.stopAfter THEN {} ELSE @]
<1>1. Top \in Frame /\ FrameOK(Top) /\ RestOK /\ depth \in 1..MaxDepth
  BY TopFacts DEF EndSource, Returns, At
<1>2. /\ g \in Frame /\ FrameOK(g) /\ g.pc = "perform"
      /\ g.dispatch = Top.dispatch
  BY <1>1 DEF EndSource, Returns, At, Frame, FrameOK, PCs, Locked, BeforeSleep,
       Nothing
<1>3. SetTop(g) /\ depth' = depth /\ RestOK'
  BY <1>1 DEF EndSource, RestOK
<1>4. frame'[depth'] = g
  BY <1>1, <1>3 DEF SetTop, IInv, TypeOK
<1>5. Watchful'
  BY <1>1, <1>2, <1>3, <1>4 DEF EndSource, Returns, At, Frame, IInv, Watchful,
       Alert, OnTheWay, NothingMissed, Top, BeforeSleep
<1> QED
  BY <1>1, <1>2, <1>3, <1>5, TopStep

LEMMA TakeMainFirstInv == ASSUME IInv, TakeMainFirst PROVE IInv'
<1> DEFINE g == [Top EXCEPT !.pc = "handle", !.live = "main"]
<1>1. Top \in Frame /\ FrameOK(Top) /\ RestOK /\ depth \in 1..MaxDepth
  BY TopFacts DEF TakeMainFirst, Returns, At
<1>2. g \in Frame /\ FrameOK(g) /\ g.pc = "handle" /\ g.dispatch = Top.dispatch
  BY <1>1 DEF TakeMainFirst, Returns, At, Frame, FrameOK, PCs, Locked,
       BeforeSleep, Nothing, ExtraLook
<1>3. SetTop(g) /\ depth' = depth /\ RestOK'
  BY <1>1 DEF TakeMainFirst, RestOK
<1>4. frame'[depth'] = g
  BY <1>1, <1>3 DEF SetTop, IInv, TypeOK
<1>5. Watchful'
  BY <1>1, <1>2, <1>3, <1>4 DEF TakeMainFirst, Returns, At, Frame, IInv,
       Watchful, Alert, OnTheWay, NothingMissed, Top, BeforeSleep, ExtraLook
<1> QED
  BY <1>1, <1>2, <1>3, <1>5, TopStep

LEMMA PrepareInv == ASSUME IInv, Prepare PROVE IInv'
<1> DEFINE g == [Top EXCEPT
                !.poll = Top.handled \/ Top.expired, !.didDispatch = FALSE,
                !.pc = IF Top.handled \/ Top.expired THEN "asleep" ELSE "waiting",
                !.out = ~(Top.handled \/ Top.expired)]
<1>1. Top \in Frame /\ FrameOK(Top) /\ RestOK /\ depth \in 1..MaxDepth
  BY TopFacts DEF Prepare, Returns, At
<1>2. /\ g \in Frame /\ FrameOK(g) /\ g.pc \in {"asleep", "waiting"}
      /\ g.dispatch = Top.dispatch
  BY <1>1 DEF Prepare, Returns, At, Frame, FrameOK, PCs, Locked, BeforeSleep,
       Nothing
<1>3. SetTop(g) /\ depth' = depth /\ RestOK'
  BY <1>1 DEF Prepare, RestOK
<1>4. frame'[depth'] = g
  BY <1>1, <1>3 DEF SetTop, IInv, TypeOK
<1>5. Watchful'
  BY <1>1, <1>2, <1>3, <1>4 DEF Prepare, Returns, At, Frame, IInv, Watchful,
       Alert, OnTheWay, NothingMissed, Top, BeforeSleep
<1> QED
  BY <1>1, <1>2, <1>3, <1>5, TopStep

LEMMA ReceiveWakeUpInv == ASSUME IInv, ReceiveWakeUp PROVE IInv'
<1> DEFINE g == [Top EXCEPT !.pc = "received", !.live = "wakeUp"]
<1>1. Top \in Frame /\ FrameOK(Top) /\ RestOK /\ depth \in 1..MaxDepth
  BY TopFacts DEF ReceiveWakeUp, Returns, At
<1>2. /\ g \in Frame /\ FrameOK(g) /\ g.pc = "received"
      /\ g.dispatch = Top.dispatch
  BY <1>1 DEF ReceiveWakeUp, Returns, At, Frame, FrameOK, PCs, Locked,
       BeforeSleep, Nothing
<1>3. SetTop(g) /\ depth' = depth /\ RestOK'
  BY <1>1 DEF ReceiveWakeUp, RestOK, Woken
<1>4. frame'[depth'] = g
  BY <1>1, <1>3 DEF SetTop, IInv, TypeOK
<1>5. Watchful'
  BY <1>1, <1>2, <1>3, <1>4 DEF ReceiveWakeUp, Returns, At, Frame, IInv,
       Watchful, Alert, OnTheWay, NothingMissed, Top, BeforeSleep, Woken
<1> QED
  BY <1>1, <1>2, <1>3, <1>5, TopStep

LEMMA ReceiveSource1Inv ==
  ASSUME IInv, NEW s \in Sources1, ReceiveSource1(s)
  PROVE  IInv'
<1> DEFINE g == [Top EXCEPT !.pc = "received", !.live = s]
<1>1. Top \in Frame /\ FrameOK(Top) /\ RestOK /\ depth \in 1..MaxDepth
  BY TopFacts DEF ReceiveSource1, Returns, At
<1>a. s # "main"
  BY RunLoopAssumption
<1>2. /\ g \in Frame /\ FrameOK(g) /\ g.pc = "received"
      /\ g.dispatch = Top.dispatch
  BY <1>1, <1>a DEF ReceiveSource1, Returns, At, Frame, FrameOK, PCs, Locked,
       BeforeSleep, Nothing
<1>3. SetTop(g) /\ depth' = depth /\ RestOK'
  BY <1>1, <1>a DEF ReceiveSource1, RestOK, Woken
<1>4. frame'[depth'] = g
  BY <1>1, <1>3 DEF SetTop, IInv, TypeOK
<1>5. Watchful'
  BY <1>1, <1>2, <1>3, <1>4 DEF ReceiveSource1, Returns, At, Frame, IInv,
       Watchful, Alert, OnTheWay, NothingMissed, Top, BeforeSleep, Woken
<1> QED
  BY <1>1, <1>2, <1>3, <1>5, TopStep

LEMMA ReceiveMainInv == ASSUME IInv, ReceiveMain PROVE IInv'
<1> DEFINE g == [Top EXCEPT !.pc = "received", !.live = "main"]
<1>1. Top \in Frame /\ FrameOK(Top) /\ RestOK /\ depth \in 1..MaxDepth
  BY TopFacts DEF ReceiveMain, Returns, At
<1>2. /\ g \in Frame /\ FrameOK(g) /\ g.pc = "received"
      /\ g.dispatch = Top.dispatch
  BY <1>1 DEF ReceiveMain, Returns, At, Frame, FrameOK, PCs, Locked,
       BeforeSleep, Nothing
<1>3. SetTop(g) /\ depth' = depth /\ RestOK'
  BY <1>1 DEF ReceiveMain, RestOK, Woken
<1>4. frame'[depth'] = g
  BY <1>1, <1>3 DEF SetTop, IInv, TypeOK
<1>5. Watchful'
  BY <1>1, <1>2, <1>3, <1>4 DEF ReceiveMain, Returns, At, Frame, IInv,
       Watchful, Alert, OnTheWay, NothingMissed, Top, BeforeSleep, Woken
<1> QED
  BY <1>1, <1>2, <1>3, <1>5, TopStep

LEMMA PollFindsNothingInv == ASSUME IInv, PollFindsNothing PROVE IInv'
<1> DEFINE g == [Top EXCEPT !.pc = "received", !.live = Nothing]
<1>1. Top \in Frame /\ FrameOK(Top) /\ RestOK /\ depth \in 1..MaxDepth
  BY TopFacts DEF PollFindsNothing, Returns, At
<1>2. /\ g \in Frame /\ FrameOK(g) /\ g.pc = "received"
      /\ g.dispatch = Top.dispatch
  BY <1>1 DEF PollFindsNothing, Returns, At, Frame, FrameOK, PCs, Locked,
       BeforeSleep, Nothing
<1>3. SetTop(g) /\ depth' = depth /\ RestOK'
  BY <1>1 DEF PollFindsNothing, RestOK, Woken
<1>4. frame'[depth'] = g
  BY <1>1, <1>3 DEF SetTop, IInv, TypeOK
<1>5. Watchful'
  BY <1>1, <1>2, <1>3, <1>4 DEF PollFindsNothing, Returns, At, Frame, IInv,
       Watchful, Alert, OnTheWay, NothingMissed, Top, BeforeSleep, Woken
<1> QED
  BY <1>1, <1>2, <1>3, <1>5, TopStep

LEMMA AfterReceiveInv == ASSUME IInv, AfterReceive PROVE IInv'
<1> DEFINE g == [Top EXCEPT !.ignore = TRUE, !.out = ~Top.poll,
                        !.pc = IF Top.poll THEN "handle" ELSE "woke"]
<1>1. Top \in Frame /\ FrameOK(Top) /\ RestOK /\ depth \in 1..MaxDepth
  BY TopFacts DEF AfterReceive, Returns, At
<1>2. /\ g \in Frame /\ FrameOK(g) /\ g.pc \in {"handle", "woke"}
      /\ g.dispatch = Top.dispatch
  BY <1>1 DEF AfterReceive, Returns, At, Frame, FrameOK, PCs, Locked,
       BeforeSleep, Nothing
<1>3. SetTop(g) /\ depth' = depth /\ RestOK'
  BY <1>1 DEF AfterReceive, RestOK
<1>4. frame'[depth'] = g
  BY <1>1, <1>3 DEF SetTop, IInv, TypeOK
<1>5. Watchful'
  BY <1>1, <1>2, <1>3, <1>4 DEF AfterReceive, Returns, At, Frame, IInv,
       Watchful, Alert, OnTheWay, NothingMissed, Top, BeforeSleep
<1> QED
  BY <1>1, <1>2, <1>3, <1>5, TopStep

LEMMA AfterWaitingInv == ASSUME IInv, AfterWaiting PROVE IInv'
<1> DEFINE g == [Top EXCEPT !.pc = "handle", !.out = FALSE]
<1>1. Top \in Frame /\ FrameOK(Top) /\ RestOK /\ depth \in 1..MaxDepth
  BY TopFacts DEF AfterWaiting, Returns, At
<1>2. g \in Frame /\ FrameOK(g) /\ g.pc = "handle" /\ g.dispatch = Top.dispatch
  BY <1>1 DEF AfterWaiting, Returns, At, Frame, FrameOK, PCs, Locked,
       BeforeSleep, Nothing
<1>3. SetTop(g) /\ depth' = depth /\ RestOK'
  BY <1>1 DEF AfterWaiting, RestOK
<1>4. frame'[depth'] = g
  BY <1>1, <1>3 DEF SetTop, IInv, TypeOK
<1>5. Watchful'
  BY <1>1, <1>2, <1>3, <1>4 DEF AfterWaiting, Returns, At, Frame, IInv,
       Watchful, Alert, OnTheWay, NothingMissed, Top, BeforeSleep
<1> QED
  BY <1>1, <1>2, <1>3, <1>5, TopStep

LEMMA HandleCalloutInv == ASSUME IInv, HandleCallout PROVE IInv'
<1> DEFINE g == [Top EXCEPT !.ignore = TRUE, !.out = TRUE,
                        !.pc = IF Top.live = "main" THEN "main" ELSE "source1"]
<1>1. Top \in Frame /\ FrameOK(Top) /\ RestOK /\ depth \in 1..MaxDepth
  BY TopFacts DEF HandleCallout, Returns, At
<1>2. /\ g \in Frame /\ FrameOK(g) /\ g.pc \in {"main", "source1"}
      /\ g.dispatch = Top.dispatch
  BY <1>1 DEF HandleCallout, Returns, At, Frame, FrameOK, PCs, Locked,
       BeforeSleep, Nothing
<1>3. SetTop(g) /\ depth' = depth /\ RestOK'
  BY <1>1 DEF HandleCallout, RestOK
<1>4. frame'[depth'] = g
  BY <1>1, <1>3 DEF SetTop, IInv, TypeOK
<1>5. Watchful'
  BY <1>1, <1>2, <1>3, <1>4 DEF HandleCallout, Returns, At, Frame, IInv,
       Watchful, Alert, OnTheWay, NothingMissed, Top, BeforeSleep
<1> QED
  BY <1>1, <1>2, <1>3, <1>5, TopStep

\* Entering __CFRunLoopDoBlocks detaches the list or goes straight on.
LEMMA EnterBlocksFacts ==
  ASSUME NEW f \in Frame, NEW place \in PCs, NEW next \in PCs,
         blocks \in Seq(Blocks), EnterBlocks(f, place, next)
  PROVE  \E g \in Frame :
           /\ SetTop(g) /\ blocks' = <<>>
           /\ g.pc = (IF blocks = <<>> THEN next ELSE place) /\ ~g.out
           /\ g.mode = f.mode /\ g.dispatch = f.dispatch
           /\ g.handled = f.handled /\ g.stopped = f.stopped
           /\ g.ignore = f.ignore /\ g.nested = f.nested
           /\ g.unread = f.unread /\ g.todo = f.todo
<1>1. CASE blocks = <<>>
  <2> DEFINE g == [f EXCEPT !.pc = next, !.out = FALSE]
  <2>1. g \in Frame /\ SetTop(g) /\ blocks' = <<>>
    BY <1>1 DEF Frame, EnterBlocks
  <2> QED
    BY <1>1, <2>1 DEF Frame
<1>2. CASE blocks # <<>>
  <2> DEFINE g == [f EXCEPT !.pc = place, !.out = FALSE, !.list = blocks]
  <2>1. g \in Frame /\ SetTop(g) /\ blocks' = <<>>
    BY <1>2 DEF Frame, EnterBlocks
  <2> QED
    BY <1>2, <2>1 DEF Frame
<1> QED
  BY <1>1, <1>2

LEMMA StartBlocks1Inv == ASSUME IInv, StartBlocks1 PROVE IInv'
<1> DEFINE h == [Top EXCEPT !.unread = MembersOf(Top.mode)]
<1>1. Top \in Frame /\ FrameOK(Top) /\ RestOK /\ depth \in 1..MaxDepth
  BY TopFacts DEF StartBlocks1, Returns, At
<1>2. /\ h \in Frame /\ h.mode = Top.mode /\ h.dispatch = Top.dispatch
      /\ h.stopped = Top.stopped /\ h.nested = Top.nested /\ ~h.ignore
      /\ h.unread = MembersOf(Top.mode) /\ h.handled = Top.handled
  BY <1>1 DEF StartBlocks1, Returns, At, Frame, MembersOf, FrameOK, BeforeSleep
<1>3. EnterBlocks(h, "blocks1", "collect")
  BY DEF StartBlocks1
<1> HIDE DEF h
<1>4. PICK g \in Frame :
        /\ SetTop(g) /\ blocks' = <<>>
        /\ g.pc = (IF blocks = <<>> THEN "collect" ELSE "blocks1") /\ ~g.out
        /\ g.mode = h.mode /\ g.dispatch = h.dispatch
        /\ g.handled = h.handled /\ g.stopped = h.stopped
        /\ g.ignore = h.ignore /\ g.nested = h.nested
        /\ g.unread = h.unread /\ g.todo = h.todo
  BY <1>1, <1>2, <1>3, EnterBlocksFacts DEF RestOK, PCs, Locked
<1>5. FrameOK(g) /\ g.pc # "idle" /\ g.dispatch = Top.dispatch
  BY <1>2, <1>4 DEF FrameOK, BeforeSleep
<1>6. depth' = depth /\ RestOK'
  BY <1>1, <1>4 DEF StartBlocks1, RestOK
<1>7. frame'[depth'] = g
  BY <1>1, <1>4, <1>6 DEF SetTop, IInv, TypeOK
<1>8. Watchful'
  BY <1>1, <1>2, <1>4, <1>6, <1>7 DEF StartBlocks1, Returns, At, IInv,
       Watchful, Alert, OnTheWay, NothingMissed, Top, BeforeSleep, MembersOf,
       RestOK
<1> QED
  BY <1>1, <1>4, <1>5, <1>6, <1>8, TopStep

LEMMA HandleNothingInv == ASSUME IInv, HandleNothing PROVE IInv'
<1> DEFINE h == [Top EXCEPT !.ignore = TRUE]
<1>1. Top \in Frame /\ FrameOK(Top) /\ RestOK /\ depth \in 1..MaxDepth
  BY TopFacts DEF HandleNothing, Returns, At
<1>2. /\ h \in Frame /\ h.mode = Top.mode /\ h.dispatch = Top.dispatch
      /\ h.stopped = Top.stopped /\ h.nested = Top.nested /\ TRUE
  BY <1>1 DEF HandleNothing, Returns, At, Frame, MembersOf, FrameOK,
       BeforeSleep
<1>3. EnterBlocks(h, "blocks3", "decide")
  BY DEF HandleNothing
<1> HIDE DEF h
<1>4. PICK g \in Frame :
        /\ SetTop(g) /\ blocks' = <<>>
        /\ g.pc = (IF blocks = <<>> THEN "decide" ELSE "blocks3") /\ ~g.out
        /\ g.mode = h.mode /\ g.dispatch = h.dispatch
        /\ g.handled = h.handled /\ g.stopped = h.stopped
        /\ g.ignore = h.ignore /\ g.nested = h.nested
        /\ g.unread = h.unread /\ g.todo = h.todo
  BY <1>1, <1>2, <1>3, EnterBlocksFacts DEF RestOK, PCs, Locked
<1>5. FrameOK(g) /\ g.pc # "idle" /\ g.dispatch = Top.dispatch
  BY <1>2, <1>4 DEF FrameOK, BeforeSleep
<1>6. depth' = depth /\ RestOK'
  BY <1>1, <1>4 DEF HandleNothing, RestOK
<1>7. frame'[depth'] = g
  BY <1>1, <1>4, <1>6 DEF SetTop, IInv, TypeOK
<1>8. Watchful'
  BY <1>1, <1>2, <1>4, <1>6, <1>7 DEF HandleNothing, Returns, At, IInv,
       Watchful, Alert, OnTheWay, NothingMissed, Top, BeforeSleep, MembersOf,
       RestOK
<1> QED
  BY <1>1, <1>4, <1>5, <1>6, <1>8, TopStep

LEMMA EndMainInv == ASSUME IInv, EndMain PROVE IInv'
<1> DEFINE h == [Top EXCEPT !.handled = TRUE, !.didDispatch = TRUE]
<1>1. Top \in Frame /\ FrameOK(Top) /\ RestOK /\ depth \in 1..MaxDepth
  BY TopFacts DEF EndMain, Returns, At
<1>2. /\ h \in Frame /\ h.mode = Top.mode /\ h.dispatch = Top.dispatch
      /\ h.stopped = Top.stopped /\ h.nested = Top.nested /\ TRUE
  BY <1>1 DEF EndMain, Returns, At, Frame, MembersOf, FrameOK, BeforeSleep
<1>3. EnterBlocks(h, "blocks3", "decide")
  BY DEF EndMain
<1> HIDE DEF h
<1>4. PICK g \in Frame :
        /\ SetTop(g) /\ blocks' = <<>>
        /\ g.pc = (IF blocks = <<>> THEN "decide" ELSE "blocks3") /\ ~g.out
        /\ g.mode = h.mode /\ g.dispatch = h.dispatch
        /\ g.handled = h.handled /\ g.stopped = h.stopped
        /\ g.ignore = h.ignore /\ g.nested = h.nested
        /\ g.unread = h.unread /\ g.todo = h.todo
  BY <1>1, <1>2, <1>3, EnterBlocksFacts DEF RestOK, PCs, Locked
<1>5. FrameOK(g) /\ g.pc # "idle" /\ g.dispatch = Top.dispatch
  BY <1>2, <1>4 DEF FrameOK, BeforeSleep
<1>6. depth' = depth /\ RestOK'
  BY <1>1, <1>4 DEF EndMain, RestOK
<1>7. frame'[depth'] = g
  BY <1>1, <1>4, <1>6 DEF SetTop, IInv, TypeOK
<1>8. Watchful'
  BY <1>1, <1>2, <1>4, <1>6, <1>7 DEF EndMain, Returns, At, IInv, Watchful,
       Alert, OnTheWay, NothingMissed, Top, BeforeSleep, MembersOf, RestOK
<1> QED
  BY <1>1, <1>4, <1>5, <1>6, <1>8, TopStep

LEMMA EndSource1Inv == ASSUME IInv, EndSource1 PROVE IInv'
<1> DEFINE h == [Top EXCEPT !.handled = TRUE]
<1>1. Top \in Frame /\ FrameOK(Top) /\ RestOK /\ depth \in 1..MaxDepth
  BY TopFacts DEF EndSource1, Returns, At
<1>2. /\ h \in Frame /\ h.mode = Top.mode /\ h.dispatch = Top.dispatch
      /\ h.stopped = Top.stopped /\ h.nested = Top.nested /\ TRUE
  BY <1>1 DEF EndSource1, Returns, At, Frame, MembersOf, FrameOK, BeforeSleep
<1>3. EnterBlocks(h, "blocks3", "decide")
  BY DEF EndSource1
<1> HIDE DEF h
<1>4. PICK g \in Frame :
        /\ SetTop(g) /\ blocks' = <<>>
        /\ g.pc = (IF blocks = <<>> THEN "decide" ELSE "blocks3") /\ ~g.out
        /\ g.mode = h.mode /\ g.dispatch = h.dispatch
        /\ g.handled = h.handled /\ g.stopped = h.stopped
        /\ g.ignore = h.ignore /\ g.nested = h.nested
        /\ g.unread = h.unread /\ g.todo = h.todo
  BY <1>1, <1>2, <1>3, EnterBlocksFacts DEF RestOK, PCs, Locked
<1>5. FrameOK(g) /\ g.pc # "idle" /\ g.dispatch = Top.dispatch
  BY <1>2, <1>4 DEF FrameOK, BeforeSleep
<1>6. depth' = depth /\ RestOK'
  BY <1>1, <1>4 DEF EndSource1, RestOK
<1>7. frame'[depth'] = g
  BY <1>1, <1>4, <1>6 DEF SetTop, IInv, TypeOK
<1>8. Watchful'
  BY <1>1, <1>2, <1>4, <1>6, <1>7 DEF EndSource1, Returns, At, IInv, Watchful,
       Alert, OnTheWay, NothingMissed, Top, BeforeSleep, MembersOf, RestOK
<1> QED
  BY <1>1, <1>4, <1>5, <1>6, <1>8, TopStep

LEMMA PerformedHandledInv == ASSUME IInv, Performed, Top.handled PROVE IInv'
<1>1. Top \in Frame /\ FrameOK(Top) /\ RestOK /\ depth \in 1..MaxDepth
  BY TopFacts DEF Performed, Returns, At
<1>2. /\ ~Top.ignore /\ Top \in Frame /\ Top.handled
  BY <1>1 DEF Performed, Returns, At, Frame, MembersOf, FrameOK, BeforeSleep
<1>3. EnterBlocks(Top, "blocks2", "prepare")
  BY DEF Performed
<1>4. PICK g \in Frame :
        /\ SetTop(g) /\ blocks' = <<>>
        /\ g.pc = (IF blocks = <<>> THEN "prepare" ELSE "blocks2") /\ ~g.out
        /\ g.mode = Top.mode /\ g.dispatch = Top.dispatch
        /\ g.handled = Top.handled /\ g.stopped = Top.stopped
        /\ g.ignore = Top.ignore /\ g.nested = Top.nested
        /\ g.unread = Top.unread /\ g.todo = Top.todo
  <2>1. "blocks2" \in PCs /\ "prepare" \in PCs /\ blocks \in Seq(Blocks)
    BY <1>1 DEF RestOK, PCs, Locked
  <2> QED
    BY ONLY <1>1, <1>3, <2>1, EnterBlocksFacts
<1>5. FrameOK(g) /\ g.pc # "idle" /\ g.dispatch = Top.dispatch
  BY <1>2, <1>4 DEF FrameOK, BeforeSleep
<1>6. depth' = depth /\ RestOK'
  BY <1>1, <1>4 DEF Performed, RestOK
<1>7. frame'[depth'] = g
  BY <1>1, <1>4, <1>6 DEF SetTop, IInv, TypeOK
<1>8. Watchful'
  BY <1>1, <1>2, <1>4, <1>6, <1>7 DEF Performed, Returns, At, IInv, Watchful,
       Alert, OnTheWay, NothingMissed, Top, BeforeSleep, MembersOf, RestOK
<1> QED
  BY <1>1, <1>4, <1>5, <1>6, <1>8, TopStep

LEMMA PerformedNothingInv == ASSUME IInv, ~Top.handled, Performed PROVE IInv'
<1> DEFINE g == [Top EXCEPT !.pc = "prepare"]
<1>1. Top \in Frame /\ FrameOK(Top) /\ RestOK /\ depth \in 1..MaxDepth
  BY TopFacts DEF Performed, Returns, At
<1>2. /\ g \in Frame /\ FrameOK(g) /\ g.pc = "prepare"
      /\ g.dispatch = Top.dispatch
  BY <1>1 DEF Performed, Returns, At, Frame, FrameOK, PCs, Locked, BeforeSleep,
       Nothing
<1>3. SetTop(g) /\ depth' = depth /\ RestOK'
  BY <1>1 DEF Performed, RestOK
<1>4. frame'[depth'] = g
  BY <1>1, <1>3 DEF SetTop, IInv, TypeOK
<1>5. Watchful'
  BY <1>1, <1>2, <1>3, <1>4 DEF Performed, Returns, At, Frame, IInv, Watchful,
       Alert, OnTheWay, NothingMissed, Top, BeforeSleep
<1> QED
  BY <1>1, <1>2, <1>3, <1>5, TopStep

LEMMA PerformedInv == ASSUME IInv, Performed PROVE IInv'
  BY PerformedHandledInv, PerformedNothingInv

LEMMA EndBlockInv ==
  ASSUME IInv, NEW place \in {"blocks1", "blocks2", "blocks3"}, EndBlock(place)
  PROVE  IInv'
<1> DEFINE g == [Top EXCEPT !.out = FALSE]
<1>1. Top \in Frame /\ FrameOK(Top) /\ RestOK /\ depth \in 1..MaxDepth
  BY TopFacts DEF EndBlock, Returns, At
<1>2. g \in Frame /\ FrameOK(g) /\ g.pc = place /\ g.dispatch = Top.dispatch
  BY <1>1 DEF EndBlock, Returns, At, Frame, FrameOK, PCs, Locked, BeforeSleep,
       Nothing
<1>3. SetTop(g) /\ depth' = depth /\ RestOK'
  BY <1>1 DEF EndBlock, RestOK
<1>4. frame'[depth'] = g
  BY <1>1, <1>3 DEF SetTop, IInv, TypeOK
<1>5. Watchful'
  BY <1>1, <1>2, <1>3, <1>4 DEF EndBlock, Returns, At, Frame, IInv, Watchful,
       Alert, OnTheWay, NothingMissed, Top, BeforeSleep
<1> QED
  BY <1>1, <1>2, <1>3, <1>5, TopStep

LEMMA BeginBlockInv ==
  ASSUME IInv, NEW place \in {"blocks1", "blocks2", "blocks3"},
         BeginBlock(place)
  PROVE  IInv'
<1>1. Top \in Frame /\ FrameOK(Top) /\ RestOK /\ depth \in 1..MaxDepth
  BY TopFacts DEF BeginBlock, At
<1>2. PICK i \in DOMAIN Top.list :
        /\ ran' = ran \cup {Top.list[i]}
        /\ SetTop([Top EXCEPT !.out = TRUE, !.list = RemoveAt(Top.list, i)])
  BY DEF BeginBlock
<1> DEFINE rest == RemoveAt(Top.list, i)
<1> DEFINE g == [Top EXCEPT !.out = TRUE, !.list = rest]
<1>3. Top.list \in Seq(Blocks) /\ Top.list[i] \in Blocks
  BY <1>1 DEF Frame
<1>4. rest \in Seq(Blocks)
  BY <1>3, RemoveAtType
<1>5. SetTop(g) /\ depth' = depth /\ RestOK'
  BY <1>1, <1>2, <1>3 DEF BeginBlock, RestOK
<1> HIDE DEF rest
<1>6. g \in Frame /\ FrameOK(g) /\ g.pc = place /\ g.dispatch = Top.dispatch
  BY <1>1, <1>4 DEF BeginBlock, At, Frame, FrameOK, BeforeSleep, Locked
<1>7. frame'[depth'] = g
  BY <1>1, <1>5 DEF SetTop, IInv, TypeOK
<1>8. Watchful'
  BY <1>1, <1>4, <1>5, <1>6, <1>7 DEF BeginBlock, At, Frame, IInv, Watchful,
       Alert, OnTheWay, NothingMissed, Top, BeforeSleep
<1> QED
  BY <1>1, <1>5, <1>6, <1>8, TopStep

LEMMA LeaveBlocksInv ==
  ASSUME IInv, NEW place \in PCs, NEW next \in PCs, LeaveBlocks(place, next),
         \/ place = "blocks1" /\ next = "collect"
         \/ place = "blocks2" /\ next = "prepare"
         \/ place = "blocks3" /\ next = "decide"
  PROVE  IInv'
<1> DEFINE g == [Top EXCEPT !.pc = next, !.list = <<>>]
<1>1. Top \in Frame /\ FrameOK(Top) /\ RestOK /\ depth \in 1..MaxDepth
  BY TopFacts DEF LeaveBlocks, At
<1>e. <<>> \in Seq(Blocks)
  OBVIOUS
<1>a. g \in Frame
  BY <1>1, <1>e DEF Frame
<1>b. /\ g.pc = next /\ g.dispatch = Top.dispatch /\ g.out = Top.out
      /\ g.ignore = Top.ignore
  BY <1>1 DEF Frame
<1>c. Top.pc = place /\ ~Top.out
  BY DEF LeaveBlocks, At
<1>2. g \in Frame /\ FrameOK(g) /\ g.pc = next /\ g.dispatch = Top.dispatch
  <2> HIDE DEF g
  <2> QED
    BY <1>1, <1>a, <1>b, <1>c DEF FrameOK, BeforeSleep, Locked
<1>3. Top.list \in Seq(Blocks) /\ blocks \in Seq(Blocks)
  BY <1>1 DEF Frame, RestOK
<1>4. /\ blocks' = Top.list \o blocks /\ blocks' \in Seq(Blocks)
      /\ Len(blocks') = Len(Top.list) + Len(blocks)
      /\ \A i \in 1..Len(blocks') :
           blocks'[i] = IF i <= Len(Top.list) THEN Top.list[i]
                        ELSE blocks[i - Len(Top.list)]
  BY <1>3, ConcatProperties DEF LeaveBlocks, Splice
<1>5. SetTop(g) /\ depth' = depth /\ RestOK'
  BY <1>1, <1>4 DEF LeaveBlocks, RestOK
<1>6. frame'[depth'] = g
  BY <1>1, <1>5 DEF SetTop, IInv, TypeOK
<1>7. \A i \in DOMAIN blocks' :
        \/ Top.mode \notin BlockModes[blocks'[i]]
        \/ \E j \in DOMAIN blocks : blocks'[i] = blocks[j]
  <2>1. SUFFICES ASSUME NEW i \in 1..Len(blocks')
                 PROVE  \/ Top.mode \notin BlockModes[blocks'[i]]
                        \/ \E j \in DOMAIN blocks : blocks'[i] = blocks[j]
    BY <1>4
  <2>2. CASE i <= Len(Top.list)
    <3>1. i \in DOMAIN Top.list /\ blocks'[i] = Top.list[i]
      BY <1>3, <1>4, <2>2
    <3> QED
      BY <3>1 DEF LeaveBlocks, Runnable
  <2>3. CASE i > Len(Top.list)
    <3>1. /\ i - Len(Top.list) \in DOMAIN blocks
          /\ blocks'[i] = blocks[i - Len(Top.list)]
      BY <1>3, <1>4, <2>3
    <3> QED
      BY <3>1
  <2> QED
    BY <1>3, <2>2, <2>3
<1>8. Watchful'
  BY <1>1, <1>2, <1>5, <1>6, <1>7 DEF LeaveBlocks, At, Frame, FrameOK,
       MembersOf, IInv, Watchful, Alert, OnTheWay, NothingMissed, Top,
       BeforeSleep, RestOK
<1>9. g.pc # "idle"
  BY <1>2
<1> QED
  BY <1>1, <1>2, <1>5, <1>8, <1>9, TopStep

LEMMA RunSpecificInv ==
  ASSUME IInv, NEW m \in Modes, NEW call \in Calls, RunSpecific(m, call)
  PROVE  IInv'
<1> DEFINE g == NewFrame(m, call[1], call[2])
<1>1. /\ Top \in Frame /\ RestOK /\ depth \in 0..(MaxDepth - 1)
      /\ MaxDepth \in Nat /\ frame \in [0..MaxDepth -> Frame]
  BY TopFacts DEF RunSpecific, IInv, TypeOK
<1>2. call[1] \in BOOLEAN /\ call[2] \in Limits
  BY RunLoopAssumption
<1>3. /\ g \in Frame /\ FrameOK(g) /\ g.pc = "entry" /\ g.dispatch = FALSE
  BY <1>2 DEF Frame, NewFrame, FrameOK, PCs, Locked, BeforeSleep, Nothing
<1> HIDE DEF g
<1>4. /\ depth' = depth + 1 /\ RestOK'
      /\ frame' = [frame EXCEPT ![depth + 1] = g]
  BY <1>1 DEF RunSpecific, RestOK, g
<1>5. /\ frame' \in [0..MaxDepth -> Frame] /\ frame'[depth + 1] = g
      /\ \A d \in 0..depth : frame'[d] = frame[d]
  BY <1>1, <1>3, <1>4
<1>6. TypeOK'
  BY <1>1, <1>4, <1>5 DEF TypeOK, RestOK
<1>7. Stack'
  <2>1. \A d \in 0..depth : FrameOK(frame[d]) /\ frame[d].out
    BY <1>1 DEF IInv, Stack, RunSpecific, Callable, Top
  <2>2. \A d \in 0..(depth + 1) :
          FrameOK(frame'[d]) /\ (d < depth + 1 => frame'[d].out)
    BY <1>1, <1>3, <1>5, <2>1
  <2>3. /\ frame'[0].pc = "idle"
        /\ \A d \in 1..(depth + 1) : frame'[d].pc # "idle"
    BY <1>1, <1>3, <1>5 DEF IInv, Stack
  <2> QED
    BY <1>4, <2>2, <2>3 DEF Stack, FrameOK
<1>8. OneServer'
  BY <1>1, <1>3, <1>4, <1>5 DEF IInv, OneServer
<1>9. Watchful'
  BY <1>3, <1>4, <1>5 DEF Watchful, Alert, Top, BeforeSleep
<1> QED
  BY <1>6, <1>7, <1>8, <1>9 DEF IInv

LEMMA NoRunType == NoRun \in Frame
<1> DEFINE f == NewFrame(CHOOSE m \in Modes : TRUE, FALSE, "infinite")
<1>1. (CHOOSE m \in Modes : TRUE) \in Modes
  BY RunLoopAssumption
<1>2. f \in Frame
  BY <1>1 DEF NewFrame, Frame, PCs, Limits, Nothing
<1> HIDE DEF f
<1>3. [f EXCEPT !.pc = "idle", !.ignore = TRUE] \in Frame
  BY <1>2 DEF Frame, PCs
<1> QED
  BY <1>3 DEF NoRun, f

LEMMA RunReturnsInv == ASSUME IInv, RunReturns PROVE IInv'
<1> DEFINE n == frame[depth - 1].nested \/ frame[depth - 1].pc \in Lulling
<1> DEFINE g == [frame[depth - 1] EXCEPT !.nested = n]
<1>1. /\ Top \in Frame /\ RestOK /\ depth \in 1..MaxDepth /\ MaxDepth \in Nat
      /\ frame \in [0..MaxDepth -> Frame]
  BY TopFacts DEF RunReturns, Returns, IInv, TypeOK
<1>2. depth - 1 \in 0..MaxDepth /\ frame[depth - 1] \in Frame
  BY <1>1
<1>3. n \in BOOLEAN /\ NoRun \in Frame
  BY <1>2, NoRunType DEF Frame
<1>4. /\ depth' = depth - 1 /\ RestOK'
      /\ frame' = [frame EXCEPT ![depth] = NoRun, ![depth - 1] = g]
  BY <1>1, <1>2 DEF RunReturns, RestOK
<1> HIDE DEF n
<1>5. /\ g \in Frame /\ g.nested = n /\ g.pc = frame[depth - 1].pc
      /\ g.out = frame[depth - 1].out /\ g.dispatch = frame[depth - 1].dispatch
      /\ g.handled = frame[depth - 1].handled
  BY <1>2, <1>3 DEF Frame
<1>6. FrameOK(frame[depth - 1]) /\ frame[depth - 1].out
  BY <1>1 DEF IInv, Stack
<1>7. FrameOK(g)
  BY <1>2, <1>6 DEF FrameOK, Frame
<1> HIDE DEF g
<1>8. /\ frame' \in [0..MaxDepth -> Frame] /\ frame'[depth - 1] = g
      /\ \A d \in 0..(depth - 2) : frame'[d] = frame[d]
  BY <1>1, <1>2, <1>3, <1>4, <1>5
<1>9. TypeOK'
  BY <1>1, <1>4, <1>8 DEF TypeOK, RestOK
<1>10. Stack'
  <2>1. \A d \in 0..(depth - 1) :
          FrameOK(frame'[d]) /\ (d < depth - 1 => frame'[d].out)
    BY <1>1, <1>7, <1>8 DEF IInv, Stack
  <2>2. /\ frame'[0].pc = "idle"
        /\ \A d \in 1..(depth - 1) : frame'[d].pc # "idle"
    BY <1>1, <1>5, <1>8 DEF IInv, Stack
  <2> QED
    BY <1>4, <2>1, <2>2 DEF Stack, FrameOK
<1>11. OneServer'
  <2>1. \A d \in 0..(depth - 1) : /\ frame'[d].pc = frame[d].pc
                                  /\ frame'[d].dispatch = frame[d].dispatch
    BY <1>1, <1>5, <1>8
  <2> QED
    BY <1>1, <1>4, <2>1 DEF IInv, OneServer
<1>12. Watchful'
  <2>1. frame'[depth'] = g
    BY <1>4, <1>8
  <2>2. g.pc \in Lulling => g.nested
    BY <1>5 DEF n
  <2> QED
    BY <1>5, <1>6, <2>1, <2>2 DEF Watchful, Alert, Top, BeforeSleep, Lulling,
         FrameOK, Locked
<1> QED
  BY <1>9, <1>10, <1>11, <1>12 DEF IInv

-----------------------------------------------------------------------------
(* The other threads' steps.                                                *)

LEMMA StopInv == ASSUME IInv, NEW t \in Threads, Stop(t) PROVE IInv'
<1> DEFINE g == [Top EXCEPT !.stopped = TRUE]
<1>1. Top \in Frame /\ FrameOK(Top) /\ RestOK /\ depth \in 1..MaxDepth
  BY TopFacts DEF Stop
<1>2. g \in Frame /\ FrameOK(g) /\ g.pc = Top.pc /\ g.dispatch = Top.dispatch
  BY <1>1 DEF Frame, FrameOK
<1>3. SetTop(g) /\ depth' = depth /\ RestOK' /\ owes' # {}
  BY <1>1 DEF Stop, RestOK
<1>4. Watchful'
  BY <1>3 DEF Watchful, OnTheWay
<1>5. g.pc # "idle"
  BY <1>1, <1>2 DEF IInv, Stack, Top
<1> QED
  BY <1>1, <1>2, <1>3, <1>4, <1>5, TopStep

\* Giving the loop work leaves the thread owing a wake-up.
LEMMA OwingInv ==
  ASSUME IInv, NEW t \in Threads,
         \/ \E s \in Sources0 : SourceSignal(t, s)
         \/ \E b \in Blocks : PerformBlock(t, b)
         \/ \E m \in Modes : StopMode(t, m)
  PROVE  IInv'
<1>1. RestOK
  BY TopFacts
<1>2. UNCHANGED <<depth, frame>> /\ owes' # {}
  BY DEF SourceSignal, PerformBlock, StopMode
<1>3. RestOK'
  <2>1. CASE \E s \in Sources0 : SourceSignal(t, s)
    BY <1>1, <2>1 DEF SourceSignal, RestOK
  <2>2. CASE \E b \in Blocks : PerformBlock(t, b)
    BY <1>1, <2>2 DEF PerformBlock, RestOK
  <2>3. CASE \E m \in Modes : StopMode(t, m)
    BY <1>1, <2>3 DEF StopMode, RestOK
  <2> QED
    BY <2>1, <2>2, <2>3
<1>4. Watchful'
  BY <1>2 DEF Watchful, OnTheWay
<1> QED
  BY <1>2, <1>3, <1>4, OtherStep

\* A wake-up that a run before its sleep needs is sent: it ignores none.
LEMMA WakingInv ==
  ASSUME IInv,
         \/ \E t \in Threads : WakeUp(t)
         \/ \E d \in 1..MaxDepth : TimeoutWakeUp(d)
  PROVE  IInv'
<1>1. Top \in Frame /\ FrameOK(Top) /\ RestOK
  BY TopFacts
<1>2. /\ /\ UNCHANGED <<depth, frame, signaled, blocks, modeStopped>>
      /\ SendWakeUp
      /\ owes' \subseteq owes /\ firing' \subseteq firing
      /\ UNCHANGED <<ports, mainQ, asked, ran>>
  BY DEF WakeUp, TimeoutWakeUp
<1>3. RestOK'
  BY <1>1, <1>2 DEF RestOK, SendWakeUp
<1>4. Watchful'
  <2>1. ~Top.ignore => OnTheWay'
    BY <1>2 DEF SendWakeUp, OnTheWay
  <2>2. Alert => ~Top.ignore
    BY <1>1 DEF Alert, FrameOK
  <2>3. Alert' => Alert
    BY <1>2 DEF Alert, Top
  <2> QED
    BY <2>1, <2>2, <2>3 DEF Watchful
<1> QED
  BY <1>2, <1>3, <1>4, OtherStep

LEMMA PortInv ==
  ASSUME IInv, (\E s \in Sources1 : SendToPort(s)) \/ MainQueueReady
  PROVE  IInv'
<1>1. RestOK
  BY TopFacts
<1>2. /\ UNCHANGED <<depth, frame, signaled, blocks, modeStopped, wakePort>>
      /\ UNCHANGED <<owes, firing>> /\ RestOK'
  BY <1>1 DEF SendToPort, MainQueueReady, RestOK
<1>3. Watchful'
  BY <1>2 DEF IInv, Watchful, Alert, OnTheWay, NothingMissed, Top
<1> QED
  BY <1>2, <1>3, OtherStep

LEMMA TimeoutFiresInv ==
  ASSUME IInv, NEW d \in 1..MaxDepth, TimeoutFires(d) PROVE IInv'
<1> DEFINE g == [frame[d] EXCEPT !.expired = TRUE]
<1>1. /\ RestOK /\ depth \in 0..MaxDepth /\ MaxDepth \in Nat
      /\ frame \in [0..MaxDepth -> Frame] /\ frame[d] \in Frame
  BY TopFacts DEF IInv, TypeOK
<1>2. /\ g \in Frame /\ (FrameOK(frame[d]) => FrameOK(g))
      /\ g.pc = frame[d].pc /\ g.out = frame[d].out
      /\ g.dispatch = frame[d].dispatch
  BY <1>1 DEF Frame, FrameOK
<1>3. /\ frame' = [frame EXCEPT ![d] = g] /\ depth' = depth /\ firing' # {}
      /\ RestOK'
  BY <1>1 DEF TimeoutFires, RestOK
<1> HIDE DEF g
<1>4. /\ frame' \in [0..MaxDepth -> Frame]
      /\ \A c \in 0..MaxDepth :
           /\ frame'[c].pc = frame[c].pc /\ frame'[c].out = frame[c].out
           /\ frame'[c].dispatch = frame[c].dispatch
           /\ FrameOK(frame[c]) => FrameOK(frame'[c])
  BY <1>1, <1>2, <1>3
<1>5. TypeOK'
  BY <1>1, <1>3, <1>4 DEF TypeOK, RestOK
<1>6. Stack'
  <2>1. \A c \in 0..depth : FrameOK(frame'[c]) /\ (c < depth => frame'[c].out)
    BY <1>1, <1>4 DEF IInv, Stack
  <2>2. frame'[0].pc = "idle" /\ \A c \in 1..depth : frame'[c].pc # "idle"
    BY <1>1, <1>4 DEF IInv, Stack
  <2> QED
    BY <1>3, <2>1, <2>2 DEF Stack, FrameOK
<1>7. OneServer'
  BY <1>1, <1>3, <1>4 DEF IInv, OneServer
<1>8. Watchful'
  BY <1>3 DEF Watchful, OnTheWay
<1> QED
  BY <1>5, <1>6, <1>7, <1>8 DEF IInv

-----------------------------------------------------------------------------
(* The invariant, and what it implies.                                      *)

LEMMA InitInv == Init => IInv
<1> SUFFICES ASSUME Init PROVE IInv
  OBVIOUS
<1>1. /\ depth = 0 /\ MaxDepth \in Nat /\ frame = [d \in 0..MaxDepth |-> NoRun]
      /\ depth \in 0..MaxDepth /\ Top = NoRun
  BY RunLoopAssumption DEF Init, Top
<1>2. <<>> \in Seq(Blocks)
  OBVIOUS
<1>3. TypeOK
  <2>1. frame \in [0..MaxDepth -> Frame]
    BY <1>1, NoRunType
  <2> QED
    BY <1>1, <1>2, <2>1 DEF Init, TypeOK
<1>4. NoRun.pc = "idle" /\ FrameOK(NoRun)
  BY DEF NoRun, NewFrame, FrameOK, Locked, BeforeSleep
<1>5. Stack /\ OneServer
  BY <1>1, <1>4 DEF Stack, OneServer
<1>6. Watchful
  BY <1>1, <1>4 DEF Watchful, Alert, BeforeSleep
<1> QED
  BY <1>3, <1>5, <1>6 DEF IInv

LEMMA LoopStepInv == ASSUME IInv, LoopStep PROVE IInv'
<1>1. CASE StartStopped \/ StartModeStopped \/ Start \/ BeforeSources
  BY <1>1, ExitingInv, StartInv, BeforeSourcesInv
<1>2. CASE BlockStep
  <2>1. CASE \E place \in {"blocks1", "blocks2", "blocks3"} :
               BeginBlock(place) \/ EndBlock(place)
    BY <2>1, BeginBlockInv, EndBlockInv
  <2>2. CASE LeaveBlocks("blocks1", "collect")
    BY <2>2, LeaveBlocksInv DEF PCs, Locked
  <2>3. CASE LeaveBlocks("blocks2", "prepare")
    BY <2>3, LeaveBlocksInv DEF PCs, Locked
  <2>4. CASE LeaveBlocks("blocks3", "decide")
    BY <2>4, LeaveBlocksInv DEF PCs, Locked
  <2> QED
    BY <1>2, <2>1, <2>2, <2>3, <2>4 DEF BlockStep
<1>3. CASE SourceStep
  BY <1>3, StartBlocks1Inv, CollectSourceInv, PerformSourceInv, CollectedInv,
     EndSourceInv, PerformedInv DEF SourceStep
<1>4. CASE SleepStep
  BY <1>4, TakeMainFirstInv, PrepareInv, SleepInv, ReceiveWakeUpInv,
     ReceiveMainInv, PollFindsNothingInv, ReceiveSource1Inv, AfterReceiveInv,
     AfterWaitingInv DEF SleepStep
<1>5. CASE HandleStep
  BY <1>5, HandleNothingInv, HandleCalloutInv, EndMainInv, EndSource1Inv,
     ExitingInv, DecideRestInv DEF HandleStep
<1>6. CASE RunReturns
  BY <1>6, RunReturnsInv
<1> QED
  BY <1>1, <1>2, <1>3, <1>4, <1>5, <1>6 DEF LoopStep

LEMMA NextInv == ASSUME IInv, Next PROVE IInv'
<1>1. CASE \E m \in Modes, call \in Calls : RunSpecific(m, call)
  BY <1>1, RunSpecificInv
<1>2. CASE LoopStep
  BY <1>2, LoopStepInv
<1>3. CASE TimeoutStep
  BY <1>3, TimeoutFiresInv, WakingInv DEF TimeoutStep
<1>4. CASE ClientStep
  BY <1>4, OwingInv, StopInv, WakingInv DEF ClientStep
<1>5. CASE (\E s \in Sources1 : SendToPort(s)) \/ MainQueueReady
  BY <1>5, PortInv
<1> QED
  BY <1>1, <1>2, <1>3, <1>4, <1>5 DEF Next

LEMMA StutterInv == ASSUME IInv, UNCHANGED vars PROVE IInv'
  BY DEF IInv, TypeOK, Stack, Watchful, OneServer, FrameOK, Alert, OnTheWay,
         NothingMissed, Top, vars

\* The inductive invariant holds in every reachable state.
THEOREM Invariance == Spec => []IInv
<1>1. IInv /\ [Next]_vars => IInv'
  BY NextInv, StutterInv
<1> QED
  BY InitInv, <1>1, PTL DEF Spec

\* Every variable keeps its type: CFRunLoopWakeUp never puts a second message
\* on the wake-up port, frames are well formed at every depth of nesting.
THEOREM TypeCorrectness == Spec => []TypeOK
<1>1. IInv => TypeOK
  BY DEF IInv
<1> QED
  BY Invariance, <1>1, PTL

\* CFRunLoopWakeUp and the ignoreWakeUps window: for any number of client
\* threads, sources, blocks and nested runs, a run that had the loop to itself
\* since its iteration began does not sleep on work it was woken for.
THEOREM WakeUpsAreNotLost == Spec => []NoLostWakeUp
<1>1. IInv => NoLostWakeUp
  <2>1. SUFFICES ASSUME IInv, SleepsSoundly, ~Top.nested PROVE ~WorkPending
    BY DEF NoLostWakeUp
  <2>2. Top \in Frame /\ FrameOK(Top) /\ RestOK
    BY <2>1, TopFacts
  <2>3. Alert /\ ~OnTheWay /\ Top.pc = "asleep"
    BY <2>1, <2>2 DEF SleepsSoundly, At, Alert, OnTheWay, FrameOK, BeforeSleep
  <2>4. NothingMissed
    BY <2>1, <2>3 DEF IInv, Watchful
  <2> QED
    BY <2>3, <2>4 DEF NothingMissed, WorkPending
<1> QED
  BY Invariance, <1>1, PTL

\* __CFTSDKeyIsInGCDMainQ: a run nested in a callout of the main queue, at any
\* depth, does not serve the main queue again.
THEOREM MainQueueIsNotReentered == Spec => []MainQueueNotReentered
<1>1. IInv => MainQueueNotReentered
  <2>1. SUFFICES ASSUME IInv, NEW c \in 1..depth, NEW d \in 1..depth,
                        frame[c].pc = "main", frame[d].pc = "main", c < d
                 PROVE  FALSE
    BY TopFacts DEF MainQueueNotReentered
  <2>2. depth \in Nat /\ ~frame[d].dispatch /\ FrameOK(frame[d])
    BY <2>1, TopFacts DEF IInv, OneServer, Stack
  <2> QED
    BY <2>1, <2>2 DEF FrameOK
<1> QED
  BY Invariance, <1>1, PTL

-----------------------------------------------------------------------------
(* The blocks.  A block that was handed over and has not run is in the      *)
(* loop's list or in one that a run has detached; BlocksInv says that it is *)
(* there once, and that a run has a list only while it is at BlockPlaces.   *)

\* Where a run has detached the list of blocks.
BlockPlaces == {"blocks1", "blocks2", "blocks3"}

Has(s, x)   == \E i \in DOMAIN s : s[i] = x
Once(s)     == \A i, j \in DOMAIN s : s[i] = s[j] => i = j
Apart(s, t) == \A i \in DOMAIN s, j \in DOMAIN t : s[i] # t[j]

\* A block waits in the loop's list or in one that a run has detached.
Waits(b) == Has(blocks, b) \/ \E d \in 0..depth : Has(frame[d].list, b)

BlocksInv ==
  /\ \A d \in 0..depth : frame[d].pc \notin BlockPlaces => frame[d].list = <<>>
  /\ Once(blocks)
  /\ \A d \in 0..depth : Once(frame[d].list) /\ Apart(blocks, frame[d].list)
  /\ \A c, d \in 0..depth : c # d => Apart(frame[c].list, frame[d].list)
  /\ \A b \in Blocks : Waits(b) <=> Has(asked, b) /\ b \notin ran
  /\ \A b \in ran : Has(asked, b)

LEMMA EmptyList ==
  /\ Once(<<>>) /\ \A x : ~Has(<<>>, x)
  /\ \A s : Apart(<<>>, s) /\ Apart(s, <<>>)
  BY DEF Once, Has, Apart

LEMMA HasAppend ==
  ASSUME NEW S, NEW s \in Seq(S), NEW x \in S
  PROVE  /\ \A y : Has(Append(s, x), y) <=> Has(s, y) \/ x = y
         /\ Once(s) /\ ~Has(s, x) => Once(Append(s, x))
<1>1. /\ Append(s, x) \in Seq(S) /\ Len(s) \in Nat
      /\ DOMAIN s = 1..Len(s) /\ DOMAIN Append(s, x) = 1..(Len(s) + 1)
      /\ \A i \in 1..Len(s) : Append(s, x)[i] = s[i]
      /\ Append(s, x)[Len(s) + 1] = x
  BY AppendProperties
<1> QED
  BY <1>1 DEF Has, Once

LEMMA HasConcat ==
  ASSUME NEW S, NEW s \in Seq(S), NEW t \in Seq(S)
  PROVE  /\ \A y : Has(s \o t, y) <=> Has(s, y) \/ Has(t, y)
         /\ Once(s) /\ Once(t) /\ Apart(s, t) => Once(s \o t)
<1> DEFINE u == s \o t
<1> DEFINE m == Len(s)
<1> DEFINE n == Len(t)
<1>1. /\ m \in Nat /\ n \in Nat
      /\ DOMAIN s = 1..m /\ DOMAIN t = 1..n /\ DOMAIN u = 1..(m + n)
      /\ \A i \in 1..(m + n) : u[i] = IF i <= m THEN s[i] ELSE t[i - m]
  BY ConcatProperties
<1> HIDE DEF u, m, n
<1>2. \A i \in 1..m : i \in DOMAIN u /\ u[i] = s[i]
  BY <1>1
<1>3. \A i \in 1..n : m + i \in DOMAIN u /\ u[m + i] = t[i]
  <2>1. SUFFICES ASSUME NEW i \in 1..n
                 PROVE  m + i \in DOMAIN u /\ u[m + i] = t[i]
    OBVIOUS
  <2>2. m + i \in 1..(m + n) /\ ~(m + i <= m) /\ m + i - m = i
    BY <1>1
  <2> QED
    BY <1>1, <2>2
<1>4. \A i \in DOMAIN u : \/ i \in 1..m /\ u[i] = s[i]
                          \/ i - m \in 1..n /\ u[i] = t[i - m]
  BY <1>1
<1>5. \A y : Has(u, y) <=> Has(s, y) \/ Has(t, y)
  BY <1>1, <1>2, <1>3, <1>4 DEF Has
<1>6. Once(s) /\ Once(t) /\ Apart(s, t) => Once(u)
  <2>1. SUFFICES ASSUME Once(s), Once(t), Apart(s, t), NEW i \in DOMAIN u,
                        NEW j \in DOMAIN u, u[i] = u[j]
                 PROVE  i = j
    BY DEF Once
  <2>2. CASE i \in 1..m /\ j \in 1..m
    BY <1>1, <2>1, <2>2 DEF Once
  <2>3. CASE i - m \in 1..n /\ j - m \in 1..n
    <3>1. u[i] = t[i - m] /\ u[j] = t[j - m]
      BY <1>1, <2>1, <2>3
    <3>2. i - m = j - m
      BY <1>1, <2>1, <2>3, <3>1 DEF Once
    <3> QED
      BY <1>1, <3>2
  <2>4. CASE i \in 1..m /\ j - m \in 1..n
    BY <1>1, <2>1, <2>4 DEF Apart
  <2>5. CASE i - m \in 1..n /\ j \in 1..m
    BY <1>1, <2>1, <2>5 DEF Apart
  <2> QED
    BY <1>1, <2>2, <2>3, <2>4, <2>5
<1> QED
  BY <1>5, <1>6 DEF u

\* RemoveAt, element by element.
LEMMA RemoveAtElements ==
  ASSUME NEW S, NEW s \in Seq(S), NEW i \in DOMAIN s
  PROVE  /\ DOMAIN s = 1..Len(s) /\ Len(s) \in Nat /\ i \in 1..Len(s)
         /\ DOMAIN RemoveAt(s, i) = 1..(Len(s) - 1)
         /\ \A j \in 1..(Len(s) - 1) :
              RemoveAt(s, i)[j] = IF j < i THEN s[j] ELSE s[j + 1]
<1> DEFINE p == SubSeq(s, 1, i - 1)
<1> DEFINE q == SubSeq(s, i + 1, Len(s))
<1>1. i \in 1..Len(s) /\ Len(s) \in Nat /\ DOMAIN s = 1..Len(s)
  OBVIOUS
<1>2. /\ p \in Seq(S) /\ Len(p) = i - 1
      /\ \A j \in 1..(i - 1) : p[j] = s[j]
  BY <1>1, SubSeqProperties
<1>3. /\ q \in Seq(S) /\ Len(q) = Len(s) - i
      /\ \A j \in 1..(Len(s) - i) : q[j] = s[i + j]
  BY <1>1, SubSeqProperties
<1>4. RemoveAt(s, i) = p \o q
  BY DEF RemoveAt
<1> HIDE DEF p, q
<1>5. /\ DOMAIN (p \o q) = 1..(Len(s) - 1)
      /\ \A j \in 1..(Len(s) - 1) :
           (p \o q)[j] = IF j <= i - 1 THEN p[j] ELSE q[j - (i - 1)]
  <2>1. /\ p \o q \in Seq(S) /\ Len(p \o q) = Len(p) + Len(q)
        /\ \A j \in 1..(Len(p) + Len(q)) :
             (p \o q)[j] = IF j <= Len(p) THEN p[j] ELSE q[j - Len(p)]
    BY <1>2, <1>3, ConcatProperties
  <2>2. Len(p) + Len(q) = Len(s) - 1
    BY <1>1, <1>2, <1>3
  <2> QED
    BY <1>2, <2>1, <2>2
<1>6. ASSUME NEW j \in 1..(Len(s) - 1)
      PROVE  (p \o q)[j] = IF j < i THEN s[j] ELSE s[j + 1]
  <2>1. CASE j < i
    <3>1. j <= i - 1 /\ j \in 1..(i - 1)
      BY <1>1, <2>1
    <3>2. (p \o q)[j] = p[j] /\ p[j] = s[j]
      BY <1>2, <1>5, <3>1
    <3> QED
      BY <2>1, <3>2
  <2>2. CASE ~(j < i)
    <3>1. /\ j - (i - 1) \in 1..(Len(s) - i) /\ i + (j - (i - 1)) = j + 1
          /\ ~(j <= i - 1)
      BY <1>1, <2>2
    <3>2. (p \o q)[j] = q[j - (i - 1)]
      BY <1>5, <3>1
    <3>3. q[j - (i - 1)] = s[j + 1]
      BY <1>3, <3>1
    <3> QED
      BY <2>2, <3>2, <3>3
  <2> QED
    BY <2>1, <2>2
<1> QED
  BY <1>1, <1>4, <1>5, <1>6

LEMMA HasRemoveAt ==
  ASSUME NEW S, NEW s \in Seq(S), NEW i \in DOMAIN s, Once(s)
  PROVE  /\ Once(RemoveAt(s, i))
         /\ \A y : Has(RemoveAt(s, i), y) <=> Has(s, y) /\ y # s[i]
<1> DEFINE r == RemoveAt(s, i)
<1>1. /\ DOMAIN s = 1..Len(s) /\ Len(s) \in Nat /\ i \in 1..Len(s)
      /\ DOMAIN r = 1..(Len(s) - 1)
      /\ \A j \in 1..(Len(s) - 1) : r[j] = IF j < i THEN s[j] ELSE s[j + 1]
  BY RemoveAtElements
<1> HIDE DEF r
<1>2. Once(r)
  <2>1. SUFFICES ASSUME NEW a \in 1..(Len(s) - 1), NEW b \in 1..(Len(s) - 1),
                        r[a] = r[b]
                 PROVE  a = b
    BY <1>1 DEF Once
  <2> DEFINE u == IF a < i THEN a ELSE a + 1
             v == IF b < i THEN b ELSE b + 1
  <2>2. /\ u \in 1..Len(s) /\ v \in 1..Len(s) /\ (u = v => a = b)
        /\ r[a] = s[u] /\ r[b] = s[v]
    BY <1>1
  <2> HIDE DEF u, v
  <2>3. u = v
    BY <1>1, <2>1, <2>2 DEF Once
  <2> QED
    BY <2>2, <2>3
<1>3. ASSUME NEW y, Has(r, y) PROVE Has(s, y) /\ y # s[i]
  <2>1. PICK j \in 1..(Len(s) - 1) : r[j] = y
    BY <1>1, <1>3 DEF Has
  <2>2. CASE j < i
    BY <1>1, <2>1, <2>2 DEF Has, Once
  <2>3. CASE ~(j < i)
    <3>1. j + 1 \in DOMAIN s /\ s[j + 1] = y /\ j + 1 # i
      BY <1>1, <2>1, <2>3
    <3> QED
      BY <3>1 DEF Has, Once
  <2> QED
    BY <2>2, <2>3
<1>4. ASSUME NEW y, Has(s, y), y # s[i] PROVE Has(r, y)
  <2>1. PICK j \in DOMAIN s : s[j] = y /\ j # i
    BY <1>4 DEF Has
  <2>2. CASE j < i
    BY <1>1, <2>1, <2>2 DEF Has
  <2>3. CASE j > i
    <3>1. j - 1 \in 1..(Len(s) - 1) /\ ~(j - 1 < i) /\ (j - 1) + 1 = j
      BY <1>1, <2>1, <2>3
    <3>2. r[j - 1] = y
      BY <1>1, <2>1, <3>1
    <3> QED
      BY <1>1, <3>1, <3>2 DEF Has
  <2> QED
    BY <1>1, <2>1, <2>2, <2>3
<1> QED
  BY <1>2, <1>3, <1>4 DEF r

\* A step that changes the top frame and leaves the blocks where they are.
LEMMA QuietTop ==
  ASSUME IInv, BlocksInv, NEW g, SetTop(g),
         UNCHANGED <<depth, blocks, asked, ran>>,
         g.list = Top.list, Top.pc \in BlockPlaces => g.pc = Top.pc
  PROVE  BlocksInv'
<1>1. /\ depth \in 0..MaxDepth /\ MaxDepth \in Nat
      /\ frame \in [0..MaxDepth -> Frame]
      /\ frame' = [frame EXCEPT ![depth] = g]
  BY TopFacts DEF IInv, TypeOK, SetTop
<1>2. \A d \in 0..depth :
        /\ frame'[d].list = frame[d].list
        /\ frame[d].pc \in BlockPlaces => frame'[d].pc \in BlockPlaces
  BY <1>1 DEF Top
<1> QED
  BY <1>2 DEF BlocksInv, Waits, Has, Once, Apart

\* Detaching moves the whole list into a frame whose own was empty.
LEMMA EnterBlocksKeeps ==
  ASSUME IInv, BlocksInv, NEW f \in Frame, f.list = Top.list,
         NEW place \in PCs \cap BlockPlaces, NEW next \in PCs,
         Top.pc \notin BlockPlaces, EnterBlocks(f, place, next),
         UNCHANGED <<depth, asked, ran>>
  PROVE  BlocksInv'
<1>1. /\ depth \in 0..MaxDepth /\ MaxDepth \in Nat
      /\ frame \in [0..MaxDepth -> Frame] /\ blocks \in Seq(Blocks)
  BY TopFacts DEF IInv, TypeOK
<1>2. CASE blocks = <<>>
  <2> DEFINE g == [f EXCEPT !.pc = next, !.out = FALSE]
  <2>1. g \in Frame /\ SetTop(g) /\ g.list = Top.list /\ blocks' = blocks
    BY <1>2 DEF Frame, EnterBlocks
  <2> QED
    BY <2>1, QuietTop
<1>3. CASE blocks # <<>>
  <2> DEFINE g == [f EXCEPT !.pc = place, !.out = FALSE, !.list = blocks]
  <2>1. g \in Frame /\ SetTop(g) /\ blocks' = <<>>
    BY <1>1, <1>3 DEF Frame, EnterBlocks
  <2>2. g.list = blocks /\ g.pc \in BlockPlaces
    BY DEF Frame
  <2> HIDE DEF g
  <2>3. Top.list = <<>>
    BY <1>1 DEF BlocksInv, Top
  <2>4. /\ frame'[depth].list = blocks /\ frame'[depth].pc \in BlockPlaces
        /\ frame[depth].list = <<>>
        /\ \A d \in 0..depth : d # depth => frame'[d] = frame[d]
    BY <1>1, <2>1, <2>2, <2>3 DEF SetTop, Top
  <2>5. \A d \in 0..depth :
          \/ d = depth /\ frame'[d].list = blocks
          \/ d # depth /\ frame'[d].list = frame[d].list
    BY <2>4
  <2>6. \A d \in 0..depth :
          frame'[d].pc \notin BlockPlaces => frame'[d].list = <<>>
    BY <2>4 DEF BlocksInv
  <2>7. Once(blocks') /\ \A d \in 0..depth : Apart(blocks', frame'[d].list)
    BY <2>1, EmptyList
  <2>8. \A d \in 0..depth : Once(frame'[d].list)
    BY <2>5 DEF BlocksInv
  <2>9. \A c, d \in 0..depth :
          c # d => Apart(frame'[c].list, frame'[d].list)
    <3>1. \A d \in 0..depth : /\ Apart(blocks, frame[d].list)
                              /\ Apart(frame[d].list, blocks)
      BY DEF BlocksInv, Apart
    <3> QED
      BY <2>5, <3>1 DEF BlocksInv
  <2>10. ASSUME NEW b \in Blocks PROVE Waits(b)' <=> Waits(b)
    <3>1. ~Has(blocks', b) /\ ~Has(frame[depth].list, b)
      BY <2>1, <2>4, EmptyList
    <3>2. Has(frame'[depth].list, b) <=> Has(blocks, b)
      BY <2>4
    <3>3. \A d \in 0..depth : d # depth =>
            (Has(frame'[d].list, b) <=> Has(frame[d].list, b))
      BY <2>5
    <3>4. depth \in 0..depth
      BY <1>1
    <3>5. Waits(b)' <=> \/ Has(blocks', b)
                        \/ \E d \in 0..depth : Has(frame'[d].list, b)
      BY DEF Waits, Has
    <3> QED
      BY <3>1, <3>2, <3>3, <3>4, <3>5 DEF Waits
  <2>11. /\ \A b \in Blocks : Waits(b)' <=> Has(asked', b) /\ b \notin ran'
         /\ \A b \in ran' : Has(asked', b)
    BY <2>10 DEF BlocksInv
  <2> QED
    BY <2>6, <2>7, <2>8, <2>9, <2>11 DEF BlocksInv, Waits, Has, Once, Apart
<1> QED
  BY <1>2, <1>3

\* A block is handed over once, so it is in no list before.
LEMMA PerformBlockKeeps ==
  ASSUME IInv, BlocksInv, NEW t \in Threads, NEW x \in Blocks,
         PerformBlock(t, x)
  PROVE  BlocksInv'
<1>1. /\ blocks \in Seq(Blocks) /\ asked \in Seq(Blocks)
      /\ blocks' = Append(blocks, x) /\ asked' = Append(asked, x)
      /\ UNCHANGED <<depth, frame, ran>>
  BY DEF PerformBlock, IInv, TypeOK
<1>2. ~Has(asked, x) /\ x \notin ran
  <2>1. ~Has(asked, x)
    BY DEF PerformBlock, Has
  <2> QED
    BY <2>1 DEF BlocksInv, Waits
<1>3. ~Has(blocks, x) /\ \A d \in 0..depth : ~Has(frame[d].list, x)
  BY <1>2 DEF BlocksInv, Waits
<1>4. /\ \A y : Has(blocks', y) <=> Has(blocks, y) \/ x = y
      /\ Once(blocks')
      /\ \A y : Has(asked', y) <=> Has(asked, y) \/ x = y
  BY <1>1, <1>3, HasAppend DEF BlocksInv
<1>5. \A d \in 0..depth : Apart(blocks', frame[d].list)
  <2>1. SUFFICES ASSUME NEW d \in 0..depth, NEW i \in DOMAIN blocks',
                        NEW j \in DOMAIN frame[d].list
                 PROVE  blocks'[i] # frame[d].list[j]
    BY DEF Apart
  <2>2. Has(blocks', blocks'[i]) /\ Has(frame[d].list, frame[d].list[j])
    BY DEF Has
  <2>3. CASE blocks'[i] = x
    BY <1>3, <2>2, <2>3
  <2>4. CASE Has(blocks, blocks'[i])
    BY <2>4 DEF BlocksInv, Apart, Has
  <2> QED
    BY <1>4, <2>2, <2>3, <2>4
<1>6. /\ \A b \in Blocks : Waits(b)' <=> Has(asked', b) /\ b \notin ran'
      /\ \A b \in ran' : Has(asked', b)
  <2>0. \A b \in ran' : Has(asked', b)
    BY <1>1, <1>4 DEF BlocksInv
  <2>1. SUFFICES ASSUME NEW b \in Blocks
                 PROVE  Waits(b)' <=> Has(asked', b) /\ b \notin ran'
    BY <2>0
  <2>2. Waits(b)' <=> Waits(b) \/ x = b
    <3>1. Waits(b)' <=> \/ Has(blocks', b)
                        \/ \E d \in 0..depth : Has(frame[d].list, b)
      BY <1>1 DEF Waits, Has
    <3> QED
      BY <1>4, <3>1 DEF Waits
  <2> QED
    BY <1>1, <1>2, <1>4, <2>2 DEF BlocksInv
<1>7. /\ \A d \in 0..depth' :
           /\ frame'[d].pc \notin BlockPlaces => frame'[d].list = <<>>
           /\ Once(frame'[d].list) /\ Apart(blocks', frame'[d].list)
      /\ \A c, d \in 0..depth' :
           c # d => Apart(frame'[c].list, frame'[d].list)
  BY <1>1, <1>5 DEF BlocksInv
<1> QED
  BY <1>4, <1>6, <1>7 DEF BlocksInv, Waits, Has, Once, Apart

\* The block that begins leaves its list: it has run, and waits no more.
LEMMA BeginBlockKeeps ==
  ASSUME IInv, BlocksInv, NEW place \in BlockPlaces, BeginBlock(place)
  PROVE  BlocksInv'
<1>1. /\ depth \in 0..MaxDepth /\ MaxDepth \in Nat /\ Top \in Frame
      /\ frame \in [0..MaxDepth -> Frame]
  BY TopFacts DEF IInv, TypeOK
<1>2. PICK i \in DOMAIN Top.list :
        /\ ran' = ran \cup {Top.list[i]}
        /\ SetTop([Top EXCEPT !.out = TRUE, !.list = RemoveAt(Top.list, i)])
  BY DEF BeginBlock
<1> DEFINE rest == RemoveAt(Top.list, i)
<1> DEFINE x == Top.list[i]
<1>3. /\ Top.list \in Seq(Blocks) /\ Once(Top.list) /\ x \in Blocks
      /\ Has(Top.list, x)
  BY <1>1 DEF Frame, BlocksInv, Top, Has
<1>4. Once(rest) /\ \A y : Has(rest, y) <=> Has(Top.list, y) /\ y # x
  BY <1>3, HasRemoveAt
<1>5. UNCHANGED <<depth, blocks, asked>> /\ ran' = ran \cup {x}
  BY <1>2 DEF BeginBlock
<1> HIDE DEF rest, x
<1> DEFINE g == [Top EXCEPT !.out = TRUE, !.list = rest]
<1>a. g.list = rest /\ g.pc = place
  BY <1>1 DEF BeginBlock, At, Frame
<1>b. frame' = [frame EXCEPT ![depth] = g] /\ frame[depth] = Top
  BY <1>2 DEF SetTop, Top, rest
<1> HIDE DEF g
<1>6. /\ frame'[depth].list = rest /\ frame'[depth].pc = place
      /\ frame[depth] = Top
      /\ \A d \in 0..depth : d # depth => frame'[d] = frame[d]
  BY <1>1, <1>a, <1>b
<1>7. \A d \in 0..depth : \A y : Has(frame'[d].list, y) => Has(frame[d].list, y)
  BY <1>4, <1>6
<1>8. \A d \in 0..depth :
        frame'[d].pc \notin BlockPlaces => frame'[d].list = <<>>
  BY <1>6 DEF BlocksInv
<1>9. \A d \in 0..depth : Once(frame'[d].list)
  BY <1>4, <1>6 DEF BlocksInv
<1>10. \A d \in 0..depth : Apart(blocks, frame'[d].list)
  <2>1. \A d \in 0..depth : \A y : Has(blocks, y) => ~Has(frame[d].list, y)
    BY DEF BlocksInv, Apart, Has
  <2> QED
    BY <1>7, <2>1 DEF Apart, Has
<1>11. \A c, d \in 0..depth : c # d => Apart(frame'[c].list, frame'[d].list)
  <2>1. \A c, d \in 0..depth : c # d =>
          \A y : Has(frame[c].list, y) => ~Has(frame[d].list, y)
    BY DEF BlocksInv, Apart, Has
  <2>2. \A c, d \in 0..depth : c # d =>
          \A y : Has(frame'[c].list, y) => ~Has(frame'[d].list, y)
    BY <1>7, <2>1
  <2> QED
    BY <2>2 DEF Apart, Has
<1>12. ~Has(blocks, x) /\ \A d \in 0..depth : d # depth => ~Has(frame[d].list, x)
  BY <1>1, <1>3, <1>6 DEF BlocksInv, Apart, Has
<1>13. ASSUME NEW b \in Blocks
       PROVE  Waits(b)' <=> Waits(b) /\ b # x
  <2>1. Waits(b)' <=> \/ Has(blocks, b)
                      \/ \E d \in 0..depth : Has(frame'[d].list, b)
    BY <1>5 DEF Waits, Has
  <2>2. \A d \in 0..depth :
          Has(frame'[d].list, b) <=> Has(frame[d].list, b) /\ b # x
    BY <1>4, <1>6, <1>12
  <2> QED
    BY <1>12, <2>1, <2>2 DEF Waits
<1>14. /\ \A b \in Blocks : Waits(b)' <=> Has(asked, b) /\ b \notin ran'
       /\ \A b \in ran' : Has(asked, b)
  <2>1. Waits(x)
    BY <1>1, <1>3, <1>6 DEF Waits
  <2> QED
    BY <1>3, <1>5, <1>13, <2>1 DEF BlocksInv
<1> QED
  BY <1>5, <1>8, <1>9, <1>10, <1>11, <1>14
  DEF BlocksInv, Waits, Has, Once, Apart

\* What was not run goes back in front: no block is in both lists.
LEMMA LeaveBlocksKeeps ==
  ASSUME IInv, BlocksInv, NEW place, NEW next, LeaveBlocks(place, next)
  PROVE  BlocksInv'
<1>1. /\ depth \in 0..MaxDepth /\ MaxDepth \in Nat /\ Top \in Frame
      /\ frame \in [0..MaxDepth -> Frame]
      /\ blocks \in Seq(Blocks) /\ Top.list \in Seq(Blocks)
  BY TopFacts DEF IInv, TypeOK, Frame
<1> DEFINE g == [Top EXCEPT !.pc = next, !.list = <<>>]
<1> DEFINE kept == Top.list
<1>2. /\ UNCHANGED <<depth, asked, ran>> /\ blocks' = kept \o blocks
      /\ g.list = <<>> /\ frame' = [frame EXCEPT ![depth] = g]
      /\ frame[depth].list = kept
  BY <1>1 DEF LeaveBlocks, Splice, SetTop, Frame, Top
<1> HIDE DEF g, kept
<1>3. /\ frame'[depth].list = <<>>
      /\ \A d \in 0..depth : d # depth => frame'[d] = frame[d]
  BY <1>1, <1>2
<1>4. Once(kept) /\ Apart(blocks, kept) /\ Apart(kept, blocks)
  BY <1>1, <1>2 DEF BlocksInv, Apart
<1>5. Once(blocks') /\ \A y : Has(blocks', y) <=> Has(kept, y) \/ Has(blocks, y)
  BY <1>1, <1>2, <1>4, HasConcat DEF BlocksInv, kept
<1>6. \A d \in 0..depth : frame'[d].pc \notin BlockPlaces => frame'[d].list = <<>>
  BY <1>3 DEF BlocksInv
<1>7. \A d \in 0..depth : Once(frame'[d].list)
  BY <1>3, EmptyList DEF BlocksInv
<1>8. \A d \in 0..depth : Apart(blocks', frame'[d].list)
  <2>1. \A d \in 0..depth : d # depth =>
          \A y : Has(kept, y) \/ Has(blocks, y) => ~Has(frame[d].list, y)
    BY <1>1, <1>2 DEF BlocksInv, Apart, Has
  <2>2. \A d \in 0..depth : d # depth => Apart(blocks', frame[d].list)
    BY <1>5, <2>1 DEF Apart, Has
  <2> QED
    BY <1>3, <2>2, EmptyList
<1>9. \A c, d \in 0..depth : c # d => Apart(frame'[c].list, frame'[d].list)
  BY <1>3, EmptyList DEF BlocksInv
<1>10. ASSUME NEW b \in Blocks PROVE Waits(b)' <=> Waits(b)
  <2>1. Waits(b)' <=> \/ Has(blocks', b)
                      \/ \E d \in 0..depth : Has(frame'[d].list, b)
    BY <1>2 DEF Waits, Has
  <2>2. depth \in 0..depth /\ ~Has(frame'[depth].list, b)
    BY <1>1, <1>3, EmptyList
  <2> QED
    BY <1>2, <1>3, <1>5, <2>1, <2>2 DEF Waits
<1>11. /\ \A b \in Blocks : Waits(b)' <=> Has(asked', b) /\ b \notin ran'
       /\ \A b \in ran' : Has(asked', b)
  BY <1>2, <1>10 DEF BlocksInv
<1> QED
  BY <1>2, <1>5, <1>6, <1>7, <1>8, <1>9, <1>11
  DEF BlocksInv, Waits, Has, Once, Apart

\* Frames come and go with empty lists.
LEMMA FramesKeep ==
  ASSUME IInv, BlocksInv, UNCHANGED <<blocks, asked, ran>>,
         depth' \in Nat,
         \A d \in 0..depth' :
           \/ d > depth /\ frame'[d].list = <<>>
           \/ d <= depth /\ frame'[d].list = frame[d].list
              /\ frame'[d].pc = frame[d].pc,
         \A d \in 0..depth : d > depth' => frame[d].list = <<>>
  PROVE  BlocksInv'
<1>1. depth \in Nat
  BY TopFacts
<1>2. /\ \A d \in 0..depth' :
           /\ frame'[d].pc \notin BlockPlaces => frame'[d].list = <<>>
           /\ Once(frame'[d].list) /\ Apart(blocks, frame'[d].list)
      /\ \A c, d \in 0..depth' :
           c # d => Apart(frame'[c].list, frame'[d].list)
  BY <1>1, EmptyList DEF BlocksInv
<1>3. ASSUME NEW b PROVE Waits(b)' <=> Waits(b)
  <2>1. Waits(b)' <=> \/ Has(blocks, b)
                      \/ \E d \in 0..depth' : Has(frame'[d].list, b)
    BY DEF Waits, Has
  <2>2. (\E d \in 0..depth' : Has(frame'[d].list, b))
          => \E d \in 0..depth : Has(frame[d].list, b)
    BY <1>1, EmptyList
  <2>3. ASSUME NEW d \in 0..depth, Has(frame[d].list, b)
        PROVE  \E e \in 0..depth' : Has(frame'[e].list, b)
    <3>1. d \in 0..depth'
      BY <1>1, <2>3, EmptyList
    <3>2. frame'[d].list = frame[d].list
      BY <1>1, <3>1
    <3> QED
      BY <2>3, <3>1, <3>2
  <2> QED
    BY <2>1, <2>2, <2>3 DEF Waits
<1>4. /\ \A b \in Blocks : Waits(b)' <=> Has(asked', b) /\ b \notin ran'
      /\ \A b \in ran' : Has(asked', b)
  BY <1>3 DEF BlocksInv
<1>5. Once(blocks')
  BY DEF BlocksInv
<1> QED
  BY <1>2, <1>4, <1>5 DEF BlocksInv, Waits, Has, Once, Apart

LEMMA RunsKeep ==
  ASSUME IInv, BlocksInv,
         \/ \E m \in Modes, call \in Calls : RunSpecific(m, call)
         \/ RunReturns
         \/ \E d \in 1..MaxDepth : TimeoutFires(d)
  PROVE  BlocksInv'
<1>1. /\ depth \in 0..MaxDepth /\ MaxDepth \in Nat
      /\ frame \in [0..MaxDepth -> Frame]
  BY TopFacts DEF IInv, TypeOK
<1>2. CASE \E m \in Modes, call \in Calls : RunSpecific(m, call)
  <2>1. PICK m \in Modes, call \in Calls : RunSpecific(m, call)
    BY <1>2
  <2> DEFINE g == NewFrame(m, call[1], call[2])
  <2>2. g.list = <<>>
    BY DEF NewFrame
  <2>3. /\ depth' = depth + 1 /\ depth + 1 \in 0..MaxDepth
        /\ frame' = [frame EXCEPT ![depth + 1] = g]
        /\ UNCHANGED <<blocks, asked, ran>>
    BY <1>1, <2>1 DEF RunSpecific
  <2> HIDE DEF g
  <2> QED
    BY <1>1, <2>2, <2>3, FramesKeep
<1>3. CASE RunReturns
  <2> DEFINE n == frame[depth - 1].nested \/ frame[depth - 1].pc \in Lulling
  <2> DEFINE g == [frame[depth - 1] EXCEPT !.nested = n]
  <2>1. Top.pc = "exit" /\ depth \in 1..MaxDepth
    BY <1>3, TopFacts DEF RunReturns, Returns
  <2>2. depth' = depth - 1 /\ UNCHANGED <<blocks, asked, ran>>
    BY <1>3 DEF RunReturns
  <2>3. frame' = [frame EXCEPT ![depth] = NoRun, ![depth - 1] = g]
    BY <1>1, <1>3, <2>1 DEF RunReturns
  <2> HIDE DEF n
  <2>4. frame[depth - 1] \in Frame
    BY <1>1, <2>1
  <2>5. g.list = frame[depth - 1].list /\ g.pc = frame[depth - 1].pc
    BY <2>4 DEF Frame
  <2> HIDE DEF g
  <2>6. frame[depth].list = <<>>
    BY <1>1, <2>1 DEF BlocksInv, BlockPlaces, Top
  <2>7. \A d \in 0..(depth - 1) : /\ frame'[d].list = frame[d].list
                                  /\ frame'[d].pc = frame[d].pc
    BY <1>1, <2>1, <2>3, <2>5
  <2> QED
    BY <1>1, <2>1, <2>2, <2>6, <2>7, FramesKeep
<1>4. CASE \E d \in 1..MaxDepth : TimeoutFires(d)
  <2>1. PICK e \in 1..MaxDepth : TimeoutFires(e)
    BY <1>4
  <2> DEFINE g == [frame[e] EXCEPT !.expired = TRUE]
  <2>2. frame[e] \in Frame
    BY <1>1
  <2>3. g.list = frame[e].list /\ g.pc = frame[e].pc
    BY <2>2 DEF Frame
  <2>4. frame' = [frame EXCEPT ![e] = g] /\ UNCHANGED <<depth, blocks, asked, ran>>
    BY <2>1 DEF TimeoutFires
  <2> HIDE DEF g
  <2>5. \A d \in 0..depth : /\ frame'[d].list = frame[d].list
                            /\ frame'[d].pc = frame[d].pc
    BY <1>1, <2>3, <2>4
  <2> QED
    BY <1>1, <2>4, <2>5, FramesKeep
<1> QED
  BY <1>2, <1>3, <1>4

LEMMA OthersKeep ==
  ASSUME IInv, BlocksInv, UNCHANGED <<depth, frame, blocks, asked, ran>>
  PROVE  BlocksInv'
<1>1. depth \in Nat
  BY TopFacts
<1> QED
  BY <1>1, FramesKeep

\* Every other step of the loop thread changes its top frame, but not what it
\* has detached.
QuietStep ==
  \/ StartStopped \/ StartModeStopped \/ Start \/ BeforeSources
  \/ \E place \in BlockPlaces : EndBlock(place)
  \/ \E s \in Sources0 : CollectSource(s) \/ PerformSource(s)
  \/ Collected \/ EndSource
  \/ SleepStep
  \/ HandleCallout \/ DecideHandledSource \/ DecideTimedOut \/ DecideStopped
  \/ DecideModeStopped \/ DecideRest
  \/ \E t \in Threads : Stop(t)

\* The top frame becomes g, and every block stays where it is.
QuietTo(g) == /\ SetTop(g) /\ UNCHANGED <<depth, blocks, asked, ran>>
              /\ g.list = Top.list
              /\ Top.pc \in BlockPlaces => g.pc = Top.pc

LEMMA QuietFacts == ASSUME IInv, QuietStep PROVE \E g : QuietTo(g)
<1>1. Top \in Frame
  BY TopFacts
<1>2. CASE \E t \in Threads : Stop(t)
  <2>1. QuietTo([Top EXCEPT !.stopped = TRUE])
    BY <1>1, <1>2 DEF QuietTo, Stop, Frame
  <2> QED
    BY <2>1
<1>3. CASE StartStopped \/ DecideStopped
  <2>1. QuietTo(Exit([Top EXCEPT !.stopped = FALSE]))
    BY <1>1, <1>3 DEF QuietTo, StartStopped, DecideStopped, Returns, At, Frame, Exit,
         BlockPlaces
  <2> QED
    BY <2>1
<1>4. CASE StartModeStopped \/ DecideHandledSource \/ DecideTimedOut
           \/ DecideModeStopped
  <2>1. QuietTo(Exit(Top))
    BY <1>1, <1>4 DEF QuietTo, StartModeStopped, DecideHandledSource, DecideTimedOut,
         DecideModeStopped, Returns, At, Frame, Exit, BlockPlaces
  <2> QED
    BY <2>1
<1>5. CASE Start
  <2>1. QuietTo(Iterate([Top EXCEPT !.dispatch = ServesMain(Top.mode),
                                  !.expired = Top.limit = "instant"]))
    BY <1>1, <1>5 DEF QuietTo, Start, Returns, Frame, Iterate, BlockPlaces
  <2> QED
    BY <2>1
<1>6. CASE DecideRest
  <2>1. QuietTo(IF ModeIsEmpty(Top.mode) THEN Exit(Top) ELSE Iterate(Top))
    BY <1>1, <1>6 DEF QuietTo, DecideRest, At, Frame, Exit, Iterate, BlockPlaces
  <2> QED
    BY <2>1
<1>7. CASE BeforeSources
  <2>1. QuietTo([Top EXCEPT !.pc = "sources"])
    BY <1>1, <1>7 DEF QuietTo, BeforeSources, Returns, Frame, BlockPlaces
  <2> QED
    BY <2>1
<1>8. CASE \E place \in BlockPlaces : EndBlock(place)
  <2>1. QuietTo([Top EXCEPT !.out = FALSE])
    BY <1>1, <1>8 DEF QuietTo, EndBlock, Returns, Frame, BlockPlaces
  <2> QED
    BY <2>1
<1>9. ASSUME NEW s \in Sources0, CollectSource(s) PROVE \E g : QuietTo(g)
  <2>1. QuietTo([Top EXCEPT !.unread = @ \ {s},
                       !.todo = IF s \in signaled THEN @ \cup {s} ELSE @])
    BY <1>1, <1>9 DEF QuietTo, CollectSource, At, Frame, BlockPlaces
  <2> QED
    BY <2>1
<1>10. ASSUME NEW s \in Sources0, PerformSource(s) PROVE \E g : QuietTo(g)
  <2>1. QuietTo([Top EXCEPT !.todo = @ \ {s}, !.out = s \in signaled])
    BY <1>1, <1>10 DEF QuietTo, PerformSource, At, Frame, BlockPlaces
  <2> QED
    BY <2>1
<1>11. CASE Collected
  <2>1. QuietTo([Top EXCEPT !.pc = IF Top.todo = {} THEN "prepare" ELSE "perform"])
    BY <1>1, <1>11 DEF QuietTo, Collected, At, Frame, BlockPlaces
  <2> QED
    BY <2>1
<1>12. CASE EndSource
  <2>1. QuietTo([Top EXCEPT !.out = FALSE, !.handled = TRUE,
                          !.todo = IF Top.stopAfter THEN {} ELSE @])
    BY <1>1, <1>12 DEF QuietTo, EndSource, Returns, Frame, BlockPlaces
  <2> QED
    BY <2>1
<1>13. CASE TakeMainFirst
  <2>1. QuietTo([Top EXCEPT !.pc = "handle", !.live = "main"])
    BY <1>1, <1>13 DEF QuietTo, TakeMainFirst, At, Frame, BlockPlaces
  <2> QED
    BY <2>1
<1>14. CASE Prepare
  <2> DEFINE poll == Top.handled \/ Top.expired
  <2>1. QuietTo([Top EXCEPT !.poll = poll, !.didDispatch = FALSE,
                          !.pc = IF poll THEN "asleep" ELSE "waiting",
                          !.out = ~poll])
    BY <1>1, <1>14 DEF QuietTo, Prepare, At, Frame, BlockPlaces
  <2> QED
    BY <2>1
<1>15. CASE Sleep
  <2>1. QuietTo([Top EXCEPT !.pc = "asleep", !.out = FALSE])
    BY <1>1, <1>15 DEF QuietTo, Sleep, Returns, Frame, BlockPlaces
  <2> QED
    BY <2>1
<1>16. CASE ReceiveWakeUp \/ ReceiveMain \/ PollFindsNothing
            \/ \E s \in Sources1 : ReceiveSource1(s)
  <2>1. PICK port : Woken(port)
    BY <1>16 DEF ReceiveWakeUp, ReceiveMain, PollFindsNothing, ReceiveSource1
  <2>2. At("asleep") /\ UNCHANGED <<depth, blocks, asked, ran>>
    BY <1>16 DEF ReceiveWakeUp, ReceiveMain, PollFindsNothing, ReceiveSource1
  <2>3. QuietTo([Top EXCEPT !.pc = "received", !.live = port])
    BY <1>1, <2>1, <2>2 DEF QuietTo, Woken, At, Frame, BlockPlaces
  <2> QED
    BY <2>3
<1>17. CASE AfterReceive
  <2>1. QuietTo([Top EXCEPT !.ignore = TRUE, !.out = ~Top.poll,
                          !.pc = IF Top.poll THEN "handle" ELSE "woke"])
    BY <1>1, <1>17 DEF QuietTo, AfterReceive, At, Frame, BlockPlaces
  <2> QED
    BY <2>1
<1>18. CASE AfterWaiting
  <2>1. QuietTo([Top EXCEPT !.pc = "handle", !.out = FALSE])
    BY <1>1, <1>18 DEF QuietTo, AfterWaiting, Returns, Frame, BlockPlaces
  <2> QED
    BY <2>1
<1>19. CASE HandleCallout
  <2>1. QuietTo([Top EXCEPT !.ignore = TRUE, !.out = TRUE,
                 !.pc = IF Top.live = "main" THEN "main" ELSE "source1"])
    BY <1>1, <1>19 DEF QuietTo, HandleCallout, At, Frame, BlockPlaces
  <2> QED
    BY <2>1
<1> QED
  BY <1>2, <1>3, <1>4, <1>5, <1>6, <1>7, <1>8, <1>9, <1>10, <1>11, <1>12, <1>13,
     <1>14, <1>15, <1>16, <1>17, <1>18, <1>19 DEF QuietStep, SleepStep

\* A pass over the blocks begins: the list is detached into the top frame.
Detaches ==
  /\ Top.pc \notin BlockPlaces
  /\ UNCHANGED <<depth, asked, ran>>
  /\ \E f \in Frame, place \in PCs \cap BlockPlaces, next \in PCs :
       f.list = Top.list /\ EnterBlocks(f, place, next)

LEMMA DetachFacts ==
  ASSUME IInv,
         \/ StartBlocks1 \/ Performed
         \/ HandleNothing \/ EndMain \/ EndSource1
  PROVE  Detaches \/ \E g : QuietTo(g)
<1>1. /\ Top \in Frame
      /\ {"collect", "prepare", "decide"} \subseteq PCs
      /\ BlockPlaces \subseteq PCs
  BY TopFacts DEF PCs, Locked, BlockPlaces
<1>2. CASE StartBlocks1
  <2> DEFINE h == [Top EXCEPT !.unread = MembersOf(Top.mode)]
  <2>1. h \in Frame /\ h.list = Top.list
    BY <1>1 DEF Frame, MembersOf
  <2>2. /\ EnterBlocks(h, "blocks1", "collect") /\ Top.pc = "sources"
        /\ UNCHANGED <<depth, asked, ran>>
    BY <1>2 DEF StartBlocks1, Returns
  <2> HIDE DEF h
  <2> QED
    BY <1>1, <2>1, <2>2 DEF Detaches, BlockPlaces
<1>3. CASE Performed
  <2>1. Top.pc = "perform" /\ UNCHANGED <<depth, asked, ran>>
    BY <1>3 DEF Performed, At
  <2>2. CASE EnterBlocks(Top, "blocks2", "prepare")
    BY <1>1, <2>1, <2>2 DEF Detaches, BlockPlaces
  <2>3. CASE SetTop([Top EXCEPT !.pc = "prepare"]) /\ UNCHANGED blocks
    <3>1. [Top EXCEPT !.pc = "prepare"].list = Top.list
      BY <1>1 DEF Frame
    <3> QED
      BY <2>1, <2>3, <3>1 DEF QuietTo, BlockPlaces
  <2> QED
    BY <1>3, <2>2, <2>3 DEF Performed
<1>4. CASE HandleNothing
  <2> DEFINE h == [Top EXCEPT !.ignore = TRUE]
  <2>1. h \in Frame /\ h.list = Top.list
    BY <1>1 DEF Frame
  <2>2. /\ EnterBlocks(h, "blocks3", "decide") /\ Top.pc = "handle"
        /\ UNCHANGED <<depth, asked, ran>>
    BY <1>4 DEF HandleNothing, At
  <2> HIDE DEF h
  <2> QED
    BY <1>1, <2>1, <2>2 DEF Detaches, BlockPlaces
<1>5. CASE EndMain
  <2> DEFINE h == [Top EXCEPT !.handled = TRUE, !.didDispatch = TRUE]
  <2>1. h \in Frame /\ h.list = Top.list
    BY <1>1 DEF Frame
  <2>2. /\ EnterBlocks(h, "blocks3", "decide") /\ Top.pc = "main"
        /\ UNCHANGED <<depth, asked, ran>>
    BY <1>5 DEF EndMain, Returns
  <2> HIDE DEF h
  <2> QED
    BY <1>1, <2>1, <2>2 DEF Detaches, BlockPlaces
<1>6. CASE EndSource1
  <2> DEFINE h == [Top EXCEPT !.handled = TRUE]
  <2>1. h \in Frame /\ h.list = Top.list
    BY <1>1 DEF Frame
  <2>2. /\ EnterBlocks(h, "blocks3", "decide") /\ Top.pc = "source1"
        /\ UNCHANGED <<depth, asked, ran>>
    BY <1>6 DEF EndSource1, Returns
  <2> HIDE DEF h
  <2> QED
    BY <1>1, <2>1, <2>2 DEF Detaches, BlockPlaces
<1> QED
  BY <1>2, <1>3, <1>4, <1>5, <1>6

LEMMA BlocksInit == Init => BlocksInv
<1> SUFFICES ASSUME Init PROVE BlocksInv
  OBVIOUS
<1>1. NoRun.list = <<>>
  BY DEF NoRun, NewFrame
<1>2. /\ depth = 0 /\ blocks = <<>> /\ asked = <<>> /\ ran = {}
      /\ \A d \in 0..depth : frame[d].list = <<>>
  BY <1>1, RunLoopAssumption DEF Init
<1> QED
  BY <1>2, EmptyList DEF BlocksInv, Waits

\* What the steps do to the blocks.
LEMMA StepKinds ==
  ASSUME IInv, [Next]_vars
  PROVE  \/ \E g : QuietTo(g)
         \/ Detaches
         \/ \E place \in BlockPlaces : BeginBlock(place)
         \/ \E place, next \in PCs : LeaveBlocks(place, next)
         \/ \E t \in Threads, x \in Blocks : PerformBlock(t, x)
         \/ \E m \in Modes, call \in Calls : RunSpecific(m, call)
         \/ RunReturns
         \/ \E d \in 1..MaxDepth : TimeoutFires(d)
         \/ UNCHANGED <<depth, frame, blocks, asked, ran>>
<1>1. CASE LoopStep
  <2>1. CASE BlockStep
    <3>1. CASE \E place \in {"blocks1", "blocks2", "blocks3"} :
                 BeginBlock(place) \/ EndBlock(place)
      BY <3>1, QuietFacts DEF QuietStep, BlockPlaces
    <3> QED
      BY <2>1, <3>1 DEF BlockStep, PCs, Locked
  <2>2. CASE SourceStep
    <3>1. CASE StartBlocks1 \/ Performed
      BY <3>1, DetachFacts
    <3>2. CASE \/ \E s \in Sources0 : CollectSource(s) \/ PerformSource(s)
               \/ Collected \/ EndSource
      BY <3>2, QuietFacts DEF QuietStep
    <3> QED
      BY <2>2, <3>1, <3>2 DEF SourceStep
  <2>3. CASE HandleStep
    <3>1. CASE HandleNothing \/ EndMain \/ EndSource1
      BY <3>1, DetachFacts
    <3>2. CASE HandleCallout \/ DecideHandledSource \/ DecideTimedOut
               \/ DecideStopped \/ DecideModeStopped \/ DecideRest
      BY <3>2, QuietFacts DEF QuietStep
    <3> QED
      BY <2>3, <3>1, <3>2 DEF HandleStep
  <2>4. CASE SleepStep \/ StartStopped \/ StartModeStopped \/ Start
             \/ BeforeSources
    BY <2>4, QuietFacts DEF QuietStep
  <2> QED
    BY <1>1, <2>1, <2>2, <2>3, <2>4 DEF LoopStep
<1>2. CASE TimeoutStep
  BY <1>2 DEF TimeoutStep, TimeoutWakeUp
<1>3. CASE ClientStep
  <2>1. PICK t \in Threads :
          \/ \E s \in Sources0 : SourceSignal(t, s)
          \/ \E x \in Blocks : PerformBlock(t, x)
          \/ Stop(t)
          \/ \E m \in Modes : StopMode(t, m)
          \/ WakeUp(t)
    BY <1>3 DEF ClientStep
  <2>2. CASE Stop(t)
    BY <2>2, QuietFacts DEF QuietStep
  <2>3. CASE \/ \E s \in Sources0 : SourceSignal(t, s)
             \/ \E m \in Modes : StopMode(t, m)
             \/ WakeUp(t)
    BY <2>3 DEF SourceSignal, StopMode, WakeUp
  <2> QED
    BY <2>1, <2>2, <2>3
<1>4. CASE (\E s \in Sources1 : SendToPort(s)) \/ MainQueueReady \/ UNCHANGED vars
  BY <1>4 DEF SendToPort, MainQueueReady, vars
<1> QED
  BY <1>1, <1>2, <1>3, <1>4 DEF Next

LEMMA BlocksStep == ASSUME IInv, BlocksInv, [Next]_vars PROVE BlocksInv'
<1>1. CASE \E g : QuietTo(g)
  BY <1>1, QuietTop DEF QuietTo
<1>2. CASE Detaches
  BY <1>2, EnterBlocksKeeps DEF Detaches
<1> QED
  BY <1>1, <1>2, StepKinds, BeginBlockKeeps, LeaveBlocksKeeps,
     PerformBlockKeeps, RunsKeep, OthersKeep

LEMMA BlocksCounted == IInv /\ BlocksInv => NoBlockLost
<1> SUFFICES ASSUME IInv, BlocksInv, NEW b \in Blocks
             PROVE  LET queued   == {i \in DOMAIN blocks : blocks[i] = b}
                        detached == {d \in 1..depth :
                                       \E i \in DOMAIN frame[d].list :
                                         frame[d].list[i] = b}
                        pending  == b \notin ran
                                    /\ \E i \in DOMAIN asked : asked[i] = b
                    IN  Cardinality(queued) + Cardinality(detached)
                          = IF pending THEN 1 ELSE 0
  BY DEF NoBlockLost
<1> DEFINE queued   == {i \in DOMAIN blocks : blocks[i] = b}
<1> DEFINE detached == {d \in 1..depth : Has(frame[d].list, b)}
<1>1. depth \in Nat /\ frame[0].list = <<>>
  BY TopFacts DEF IInv, Stack, BlocksInv, BlockPlaces
<1>2. Has(frame[0].list, b) = FALSE
  BY <1>1, EmptyList
<1>3. (Has(asked, b) /\ b \notin ran) <=> (queued # {} \/ detached # {})
  <2>1. Has(blocks, b) <=> queued # {}
    BY DEF Has
  <2>2. (\E d \in 0..depth : Has(frame[d].list, b)) <=> detached # {}
    BY <1>1, <1>2
  <2> QED
    BY <2>1, <2>2 DEF BlocksInv, Waits
<1>4. queued = {} \/ \E i : queued = {i}
  BY DEF BlocksInv, Once
<1>5. detached = {} \/ \E d : detached = {d}
  <2>1. ASSUME NEW c \in detached, NEW d \in detached PROVE c = d
    BY <1>1, <2>1 DEF BlocksInv, Apart, Has
  <2> QED
    BY <2>1
<1>6. queued = {} \/ detached = {}
  BY <1>1 DEF BlocksInv, Apart, Has
<1>7. /\ Cardinality({}) = 0
      /\ \A i : Cardinality({i}) = 1
  BY FS_Singleton, FS_EmptySet
<1>8. Cardinality(queued) + Cardinality(detached)
        = IF Has(asked, b) /\ b \notin ran THEN 1 ELSE 0
  <2> HIDE DEF queued, detached
  <2>1. CASE queued = {} /\ detached = {}
    BY <1>3, <1>7, <2>1
  <2>2. CASE queued # {} /\ detached = {}
    <3>1. Cardinality(queued) = 1 /\ Cardinality(detached) = 0
      BY <1>4, <1>7, <2>2
    <3> QED
      BY <1>3, <2>2, <3>1
  <2>3. CASE queued = {} /\ detached # {}
    <3>1. Cardinality(queued) = 0 /\ Cardinality(detached) = 1
      BY <1>5, <1>7, <2>3
    <3> QED
      BY <1>3, <2>3, <3>1
  <2> QED
    BY <1>6, <2>1, <2>2, <2>3
<1> QED
  BY <1>8 DEF Has

\* __CFRunLoopDoBlocks detaches and splices the list around callouts: for any
\* number of threads, blocks and nested runs, a block that was handed over and
\* has not run is in exactly one list, once, and one that has run is in none.
THEOREM BlocksAreNotLost == Spec => []NoBlockLost
<1>1. Init => BlocksInv
  BY BlocksInit
<1>2. IInv /\ BlocksInv /\ [Next]_vars => BlocksInv'
  BY BlocksStep
<1>3. IInv /\ BlocksInv => NoBlockLost
  BY BlocksCounted
<1> QED
  BY Invariance, <1>1, <1>2, <1>3, PTL DEF Spec

-----------------------------------------------------------------------------
(* Runs that do not nest call the blocks in the order of PerformBlock.      *)

\* A step in which no callout runs the loop again.
FlatNext == Next /\ depth' <= 1

Earlier(x, y) ==
  \E i, j \in DOMAIN asked : i < j /\ asked[i] = x /\ asked[j] = y

InTurn(s)    == \A i, j \in DOMAIN s : i < j => Earlier(s[i], s[j])
Ahead(s, t)  == \A i \in DOMAIN s, j \in DOMAIN t : Earlier(s[i], t[j])

\* The detached list and the loop's list, one after the other, are in order.
OrderInv ==
  /\ depth <= 1
  /\ Once(asked)
  /\ InTurn(blocks) /\ InTurn(Top.list) /\ Ahead(Top.list, blocks)
  /\ BlocksInOrder

LEMMA EmptyInTurn ==
  InTurn(<<>>) /\ \A s : Ahead(<<>>, s) /\ Ahead(s, <<>>)
  BY DEF InTurn, Ahead

\* A step that leaves both lists and the history alone.
LEMMA QuietOrder ==
  ASSUME OrderInv, depth' <= 1, UNCHANGED <<blocks, asked, ran>>,
         Top'.list = Top.list
  PROVE  OrderInv'
<1> DEFINE l == Top.list
<1>1. Top'.list = l /\ InTurn(l) /\ Ahead(l, blocks)
  BY DEF OrderInv
<1> HIDE DEF l
<1> QED
  BY <1>1 DEF OrderInv, Once, InTurn, Ahead, Earlier, BlocksInOrder

\* Detaching: the frame's own list was empty.
LEMMA EnterBlocksOrder ==
  ASSUME IInv, BlocksInv, OrderInv, NEW f \in Frame, f.list = Top.list,
         NEW place, NEW next,
         Top.pc \notin BlockPlaces, EnterBlocks(f, place, next),
         UNCHANGED <<depth, asked, ran>>
  PROVE  OrderInv'
<1>1. /\ depth \in 0..MaxDepth /\ frame \in [0..MaxDepth -> Frame]
      /\ Top.list = <<>>
  BY TopFacts DEF IInv, TypeOK, BlocksInv, Top
<1>2. CASE blocks = <<>>
  <2> DEFINE g == [f EXCEPT !.pc = next, !.out = FALSE]
  <2>1. g.list = Top.list /\ SetTop(g) /\ UNCHANGED blocks
    BY <1>2 DEF EnterBlocks, Frame
  <2> HIDE DEF g
  <2>2. Top' = g
    BY <1>1, <2>1 DEF SetTop, Top
  <2> QED
    BY <2>1, <2>2, QuietOrder DEF OrderInv
<1>3. CASE blocks # <<>>
  <2> DEFINE g == [f EXCEPT !.pc = place, !.out = FALSE, !.list = blocks]
  <2>1. g.list = blocks /\ SetTop(g) /\ blocks' = <<>>
    BY <1>3 DEF EnterBlocks, Frame
  <2> HIDE DEF g
  <2>2. Top'.list = blocks
    BY <1>1, <2>1 DEF SetTop, Top
  <2>3. InTurn(blocks') /\ Ahead(blocks, blocks')
    BY <2>1, EmptyInTurn
  <2> QED
    BY <2>1, <2>2, <2>3 DEF OrderInv, Once, InTurn, Ahead, Earlier,
         BlocksInOrder
<1> QED
  BY <1>2, <1>3

\* A block that arrives is later than those that wait.
LEMMA PerformBlockOrder ==
  ASSUME IInv, BlocksInv, OrderInv, NEW t \in Threads, NEW x \in Blocks,
         PerformBlock(t, x)
  PROVE  OrderInv'
<1> DEFINE n == Len(asked)
<1> DEFINE m == Len(blocks)
<1>1. /\ blocks \in Seq(Blocks) /\ asked \in Seq(Blocks)
      /\ blocks' = Append(blocks, x) /\ asked' = Append(asked, x)
      /\ UNCHANGED <<depth, frame, ran>> /\ x \notin ran
      /\ ~Has(asked, x)
  BY DEF PerformBlock, IInv, TypeOK, BlocksInv, Has
<1>2. /\ n \in Nat /\ DOMAIN asked = 1..n /\ DOMAIN asked' = 1..(n + 1)
      /\ \A i \in 1..n : asked'[i] = asked[i]
      /\ asked'[n + 1] = x
  BY <1>1, AppendProperties
<1>3. /\ m \in Nat /\ DOMAIN blocks = 1..m /\ DOMAIN blocks' = 1..(m + 1)
      /\ \A i \in 1..m : blocks'[i] = blocks[i]
      /\ blocks'[m + 1] = x
  BY <1>1, AppendProperties
<1>4. Once(asked')
  BY <1>1, HasAppend DEF OrderInv
<1> HIDE DEF n, m
<1>5. \A y, z : Earlier(y, z) => Earlier(y, z)'
  BY <1>2 DEF Earlier
<1>6. \A y : Has(asked, y) => Earlier(y, x)'
  BY <1>2 DEF Earlier, Has
<1>7. /\ \A i \in DOMAIN blocks : Has(asked, blocks[i])
      /\ \A i \in DOMAIN Top.list : Has(asked, Top.list[i])
  <2>1. /\ \A i \in DOMAIN blocks :
             blocks[i] \in Blocks /\ Has(blocks, blocks[i])
        /\ \A i \in DOMAIN Top.list :
             Top.list[i] \in Blocks /\ Has(frame[depth].list, Top.list[i])
        /\ depth \in 0..depth
    BY <1>1, TopFacts DEF Frame, Has, Top
  <2> QED
    BY <2>1 DEF BlocksInv, Waits
<1>8. InTurn(blocks)' /\ InTurn(Top.list)' /\ Ahead(Top.list, blocks)'
  <2>1. UNCHANGED Top
    BY <1>1 DEF Top
  <2>2. InTurn(blocks)'
    BY <1>3, <1>5, <1>6, <1>7 DEF InTurn, OrderInv
  <2>3. InTurn(Top.list)'
    BY <1>5, <2>1 DEF InTurn, OrderInv
  <2>4. Ahead(Top.list, blocks)'
    BY <1>3, <1>5, <1>6, <1>7, <2>1 DEF Ahead, OrderInv
  <2> QED
    BY <2>2, <2>3, <2>4
<1>9. BlocksInOrder'
  BY <1>1, <1>2 DEF BlocksInOrder, OrderInv
<1> QED
  BY <1>1, <1>4, <1>8, <1>9 DEF OrderInv

LEMMA RemoveAtInTurn ==
  ASSUME NEW S, NEW s \in Seq(S), NEW i \in DOMAIN s, InTurn(s), NEW t,
         Ahead(s, t)
  PROVE  InTurn(RemoveAt(s, i)) /\ Ahead(RemoveAt(s, i), t)
<1> DEFINE r == RemoveAt(s, i)
<1>1. /\ DOMAIN s = 1..Len(s) /\ Len(s) \in Nat /\ i \in 1..Len(s)
      /\ DOMAIN r = 1..(Len(s) - 1)
      /\ \A j \in 1..(Len(s) - 1) : r[j] = IF j < i THEN s[j] ELSE s[j + 1]
  BY RemoveAtElements
<1> HIDE DEF r
<1>2. \A j \in DOMAIN r : (IF j < i THEN j ELSE j + 1) \in DOMAIN s
  BY <1>1
<1>3. InTurn(r)
  <2>1. SUFFICES ASSUME NEW j \in DOMAIN r, NEW k \in DOMAIN r, j < k
                 PROVE  Earlier(r[j], r[k])
    BY DEF InTurn
  <2> DEFINE p == IF j < i THEN j ELSE j + 1
  <2> DEFINE q == IF k < i THEN k ELSE k + 1
  <2>2. p \in DOMAIN s /\ q \in DOMAIN s /\ p < q
    BY <1>1, <2>1
  <2>3. r[j] = s[p] /\ r[k] = s[q]
    BY <1>1
  <2> HIDE DEF p, q
  <2> QED
    BY <2>2, <2>3 DEF InTurn
<1>4. Ahead(r, t)
  BY <1>1, <1>2 DEF Ahead
<1> QED
  BY <1>3, <1>4 DEF r

\* The first block of the list that is for this mode has no earlier one of
\* the same modes waiting.
LEMMA BeginBlockOrder ==
  ASSUME IInv, BlocksInv, OrderInv, NEW place, BeginBlock(place)
  PROVE  OrderInv'
<1>1. /\ depth \in 0..MaxDepth /\ MaxDepth \in Nat /\ Top \in Frame
      /\ frame \in [0..MaxDepth -> Frame] /\ asked \in Seq(Blocks)
  BY TopFacts DEF IInv, TypeOK
<1>2. PICK i \in DOMAIN Top.list :
        /\ Runnable(Top, i)
        /\ \A j \in 1..(i - 1) : ~Runnable(Top, j)
        /\ ran' = ran \cup {Top.list[i]}
        /\ SetTop([Top EXCEPT !.out = TRUE, !.list = RemoveAt(Top.list, i)])
  BY DEF BeginBlock
<1> DEFINE list == Top.list
<1> DEFINE rest == RemoveAt(list, i)
<1> DEFINE x == list[i]
<1>3. /\ list \in Seq(Blocks) /\ DOMAIN list = 1..Len(list)
      /\ Len(list) \in Nat /\ i \in DOMAIN list
      /\ InTurn(list) /\ Ahead(list, blocks)
  BY <1>1, <1>2 DEF Frame, OrderInv
<1>4. InTurn(rest) /\ Ahead(rest, blocks)
  BY <1>3, RemoveAtInTurn
<1> HIDE DEF rest
<1>5. UNCHANGED <<depth, blocks, asked>> /\ Top'.list = rest
  <2>1. [Top EXCEPT !.out = TRUE, !.list = rest].list = rest
    BY <1>1 DEF Frame
  <2>2. UNCHANGED <<depth, blocks, asked>>
    BY DEF BeginBlock
  <2>3. Top' = [Top EXCEPT !.out = TRUE, !.list = rest]
    BY <1>1, <1>2, <2>2 DEF SetTop, Top, rest
  <2> QED
    BY <2>1, <2>2, <2>3
<1>6. ASSUME NEW a \in DOMAIN asked, NEW b \in DOMAIN asked, a < b,
             BlockModes[asked[a]] = BlockModes[asked[b]],
             asked[b] = x, asked[a] \notin ran
      PROVE  FALSE
  <2> DEFINE y == asked[a]
  <2>1. y \in Blocks /\ Waits(y)
    BY <1>1, <1>6 DEF BlocksInv, Has
  <2>2. ~Earlier(x, y) /\ y # x
    BY <1>1, <1>6 DEF Earlier, OrderInv, Once
  <2>3. ASSUME NEW j \in DOMAIN list, list[j] = y PROVE FALSE
    <3>1. j >= i
      BY <1>2, <1>3, <1>6, <2>3 DEF Runnable
    <3>2. j # i
      BY <2>2, <2>3
    <3> QED
      BY <1>3, <2>2, <2>3, <3>1, <3>2 DEF InTurn
  <2>4. ~Has(list, y) /\ ~Has(blocks, y)
    BY <1>3, <2>2, <2>3 DEF Has, Ahead
  <2>5. \A d \in 0..depth : d # depth => frame[d].list = <<>>
    BY <1>1 DEF OrderInv, IInv, Stack, BlocksInv, BlockPlaces
  <2>6. \A d \in 0..depth : ~Has(frame[d].list, y)
    BY <2>4, <2>5, EmptyList DEF Top
  <2> QED
    BY <2>1, <2>4, <2>6 DEF Waits
<1>7. ran' = ran \cup {x}
  BY <1>2
<1>8. BlocksInOrder'
  <2> HIDE DEF x
  <2> QED
    BY <1>5, <1>6, <1>7 DEF BlocksInOrder, OrderInv
<1> QED
  BY <1>4, <1>5, <1>8 DEF OrderInv, Once, InTurn, Ahead, Earlier

LEMMA ConcatInTurn ==
  ASSUME NEW S, NEW s \in Seq(S), NEW t \in Seq(S),
         InTurn(s), InTurn(t), Ahead(s, t)
  PROVE  InTurn(s \o t)
<1> DEFINE u == s \o t
<1> DEFINE m == Len(s)
<1> DEFINE n == Len(t)
<1>1. /\ m \in Nat /\ n \in Nat
      /\ DOMAIN s = 1..m /\ DOMAIN t = 1..n /\ DOMAIN u = 1..(m + n)
      /\ \A i \in 1..(m + n) : u[i] = IF i <= m THEN s[i] ELSE t[i - m]
  BY ConcatProperties
<1> HIDE DEF u, m, n
<1>2. SUFFICES ASSUME NEW i \in DOMAIN u, NEW j \in DOMAIN u, i < j
               PROVE  Earlier(u[i], u[j])
  BY DEF InTurn, u
<1>3. CASE j <= m
  BY <1>1, <1>2, <1>3 DEF InTurn
<1>4. CASE i <= m /\ m < j
  <2>1. j - m \in DOMAIN t /\ u[j] = t[j - m] /\ u[i] = s[i] /\ i \in DOMAIN s
    BY <1>1, <1>2, <1>4
  <2> QED
    BY <2>1 DEF Ahead
<1>5. CASE m < i
  <2>1. /\ i - m \in DOMAIN t /\ j - m \in DOMAIN t /\ i - m < j - m
        /\ u[i] = t[i - m] /\ u[j] = t[j - m]
    BY <1>1, <1>2, <1>5
  <2> QED
    BY <2>1 DEF InTurn
<1> QED
  BY <1>1, <1>2, <1>3, <1>4, <1>5

LEMMA LeaveBlocksOrder ==
  ASSUME IInv, OrderInv, NEW place, NEW next, LeaveBlocks(place, next)
  PROVE  OrderInv'
<1>1. /\ depth \in 0..MaxDepth /\ Top \in Frame
      /\ frame \in [0..MaxDepth -> Frame]
      /\ blocks \in Seq(Blocks) /\ Top.list \in Seq(Blocks)
  BY TopFacts DEF IInv, TypeOK, Frame
<1> DEFINE g == [Top EXCEPT !.pc = next, !.list = <<>>]
<1>2. /\ UNCHANGED <<depth, asked, ran>> /\ blocks' = Top.list \o blocks
      /\ g.list = <<>> /\ SetTop(g)
  BY <1>1 DEF LeaveBlocks, Splice, Frame
<1> HIDE DEF g
<1>3. Top'.list = <<>>
  BY <1>1, <1>2 DEF SetTop, Top
<1>4. InTurn(blocks')
  BY <1>1, <1>2, ConcatInTurn DEF OrderInv
<1> QED
  BY <1>2, <1>3, <1>4, EmptyInTurn
  DEF OrderInv, Once, InTurn, Ahead, Earlier, BlocksInOrder

\* While runs do not nest, a frame begins and ends with an empty list.
LEMMA RunsOrder ==
  ASSUME IInv, BlocksInv, OrderInv, depth' <= 1,
         \/ \E m \in Modes, call \in Calls : RunSpecific(m, call)
         \/ RunReturns
         \/ \E d \in 1..MaxDepth : TimeoutFires(d)
  PROVE  OrderInv'
<1>1. /\ depth \in 0..MaxDepth /\ MaxDepth \in Nat /\ depth <= 1
      /\ frame \in [0..MaxDepth -> Frame] /\ frame[0].list = <<>>
  BY TopFacts DEF IInv, TypeOK, OrderInv, Stack, BlocksInv, BlockPlaces
<1>2. CASE \E m \in Modes, call \in Calls : RunSpecific(m, call)
  <2>1. PICK m \in Modes, call \in Calls : RunSpecific(m, call)
    BY <1>2
  <2> DEFINE g == NewFrame(m, call[1], call[2])
  <2>2. g.list = <<>>
    BY DEF NewFrame
  <2>3. /\ depth' = depth + 1 /\ depth + 1 \in 0..MaxDepth
        /\ frame' = [frame EXCEPT ![depth + 1] = g]
        /\ UNCHANGED <<blocks, asked, ran>>
    BY <1>1, <2>1 DEF RunSpecific
  <2> HIDE DEF g
  <2>4. Top'.list = <<>> /\ Top.list = <<>>
    BY <1>1, <2>2, <2>3 DEF Top
  <2> QED
    BY <2>3, <2>4, QuietOrder
<1>3. CASE RunReturns
  <2> DEFINE n == frame[depth - 1].nested \/ frame[depth - 1].pc \in Lulling
  <2> DEFINE g == [frame[depth - 1] EXCEPT !.nested = n]
  <2>1. Top.pc = "exit" /\ depth = 1
    BY <1>1, <1>3, TopFacts DEF RunReturns, Returns
  <2>2. depth' = 0 /\ UNCHANGED <<blocks, asked, ran>>
    BY <1>3, <2>1 DEF RunReturns
  <2>3. frame' = [frame EXCEPT ![1] = NoRun, ![0] = g]
    BY <1>1, <1>3, <2>1 DEF RunReturns
  <2> HIDE DEF n
  <2>4. g.list = <<>>
    BY <1>1, <2>1 DEF Frame
  <2> HIDE DEF g
  <2>5. Top'.list = <<>> /\ Top.list = <<>>
    BY <1>1, <2>1, <2>2, <2>3, <2>4 DEF Top, BlocksInv, BlockPlaces
  <2> QED
    BY <2>2, <2>5, QuietOrder
<1>4. CASE \E d \in 1..MaxDepth : TimeoutFires(d)
  <2>1. PICK e \in 1..MaxDepth : TimeoutFires(e)
    BY <1>4
  <2> DEFINE g == [frame[e] EXCEPT !.expired = TRUE]
  <2>2. g.list = frame[e].list
    BY <1>1 DEF Frame
  <2>3. frame' = [frame EXCEPT ![e] = g] /\ UNCHANGED <<depth, blocks, asked, ran>>
    BY <2>1 DEF TimeoutFires
  <2> HIDE DEF g
  <2>4. Top'.list = Top.list
    BY <1>1, <2>2, <2>3 DEF Top
  <2> QED
    BY <1>1, <2>3, <2>4, QuietOrder
<1> QED
  BY <1>2, <1>3, <1>4

LEMMA OrderStep ==
  ASSUME IInv, BlocksInv, OrderInv, [FlatNext]_vars PROVE OrderInv'
<1>1. [Next]_vars /\ depth' <= 1
  BY DEF FlatNext, vars, OrderInv
<1>2. CASE \E g : QuietTo(g)
  <2>1. PICK g : QuietTo(g)
    BY <1>2
  <2>2. Top' = g
    BY <2>1, TopFacts DEF QuietTo, SetTop, Top, IInv, TypeOK
  <2> QED
    BY <1>1, <2>1, <2>2, QuietOrder DEF QuietTo
<1>3. CASE Detaches
  BY <1>3, EnterBlocksOrder DEF Detaches
<1>4. CASE UNCHANGED <<depth, frame, blocks, asked, ran>>
  BY <1>1, <1>4, QuietOrder DEF Top
<1> QED
  BY <1>1, <1>2, <1>3, <1>4, StepKinds, BeginBlockOrder, LeaveBlocksOrder,
     PerformBlockOrder, RunsOrder

LEMMA OrderInit == Init => OrderInv
<1> SUFFICES ASSUME Init PROVE OrderInv
  OBVIOUS
<1>1. NoRun.list = <<>>
  BY DEF NoRun, NewFrame
<1>2. depth = 0 /\ blocks = <<>> /\ asked = <<>> /\ Top.list = <<>>
  BY <1>1, RunLoopAssumption DEF Init, Top
<1> QED
  BY <1>2, EmptyList, EmptyInTurn DEF OrderInv, BlocksInOrder

\* CFRunLoopPerformBlock and the splice of __CFRunLoopDoBlocks: as long as no
\* callout runs the loop again, blocks for the same modes run in the order in
\* which they were handed over, from however many threads.
THEOREM FlatRunsKeepOrder == NestingSpec => []FlatBlocksInOrder
<1> DEFINE FlatOrder == ~nests => OrderInv
<1>1. NestingInit => IInv /\ BlocksInv /\ FlatOrder
  BY InitInv, BlocksInit, OrderInit DEF NestingInit
<1>2. [NestingNext]_<<vars, nests>> =>
        [Next]_vars /\ nests' = nests /\ (~nests => [FlatNext]_vars)
  BY DEF NestingNext, FlatNext
<1>3. IInv /\ [Next]_vars => IInv'
  BY NextInv, StutterInv
<1>4. IInv /\ BlocksInv /\ [Next]_vars => BlocksInv'
  BY BlocksStep
<1>5. IInv /\ BlocksInv /\ FlatOrder /\ [NestingNext]_<<vars, nests>> => FlatOrder'
  BY <1>2, OrderStep
<1>6. FlatOrder => FlatBlocksInOrder
  BY DEF OrderInv, FlatBlocksInOrder
<1> HIDE DEF FlatOrder
<1> QED
  BY <1>1, <1>2, <1>3, <1>4, <1>5, <1>6, PTL DEF NestingSpec
=============================================================================
