----------------------- MODULE RunLoopRegistryProofs -----------------------
(* For any number of threads and of destructor passes above two: callers    *)
(* agree on the loop of a thread, the loop of a thread that has asked for   *)
(* it is taken out before the thread is dead, no loop is freed under the    *)
(* lock that freeing it takes, and every reference to a loop is counted.    *)
EXTENDS RunLoopRegistry, Integers, FiniteSetTheorems, TLAPS

\* Whoever is inside the lock and about to release a loop leaves it first,
Inside == \A t \in Pthreads : loopsLock = t => AtStep(t, "unlock")

\* and no answer is waiting behind it.
Unlocking ==
  \A t \in Pthreads : AtStep(t, "unlock") => call[t].then \in {"idle", "forget"}

\* Before the first loop is entered nothing has happened.
NotMade ==
  ~made => \A t \in Pthreads : /\ runLoops[t] = NoLoop
                               /\ tsd[t] = NoTable
                               /\ call[t].at \in {"idle", "lookup", "make"}

\* A call that is inside _CFRunLoopGet0; that has its answer; that has taken
\* the thread's own loop away.
Asks(c) ==
  \/ c.at \in {"lookup", "make", "create", "again", "store"}
  \/ c.at \in {"drop", "free"} /\ c.then \in {"lookup", "store"}
Answered(c) == c.at = "store" \/ (c.at \in {"drop", "free"} /\ c.then = "store")
Forgets(c) ==
  c.at = "forget" \/ (c.at \in {"unlock", "drop", "free"} /\ c.then = "forget")

\* A thread runs while it takes its loop away, and ends when it is finalized.
Stages ==
  \A t \in Pthreads : /\ Forgets(call[t]) => life[t].is = "running"
                      /\ AtStep(t, "finalize") => life[t].is = "exiting"

\* Nobody asks for the loop of a thread that ends, unless that is noted.
Known(t, c) ==
  life[c.about].is = "running" \/ (c.about = t /\ t \in missed)
Asking ==
  /\ life[Main].is = "running"
  /\ \A t \in Pthreads : Asks(call[t]) => Known(t, call[t])

\* A new loop is in its maker's hands.
Holds == \A t \in Pthreads : AtStep(t, "again") => call[t].mine \in Loops

\* The answer of a call is the loop that is entered, and stays so.
Right(c) ==
  c.loop # NoLoop /\ (c.about \in missed \/ c.loop = runLoops[c.about])
Answers == \A t \in Pthreads : Answered(call[t]) => Right(call[t])

\* A thread remembers the loop that is entered for it.
Remembers ==
  \A t \in Pthreads \ missed :
    life[t].is # "dead" /\ life[t].entry = "kept" /\ ~Forgets(call[t]) =>
      tsd[t].loop \in {NoLoop, runLoops[t]}

\* A thread that remembers its loop has one pass less to wait for than there
\* are passes,
Countdown ==
  \A t \in Pthreads : life[t].is = "running" =>
    /\ tsd[t].is # "gone" /\ tsd[t].count = 0 /\ life[t].entry = "kept"
    /\ IF tsd[t].loop = NoLoop THEN tsd[t].cntr = 0
       ELSE tsd[t].is = "there" /\ tsd[t].cntr = Iterations - 1

\* and when it ends it waits for as many as there are to come but one, until
\* the finalizer is reached in the last pass that still finds the table.
Waits(t) ==
  LET l == life[t]
      table == tsd[t]
  IN
  /\ table.is = "there" /\ table.loop # NoLoop /\ l.pass < Iterations
  /\ \/ /\ l.swept = "due" /\ table.count = l.pass - 1
        /\ table.cntr = Iterations - l.pass
     \/ /\ l.swept \in {"running", "done"} /\ table.count = l.pass
        /\ table.cntr = Iterations - 1 - l.pass /\ table.cntr > 0
     \/ /\ l.swept = "running" /\ AtStep(t, "finalize")
Waiting ==
  \A t \in Pthreads \ missed : life[t].is # "running" /\ runLoops[t] # NoLoop =>
    /\ life[t].is = "exiting" /\ life[t].entry = "kept"
    /\ Waits(t)

RegistryInv ==
  /\ RegistryTypeOK /\ Inside /\ Unlocking /\ NotMade /\ Stages /\ Asking
  /\ Holds /\ Answers /\ Remembers /\ Countdown /\ Waiting /\ AnswersAgree

LEMMA Records ==
  /\ NoCall \in Call /\ NoTable \in TSDTable /\ GoneTable \in TSDTable
  /\ Running \in ThreadLife
BY RegistryAssumption
   DEF NoCall, Call, Steps, After, NoTable, GoneTable, TSDTable, Running, ThreadLife

LEMMA Fields ==
  ASSUME RegistryTypeOK
  PROVE  \A t \in Pthreads :
    /\ runLoops[t] \in Loops \cup {NoLoop}
    /\ call[t] \in Call /\ call[t].about \in Pthreads
    /\ call[t].at \in Steps /\ call[t].then \in After
    /\ call[t].loop \in Loops \cup {NoLoop}
    /\ tsd[t] \in TSDTable /\ tsd[t].loop \in Loops \cup {NoLoop}
    /\ tsd[t].cntr \in Nat /\ tsd[t].count \in Nat
    /\ tsd[t].is \in {"none", "there", "gone"}
    /\ life[t] \in ThreadLife /\ life[t].is \in {"running", "exiting", "dead"}
    /\ life[t].pass \in Nat /\ life[t].entry \in {"kept", "taken"}
    /\ life[t].swept \in {"due", "running", "done", "free"}
    /\ told[t] \subseteq Loops
BY DEF RegistryTypeOK, Call, TSDTable, ThreadLife

LEMMA NoCallIdle ==
  /\ NoCall.at = "idle" /\ NoCall.then = "idle"
  /\ NoTable.loop = NoLoop /\ NoTable.cntr = 0 /\ NoTable.count = 0
  /\ NoTable.is = "none" /\ GoneTable.is = "gone" /\ GoneTable.loop = NoLoop
  /\ Running.is = "running" /\ Running.entry = "kept"
BY DEF NoCall, NoTable, GoneTable, Running

LEMMA RegistryInitInv == RegistryInit => RegistryInv
<1> SUFFICES ASSUME RegistryInit PROVE RegistryInv
  OBVIOUS
<1> USE RegistryAssumption DEF RegistryInit
<1>1. RegistryTypeOK
  BY Records DEF RegistryTypeOK
<1> USE DEF NoCall, Running, NoTable
<1>2. Inside /\ Unlocking /\ NotMade /\ Stages /\ Asking /\ Holds
  BY
     DEF Stages, Forgets, Holds, Inside, Unlocking, NotMade, Asking, Asks,
         AtStep
<1>3. Answers /\ Remembers /\ Countdown /\ Waiting
  BY DEF Answers, Answered, Remembers, Countdown, Waiting
<1>4. AnswersAgree
  BY DEF AnswersAgree
<1> QED
  BY <1>1, <1>2, <1>3, <1>4 DEF RegistryInv

-----------------------------------------------------------------------------
(* Steps that change nothing but a call, and perhaps the lock.              *)

Moves(t, c) ==
  /\ c \in Call
  /\ call' = [call EXCEPT ![t] = c]
  /\ UNCHANGED <<made, runLoops, tsd, life, told>>

LEMMA MovesKeep ==
  ASSUME RegistryInv, NEW t \in Pthreads, NEW c, Moves(t, c),
         missed \subseteq missed', missed' \subseteq missed \cup {c.about},
         made \/ c.at \in {"idle", "lookup", "make"},
         Asks(c) => \/ life[c.about].is = "running"
                    \/ c.about = t /\ t \in missed',
         Answered(c) => Right(c),
         Forgets(call[t]) <=> Forgets(c),
         c.at \notin {"unlock", "finalize"},
         c.at = "again" => c.mine \in Loops,
         call[t].at # "finalize",
         \/ loopsLock' = NoLoop
         \/ loopsLock' = loopsLock /\ call[t].at # "unlock"
  PROVE  RegistryInv'
<1> USE RegistryAssumption DEF RegistryInv, RegistryTypeOK, Moves
<1>1. RegistryTypeOK'
  OBVIOUS
<1>2. \A u \in Pthreads : call'[u] = IF u = t THEN c ELSE call[u]
  OBVIOUS
<1>3. Inside' /\ Unlocking'
  BY <1>2 DEF Inside, Unlocking, AtStep
<1>4. NotMade'
  BY <1>2 DEF NotMade
<1>5. Asking'
  BY <1>2 DEF Asking, Known
<1>11. Stages'
  BY <1>2 DEF Stages, AtStep
<1>6. Answers' /\ Holds'
  BY <1>2 DEF Answers, Right, Holds, AtStep
<1>7. Remembers'
  BY <1>2 DEF Remembers
<1>8. Countdown'
  BY DEF Countdown
<1>9. Waiting'
  BY <1>2 DEF Waiting, Waits, AtStep
<1>10. AnswersAgree'
  BY DEF AnswersAgree
<1> QED
  BY <1>1, <1>3, <1>4, <1>5, <1>6, <1>7, <1>8, <1>9, <1>10, <1>11

LEMMA Get0Keeps ==
  ASSUME RegistryInv, NEW t \in Pthreads, NEW u \in Pthreads, Get0(t, u)
  PROVE  RegistryInv'
<1> DEFINE c == [NoCall EXCEPT !.at = "lookup", !.about = u]
<1>1. Moves(t, c) /\ c.at = "lookup" /\ c.about = u
  BY Records DEF Get0, SetCall, Moves, Call, Steps
<1>2. call[t].at = "idle" /\ UNCHANGED loopsLock
  BY DEF Get0, CanCall, AtStep
<1>3. missed' = IF life[u].is = "exiting" THEN missed \cup {u} ELSE missed
  BY DEF Get0
<1>4. life[u].is = "running" \/ (u = t /\ t \in missed')
  BY <1>3 DEF Get0, CanCall, RegistryInv, RegistryTypeOK, ThreadLife
<1> HIDE DEF c
<1> QED
  BY <1>1, <1>2, <1>3, <1>4, MovesKeep DEF Asks, Answered, Forgets

LEMMA LookupKeeps ==
  ASSUME RegistryInv, NEW t \in Pthreads, Lookup(t) PROVE RegistryInv'
<1> DEFINE found == runLoops[call[t].about]
           place == CASE ~made -> "make"
                      [] made /\ found = NoLoop -> "create"
                      [] OTHER -> "store"
           c == [call[t] EXCEPT !.at = place, !.loop = found]
<1>1. /\ place \in {"make", "create", "store"}
      /\ made \/ place = "make"
      /\ place = "store" => found # NoLoop
  BY DEF RegistryInv, NotMade
<1>2. call[t] \in Call /\ found \in Loops \cup {NoLoop}
  BY DEF RegistryInv, RegistryTypeOK, Call
<1> HIDE DEF place, found
<1>3. c \in Call /\ c.at = place /\ c.about = call[t].about /\ c.loop = found
  BY <1>1, <1>2 DEF Call, Steps
<1>4. Moves(t, c) /\ call[t].at = "lookup" /\ UNCHANGED <<missed, loopsLock>>
  BY <1>3 DEF Lookup, SetCall, Moves, AtStep, place, found
<1>5. Known(t, c)
  BY <1>3, <1>4 DEF RegistryInv, Asking, Asks, Known
<1>6. place = "store" => Right(c)
  BY <1>1, <1>3 DEF Right, found
<1> HIDE DEF c
<1> QED
  BY <1>1, <1>3, <1>4, <1>5, <1>6, MovesKeep
     DEF Asks, Answered, Forgets, Known

LEMMA CreateLoopKeeps ==
  ASSUME RegistryInv, NEW t \in Pthreads, CreateLoop(t) PROVE RegistryInv'
<1> DEFINE c == [call[t] EXCEPT !.at = "again", !.mine = Fresh]
<1>1. Fresh \in Loops /\ call[t] \in Call
  BY DEF CreateLoop, Fresh, RegistryInv, RegistryTypeOK
<1>2. c \in Call /\ c.at = "again" /\ c.about = call[t].about
      /\ c.mine = Fresh
  BY <1>1 DEF Call, Steps
<1>3. Moves(t, c) /\ call[t].at = "create" /\ UNCHANGED <<missed, loopsLock>>
  BY <1>2 DEF CreateLoop, SetCall, Moves, AtStep
<1>4. Known(t, c) /\ made
  BY <1>2, <1>3 DEF RegistryInv, Asking, Asks, Known, NotMade
<1> HIDE DEF c
<1> QED
  BY <1>1, <1>2, <1>3, <1>4, MovesKeep DEF Asks, Answered, Forgets, Known

\* What follows a release is what was to follow it.
LEMMA AfterRelease ==
  ASSUME RegistryInv, NEW t \in Pthreads, NEW c,
         call[t].at \in {"drop", "free"}, Moves(t, c),
         c.about = call[t].about, c.loop = call[t].loop, c.then = call[t].then,
         c.at \in {"free", c.then}, UNCHANGED <<missed, loopsLock>>
  PROVE  RegistryInv'
<1>1. made \/ c.at \in {"idle", "lookup", "make"}
  BY DEF RegistryInv, NotMade
<1>2. c.then \in {"idle", "lookup", "store", "forget"}
  BY DEF Moves, Call, After
<1>3. Asks(c) => Known(t, c)
  BY <1>2 DEF RegistryInv, Asking, Asks, Known
<1>4. Answered(c) => Right(c)
  BY <1>2 DEF RegistryInv, Answers, Answered, Right
<1>5. Forgets(call[t]) <=> Forgets(c)
  BY DEF Forgets
<1> QED
  BY <1>1, <1>2, <1>3, <1>4, <1>5, MovesKeep DEF Known

LEMMA DropKeeps ==
  ASSUME RegistryInv, NEW t \in Pthreads, Drop(t) PROVE RegistryInv'
<1> DEFINE last == rc[call[t].mine] = 1
           c == [call[t] EXCEPT !.at = IF last THEN "free" ELSE call[t].then,
                                !.mine = IF last THEN call[t].mine ELSE NoLoop]
<1>1. call[t] \in Call
  BY DEF RegistryInv, RegistryTypeOK
<1> HIDE DEF last
<1>2. /\ c \in Call /\ c.at \in {"free", c.then} /\ c.then = call[t].then
      /\ c.about = call[t].about /\ c.loop = call[t].loop
  BY <1>1 DEF Call, Steps, After
<1>3. Moves(t, c) /\ call[t].at = "drop" /\ UNCHANGED <<missed, loopsLock>>
  BY <1>2 DEF Drop, SetCall, Moves, AtStep, last
<1> HIDE DEF c
<1> QED
  BY <1>2, <1>3, AfterRelease

LEMMA DeallocateLoopKeeps ==
  ASSUME RegistryInv, NEW t \in Pthreads, DeallocateLoop(t) PROVE RegistryInv'
<1> DEFINE c == [call[t] EXCEPT !.at = call[t].then, !.mine = NoLoop]
<1>1. call[t] \in Call
  BY DEF RegistryInv, RegistryTypeOK
<1>2. /\ c \in Call /\ c.at = c.then /\ c.then = call[t].then
      /\ c.about = call[t].about /\ c.loop = call[t].loop
  BY <1>1 DEF Call, Steps, After
<1>3. Moves(t, c) /\ call[t].at = "free" /\ UNCHANGED <<missed, loopsLock>>
  BY <1>2 DEF DeallocateLoop, SetCall, Moves, AtStep
<1> HIDE DEF c
<1> QED
  BY <1>2, <1>3, AfterRelease

LEMMA UnlockKeeps ==
  ASSUME RegistryInv, NEW t \in Pthreads, Unlock(t) PROVE RegistryInv'
<1> DEFINE c == [call[t] EXCEPT !.at = "drop"]
<1>1. call[t] \in Call
  BY DEF RegistryInv, RegistryTypeOK
<1>2. /\ c \in Call /\ c.at = "drop" /\ c.then = call[t].then
      /\ c.about = call[t].about /\ c.loop = call[t].loop
  BY <1>1 DEF Call, Steps
<1>3. /\ Moves(t, c) /\ call[t].at = "unlock" /\ UNCHANGED missed
      /\ loopsLock' = NoLoop
  BY <1>2 DEF Unlock, SetCall, Moves, AtStep
<1>4. made /\ c.then \notin {"lookup", "store"}
  BY <1>2, <1>3 DEF RegistryInv, NotMade, Unlocking, AtStep
<1> HIDE DEF c
<1> QED
  BY <1>2, <1>3, <1>4, MovesKeep DEF Asks, Answered, Forgets

-----------------------------------------------------------------------------
(* Steps that change more.                                                  *)

LEMMA RememberedKeeps ==
  ASSUME RegistryInv, NEW t \in Pthreads, Remembered(t)
  PROVE  RegistryInv'
<1> USE RegistryAssumption DEF RegistryInv
<1>1. /\ UNCHANGED <<made, runLoops, loopsLock, tsd, call, life>>
      /\ call[t].at = "idle" /\ life[t].is # "dead" /\ tsd[t].loop # NoLoop
      /\ missed \subseteq missed' /\ (life[t].entry = "taken" => t \in missed')
  BY DEF Remembered, CanCall, AtStep
<1>2. told' = [told EXCEPT ![t] = told[t] \cup {tsd[t].loop}]
  BY Fields DEF Remembered, Tell
<1>3. RegistryTypeOK'
  BY <1>1, <1>2, Fields DEF RegistryTypeOK
<1>4. \A u \in Pthreads :
      /\ told'[u] = IF u = t THEN told[t] \cup {tsd[t].loop} ELSE told[u]
  BY <1>2 DEF RegistryTypeOK
<1>5. Inside'
  BY <1>1, <1>4 DEF Inside, AtStep
<1>6. Unlocking'
  BY <1>1, <1>4 DEF Unlocking, AtStep
<1>7. NotMade'
  BY <1>1, <1>4 DEF NotMade
<1>8. Stages'
  BY <1>1, <1>4 DEF Stages, Forgets, AtStep
<1>9. Asking'
  BY <1>1, <1>4 DEF Asking, Asks, Known
<1>10. Holds'
  BY <1>1, <1>4 DEF Holds, AtStep
<1>11. Answers'
  BY <1>1, <1>4 DEF Answers, Answered, Right
<1>12. Remembers'
  BY <1>1, <1>4 DEF Remembers, Forgets
<1>13. Countdown'
  BY <1>1, <1>4 DEF Countdown
<1>14. Waiting'
  BY <1>1, <1>4 DEF Waiting, Waits, AtStep
<1>15. AnswersAgree'
  BY <1>1, <1>4, Fields DEF AnswersAgree, Remembers, Forgets
<1> QED
  BY <1>3, <1>5, <1>6, <1>7, <1>8, <1>9, <1>10, <1>11, <1>12, <1>13, <1>14,
     <1>15

LEMMA MakeKeeps ==
  ASSUME RegistryInv, NEW t \in Pthreads, Make(t)
  PROVE  RegistryInv'
<1> USE RegistryAssumption DEF RegistryInv
<1> DEFINE c == IF made THEN [call[t] EXCEPT !.at = "free", !.then = "lookup",
                                           !.mine = Fresh]
                ELSE [call[t] EXCEPT !.at = "lookup"]
<1>1. Fresh \in Loops
  BY Fields DEF Make, Fresh
<1>2. c \in Call /\ c.about = call[t].about
  BY <1>1, Fields, Records, NoCallIdle DEF Make, Fresh, Call, Steps, After
<1>3. c.at = "lookup" \/ (c.at = "free" /\ c.then = "lookup" /\ made)
  BY Fields DEF After
<1>4. /\ UNCHANGED <<loopsLock, tsd, life, told, missed>>
      /\ made' /\ call[t].at = "make"
  BY <1>3 DEF Make, AtStep
<1>5. call' = [call EXCEPT ![t] = c]
  BY Fields DEF Make, SetCall
<1>6. runLoops' = [runLoops EXCEPT ![Main] = IF made THEN runLoops[Main]
                                             ELSE Fresh]
  BY Fields DEF RegistryTypeOK, Make
<1> HIDE DEF c
<1>7. RegistryTypeOK'
  BY <1>1, <1>2, <1>4, <1>5, <1>6 DEF RegistryTypeOK
<1>8. \A u \in Pthreads :
      /\ call'[u] = IF u = t THEN c ELSE call[u]
      /\ runLoops'[u] = IF u = Main /\ ~made THEN Fresh ELSE runLoops[u]
  BY <1>5, <1>6 DEF RegistryTypeOK
<1>9. Inside'
  BY <1>4, <1>8 DEF Inside, AtStep
<1>10. Unlocking'
  BY <1>3, <1>8 DEF Unlocking, AtStep
<1>11. NotMade'
  BY <1>4, <1>8 DEF NotMade
<1>12. Stages'
  BY <1>3, <1>4, <1>8 DEF Stages, Forgets, AtStep
<1>13. Asking'
  BY <1>2, <1>4, <1>8 DEF Asking, Asks, Known
<1>14. Holds'
  BY <1>3, <1>8 DEF Holds, AtStep
<1>15. Answers'
  BY <1>3, <1>4, <1>8, Fields DEF Answers, Answered, Right, NotMade
<1>16. Remembers'
  BY <1>4, <1>8 DEF Remembers, Forgets, NotMade
<1>17. Countdown'
  BY <1>4, <1>8 DEF Countdown
<1>18. Waiting'
  BY <1>4, <1>8 DEF Waiting, Waits, AtStep, Asking
<1>19. AnswersAgree'
  BY <1>4, <1>8, Fields DEF AnswersAgree, NotMade
<1> QED
  BY <1>7, <1>9, <1>10, <1>11, <1>12, <1>13, <1>14, <1>15, <1>16, <1>17,
     <1>18, <1>19

LEMMA AgainKeeps ==
  ASSUME RegistryInv, NEW t \in Pthreads, Again(t)
  PROVE  RegistryInv'
<1> USE RegistryAssumption DEF RegistryInv
<1> DEFINE a == call[t].about
           loop == IF runLoops[a] = NoLoop THEN call[t].mine ELSE runLoops[a]
           c == [call[t] EXCEPT !.at = "drop", !.then = "store", !.loop = loop]
<1>1. a \in Pthreads /\ loop \in Loops
  BY Fields DEF Again, Holds
<1>2. c \in Call /\ c.about = a /\ c.at = "drop" /\ c.then = "store"
  BY <1>1, Fields, Records, NoCallIdle
     DEF Again, AtStep, Holds, Call, Steps, After
<1>3. c.loop = loop
  BY Fields DEF After
<1>4. /\ UNCHANGED <<made, loopsLock, tsd, life, told, missed>>
      /\ call[t].at = "again" /\ a = call[t].about
      /\ loop = runLoops[a] \/ runLoops[a] = NoLoop
  BY <1>3 DEF Again, SetCall, AtStep
<1>5. call' = [call EXCEPT ![t] = c]
  BY Fields DEF Again, SetCall
<1>6. runLoops' = [runLoops EXCEPT ![a] = loop]
  BY Fields DEF RegistryTypeOK, Again
<1> HIDE DEF a, loop, c
<1>7. RegistryTypeOK'
  BY <1>1, <1>2, <1>4, <1>5, <1>6 DEF RegistryTypeOK
<1>8. \A u \in Pthreads :
      /\ call'[u] = IF u = t THEN c ELSE call[u]
      /\ runLoops'[u] = IF u = a THEN loop ELSE runLoops[u]
  BY <1>5, <1>6 DEF RegistryTypeOK
<1>9. Inside'
  BY <1>4, <1>8 DEF Inside, AtStep
<1>10. Unlocking'
  BY <1>2, <1>8 DEF Unlocking, AtStep
<1>11. NotMade'
  BY <1>4, <1>8 DEF NotMade
<1>12. Stages'
  BY <1>2, <1>4, <1>8 DEF Stages, Forgets, AtStep
<1>13. Asking'
  BY <1>2, <1>4, <1>8 DEF Asking, Asks, Known
<1>14. Holds'
  BY <1>2, <1>8 DEF Holds, AtStep
<1>15. Answers'
  BY <1>1, <1>2, <1>3, <1>4, <1>8, Fields DEF Answers, Answered, Right
<1>16. Remembers'
  BY <1>4, <1>8 DEF Remembers, Forgets
<1>17. Countdown'
  BY <1>4, <1>8 DEF Countdown
<1>18. Waiting'
  BY <1>4, <1>8 DEF Waiting, Waits, AtStep, Asking, Asks, Known
<1>19. AnswersAgree'
  BY <1>4, <1>8, Fields DEF AnswersAgree
<1> QED
  BY <1>7, <1>9, <1>10, <1>11, <1>12, <1>13, <1>14, <1>15, <1>16, <1>17,
     <1>18, <1>19

LEMMA StoreKeeps ==
  ASSUME RegistryInv, NEW t \in Pthreads, Store(t)
  PROVE  RegistryInv'
<1> USE RegistryAssumption DEF RegistryInv
<1> DEFINE a == call[t].about
           n == IF tsd[t].cntr = 0 THEN Iterations - 1 ELSE tsd[t].cntr
           kept == [tsd[t] EXCEPT !.is = "there", !.loop = call[t].loop,
                                  !.cntr = n]
           x == IF a = t /\ tsd[t].is # "gone" THEN kept ELSE tsd[t]
<1>1. a \in Pthreads /\ call[t].at = "store"
  BY Fields DEF Store, AtStep
<1>2. call[t].loop \in Loops /\ (a \in missed \/ call[t].loop = runLoops[a])
  BY <1>1, Fields DEF Answers, Answered, Right
<1>3. life[a].is = "running" \/ (a = t /\ t \in missed)
  BY <1>1, <1>2 DEF Asking, Asks, Known
<1>4. n \in Nat /\ n = IF tsd[t].cntr = 0 THEN Iterations - 1 ELSE tsd[t].cntr
  BY Fields DEF AtStep
<1>5. kept \in TSDTable
  BY <1>1, <1>2, <1>3, <1>4, Fields, Records, NoCallIdle
     DEF Store, Remember, TSDTable, AtStep
<1>6. kept.is = "there" /\ kept.loop = call[t].loop
  BY Fields DEF AtStep
<1>7. kept.cntr = n /\ kept.count = tsd[t].count
  BY Fields DEF AtStep
<1>8. x \in TSDTable
  BY <1>5, Fields DEF AtStep
<1>9. a = t /\ tsd[t].is # "gone" => x = kept
  BY Fields DEF AtStep
<1>10. a # t \/ tsd[t].is = "gone" => x = tsd[t]
  BY Fields DEF AtStep
<1>11. /\ UNCHANGED <<made, runLoops, loopsLock, life, missed>>
      /\ a = call[t].about
  BY <1>10 DEF Store
<1>12. call' = [call EXCEPT ![t] = NoCall]
  BY Fields DEF Store, SetCall
<1>13. tsd' = [tsd EXCEPT ![t] = x]
  BY <1>1, <1>2, <1>3, <1>4, <1>5, <1>6, <1>7, <1>8, <1>9, <1>10, <1>11,
     Fields
     DEF RegistryTypeOK, Store, Tell, SetCall, Remember
<1>14. told' = [told EXCEPT ![a] = told[a] \cup {call[t].loop}]
  BY Fields DEF Store, Tell
<1> HIDE DEF a, n, kept, x
<1>15. RegistryTypeOK'
  BY <1>2, <1>8, <1>11, <1>12, <1>13, <1>14, Fields, Records
     DEF RegistryTypeOK
<1>16. \A u \in Pthreads :
      /\ call'[u] = IF u = t THEN NoCall ELSE call[u]
      /\ tsd'[u] = IF u = t THEN x ELSE tsd[u]
      /\ told'[u] = IF u = a THEN told[a] \cup {call[t].loop} ELSE told[u]
  BY <1>12, <1>13, <1>14 DEF RegistryTypeOK
<1>17. Inside'
  BY <1>1, <1>11, <1>16 DEF Inside, AtStep
<1>18. Unlocking'
  BY <1>16, NoCallIdle DEF Unlocking, AtStep
<1>19. NotMade'
  BY <1>1, <1>11 DEF NotMade
<1>20. Stages'
  BY <1>11, <1>16, NoCallIdle DEF Stages, Forgets, AtStep
<1>21. Asking'
  BY <1>11, <1>16, NoCallIdle DEF Asking, Asks, Known
<1>22. Holds'
  BY <1>16, NoCallIdle DEF Holds, AtStep
<1>23. Answers'
  BY <1>11, <1>16, NoCallIdle DEF Answers, Answered, Right
<1>24. Remembers'
  BY <1>1, <1>2, <1>3, <1>6, <1>9, <1>10, <1>11, <1>16 DEF Remembers, Forgets
<1>25. Countdown'
  BY <1>2, <1>3, <1>4, <1>6, <1>7, <1>9, <1>10, <1>11, <1>16 DEF Countdown
<1>26. Waiting'
  BY <1>1, <1>3, <1>10, <1>11, <1>16 DEF Waiting, Waits, AtStep
<1>27. AnswersAgree'
  BY <1>2, <1>11, <1>16 DEF AnswersAgree
<1> QED
  BY <1>15, <1>17, <1>18, <1>19, <1>20, <1>21, <1>22, <1>23, <1>24, <1>25,
     <1>26, <1>27

LEMMA SetCurrentKeeps ==
  ASSUME RegistryInv, NEW t \in Pthreads, NEW l \in {NoLoop, runLoops[Main]},
         SetCurrent(t, l)
  PROVE  RegistryInv'
<1> USE RegistryAssumption DEF RegistryInv
<1> DEFINE c == [NoCall EXCEPT !.at = "unlock", !.then = "forget", !.about = t,
                               !.mine = tsd[t].loop]
<1>1. c \in Call /\ c.at = "unlock" /\ c.then = "forget"
  BY Fields, Records, NoCallIdle DEF Call, Steps, After, NoCall
<1>2. /\ UNCHANGED <<made, tsd, life, missed>>
      /\ call[t].at = "idle" /\ life[t].is = "running"
      /\ \A u \in Pthreads \ {t} : call[u].at # "idle" => call[u].about # t
      /\ loopsLock' = t /\ tsd[t].loop # NoLoop
  BY <1>1 DEF SetCurrent, CanCall, NobodyAsksAbout, AtStep
<1>3. call' = [call EXCEPT ![t] = c]
  BY Fields DEF SetCurrent, SetCall
<1>4. runLoops' = [runLoops EXCEPT ![t] = l]
  BY Fields DEF SetCurrent
<1>5. told' = [told EXCEPT ![t] = {}]
  BY Fields DEF SetCurrent
<1> HIDE DEF c
<1>6. RegistryTypeOK'
  BY <1>1, <1>2, <1>3, <1>4, <1>5 DEF RegistryTypeOK
<1>7. \A u \in Pthreads :
      /\ call'[u] = IF u = t THEN c ELSE call[u]
      /\ runLoops'[u] = IF u = t THEN l ELSE runLoops[u]
      /\ told'[u] = IF u = t THEN {} ELSE told[u]
  BY <1>3, <1>4, <1>5 DEF RegistryTypeOK
<1>8. Inside'
  BY <1>1, <1>2, <1>7 DEF Inside, AtStep
<1>9. Unlocking'
  BY <1>1, <1>2, <1>7 DEF Unlocking, AtStep
<1>10. NotMade'
  BY <1>2, <1>7 DEF NotMade, NoTable
<1>11. Stages'
  BY <1>1, <1>2, <1>7 DEF Stages, Forgets, AtStep
<1>12. Asking'
  BY <1>1, <1>2, <1>7 DEF Asking, Asks, Known
<1>13. Holds'
  BY <1>1, <1>2, <1>7 DEF Holds, AtStep
<1>14. Answers'
  BY <1>1, <1>2, <1>7, Fields DEF Answers, Answered, Right
<1>15. Remembers'
  BY <1>1, <1>2, <1>7 DEF Remembers, Forgets
<1>16. Countdown'
  BY <1>2, <1>7 DEF Countdown
<1>17. Waiting'
  BY <1>2, <1>7 DEF Waiting, Waits, AtStep
<1>18. AnswersAgree'
  BY <1>2, <1>7 DEF AnswersAgree
<1> QED
  BY <1>6, <1>8, <1>9, <1>10, <1>11, <1>12, <1>13, <1>14, <1>15, <1>16, <1>17,
     <1>18

LEMMA ForgetKeeps ==
  ASSUME RegistryInv, NEW t \in Pthreads, Forget(t)
  PROVE  RegistryInv'
<1> USE RegistryAssumption DEF RegistryInv
<1>1. call[t].at = "forget"
  BY Fields DEF Forget, AtStep
<1>2. life[t].is = "running"
  BY <1>1 DEF Stages, Forgets
<1> DEFINE x == [tsd[t] EXCEPT !.loop = NoLoop, !.cntr = 0]
<1>3. x \in TSDTable /\ x.loop = NoLoop /\ x.cntr = 0
  BY <1>1, <1>2, Fields, Records, NoCallIdle DEF TSDTable
<1>4. x.count = tsd[t].count /\ x.is = tsd[t].is
  BY Fields DEF TSDTable
<1>5. /\ UNCHANGED <<made, runLoops, loopsLock, life, told, missed>>
      /\ call[t].at = "forget"
  BY <1>4 DEF Forget, SetCall, AtStep
<1>6. call' = [call EXCEPT ![t] = NoCall]
  BY Fields DEF Forget, SetCall
<1>7. tsd' = [tsd EXCEPT ![t] = x]
  BY Fields DEF Forget
<1> HIDE DEF x
<1>8. RegistryTypeOK'
  BY <1>3, <1>5, <1>6, <1>7, Records DEF RegistryTypeOK
<1>9. \A u \in Pthreads :
      /\ call'[u] = IF u = t THEN NoCall ELSE call[u]
      /\ tsd'[u] = IF u = t THEN x ELSE tsd[u]
  BY <1>6, <1>7 DEF RegistryTypeOK
<1>10. Inside'
  BY <1>5, <1>9 DEF Inside, AtStep
<1>11. Unlocking'
  BY <1>9, NoCallIdle DEF Unlocking, AtStep
<1>12. NotMade'
  BY <1>5, <1>9 DEF NotMade
<1>13. Stages'
  BY <1>5, <1>9, NoCallIdle DEF Stages, Forgets, AtStep
<1>14. Asking'
  BY <1>5, <1>9, NoCallIdle DEF Asking, Asks, Known
<1>15. Holds'
  BY <1>9, NoCallIdle DEF Holds, AtStep
<1>16. Answers'
  BY <1>5, <1>9, NoCallIdle DEF Answers, Answered, Right
<1>17. Remembers'
  BY <1>3, <1>5, <1>9 DEF Remembers, Forgets
<1>18. Countdown'
  BY <1>3, <1>4, <1>5, <1>9 DEF Countdown
<1>19. Waiting'
  BY <1>2, <1>5, <1>9 DEF Waiting, Waits, AtStep
<1>20. AnswersAgree'
  BY <1>5, <1>9 DEF AnswersAgree
<1> QED
  BY <1>8, <1>10, <1>11, <1>12, <1>13, <1>14, <1>15, <1>16, <1>17, <1>18,
     <1>19, <1>20

LEMMA ExitKeeps ==
  ASSUME RegistryInv, NEW t \in Pthreads, Exit(t)
  PROVE  RegistryInv'
<1> USE RegistryAssumption DEF RegistryInv
<1> DEFINE l == [life[t] EXCEPT !.is = "exiting", !.pass = 1, !.swept = Due(t)]
<1>1. Due(t) \in {"due", "free"} /\ (tsd[t].is = "there" => Due(t) = "due")
  BY Fields DEF Due
<1>2. l \in ThreadLife /\ l.is = "exiting" /\ l.pass = 1
  BY <1>1, Fields, Records, NoCallIdle DEF ThreadLife
<1>3. l.entry = life[t].entry /\ (tsd[t].is = "there" => l.swept = "due")
  BY <1>1, <1>2 DEF ThreadLife
<1>4. /\ UNCHANGED <<made, runLoops, loopsLock, tsd, call, told>>
      /\ call[t].at = "idle" /\ life[t].is = "running" /\ t # Main
      /\ \A u \in Pthreads \ {t} : call[u].at # "idle" => call[u].about # t
      /\ missed \subseteq missed' /\ missed' \subseteq missed \cup {t}
      /\ runLoops[t] # NoLoop /\ tsd[t].loop = NoLoop => t \in missed'
  BY <1>3 DEF Exit, CanCall, NobodyAsksAbout, AtStep
<1>5. life' = [life EXCEPT ![t] = l]
  BY Fields DEF Exit
<1> HIDE DEF l
<1>6. RegistryTypeOK'
  BY <1>2, <1>4, <1>5 DEF RegistryTypeOK
<1>7. \A u \in Pthreads :
      /\ life'[u] = IF u = t THEN l ELSE life[u]
  BY <1>5 DEF RegistryTypeOK
<1>8. Inside'
  BY <1>4, <1>7 DEF Inside, AtStep
<1>9. Unlocking'
  BY <1>4, <1>7 DEF Unlocking, AtStep
<1>10. NotMade'
  BY <1>4, <1>7 DEF NotMade
<1>11. Stages'
  BY <1>4, <1>7 DEF Stages, Forgets, AtStep
<1>12. Asking'
  BY <1>4, <1>5 DEF Asking, Asks, Known
<1>13. Holds'
  BY <1>4, <1>7 DEF Holds, AtStep
<1>14. Answers'
  BY <1>4, <1>7 DEF Answers, Answered, Right
<1>15. Remembers'
  BY <1>3, <1>4, <1>7 DEF Remembers, Forgets
<1>16. Countdown'
  BY <1>3, <1>4, <1>7 DEF Countdown
<1>17. Waiting'
  BY <1>2, <1>3, <1>4, <1>7 DEF Waiting, Waits, AtStep, Countdown
<1>18. AnswersAgree'
  BY <1>4, <1>7 DEF AnswersAgree
<1> QED
  BY <1>6, <1>8, <1>9, <1>10, <1>11, <1>12, <1>13, <1>14, <1>15, <1>16, <1>17,
     <1>18

LEMMA SweepKeeps ==
  ASSUME RegistryInv, NEW t \in Pthreads, Sweep(t)
  PROVE  RegistryInv'
<1> USE RegistryAssumption DEF RegistryInv
<1> DEFINE k == tsd[t].count + 1
<1>1. k = tsd[t].count + 1 /\ k \in Nat
  BY Fields
<1> HIDE DEF k
<1> DEFINE m == CountDown(tsd[t].cntr)
<1>2. /\ m \in Nat
      /\ tsd[t].cntr > 1 => m = tsd[t].cntr - 1
      /\ ~(tsd[t].cntr > 1) => m = 0
  BY Fields DEF CountDown
<1> HIDE DEF m
<1> DEFINE l == [life[t] EXCEPT !.swept = "running"]
           x == [tsd[t] EXCEPT !.count = k, !.cntr = m]
           c == IF tsd[t].cntr = 1
                THEN [NoCall EXCEPT !.at = "finalize", !.about = t]
                ELSE call[t]
<1>3. x \in TSDTable
  <2>1. tsd[t] \in TSDTable
    BY Fields
  <2> QED
    BY <1>1, <1>2, <2>1 DEF TSDTable
<1>4. l \in ThreadLife /\ l.swept = "running" /\ l.pass = life[t].pass
  BY Fields DEF ThreadLife
<1>5. l.is = life[t].is /\ l.entry = life[t].entry
  BY Fields DEF NoCall
<1>6. x.is = tsd[t].is /\ x.loop = tsd[t].loop /\ x.count = k
  BY Fields DEF NoCall
<1>7. x.cntr = m
  BY Fields DEF NoCall
<1>8. c \in Call /\ (tsd[t].cntr = 1 => c.at = "finalize")
  BY <1>1, <1>2, <1>3, <1>4, <1>5, <1>6, <1>7, Fields, Records, NoCallIdle
     DEF ThreadLife, TSDTable, Call, Steps, NoCall
<1>9. tsd[t].cntr # 1 => c = call[t]
  BY Fields DEF NoCall
<1>10. /\ UNCHANGED <<made, runLoops, loopsLock, told, missed>>
      /\ call[t].at = "idle" /\ life[t].is = "exiting" /\ tsd[t].is = "there"
      /\ life[t].swept \in {"due", "free"}
  BY <1>9 DEF Sweep, AtStep
<1>11. life' = [life EXCEPT ![t] = l]
  BY Fields DEF Sweep
<1>12. tsd' = [tsd EXCEPT ![t] = x]
  BY <1>1, <1>2, <1>3, <1>4, <1>5, <1>6, <1>7, <1>8, <1>9, <1>10, Fields
     DEF RegistryTypeOK, Sweep, SetCall, AtStep, k, m
<1>13. call' = [call EXCEPT ![t] = c]
  BY Fields DEF RegistryTypeOK, Sweep, SetCall
<1> HIDE DEF l, x, c
<1>14. RegistryTypeOK'
  BY <1>3, <1>4, <1>8, <1>10, <1>11, <1>12, <1>13 DEF RegistryTypeOK
<1>15. \A u \in Pthreads :
      /\ life'[u] = IF u = t THEN l ELSE life[u]
      /\ tsd'[u] = IF u = t THEN x ELSE tsd[u]
      /\ call'[u] = IF u = t THEN c ELSE call[u]
  BY <1>11, <1>12, <1>13 DEF RegistryTypeOK
<1>16. Inside'
  BY <1>10, <1>15 DEF Inside, AtStep
<1>17. Unlocking'
  BY <1>8, <1>9, <1>15 DEF Unlocking, AtStep
<1>18. NotMade'
  BY <1>10, NoCallIdle DEF NotMade
<1>19. Stages'
  BY <1>5, <1>8, <1>9, <1>10, <1>15 DEF Stages, Forgets, AtStep
<1>20. Asking'
  BY <1>8, <1>9, <1>10, <1>15, Fields DEF Asking, Asks, Known
<1>21. Holds'
  BY <1>8, <1>9, <1>15 DEF Holds, AtStep
<1>22. Answers'
  BY <1>8, <1>9, <1>10, <1>15 DEF Answers, Answered, Right
<1>23. Remembers'
  BY <1>5, <1>6, <1>10, <1>15 DEF Remembers, Forgets
<1>24. Countdown'
  BY <1>5, <1>10, <1>15 DEF Countdown
<1>25. Waiting'
  BY SMTT(30), <1>1, <1>2, <1>3, <1>4, <1>5, <1>6, <1>7, <1>8, <1>10, <1>15,
     Fields, NoCallIdle
     DEF Waiting, Waits, AtStep
<1>26. AnswersAgree'
  BY <1>10, <1>15 DEF AnswersAgree
<1> QED
  BY <1>14, <1>16, <1>17, <1>18, <1>19, <1>20, <1>21, <1>22, <1>23, <1>24,
     <1>25, <1>26

LEMMA FinalizeKeeps ==
  ASSUME RegistryInv, NEW t \in Pthreads, Finalize(t)
  PROVE  RegistryInv'
<1> USE RegistryAssumption DEF RegistryInv
<1> DEFINE l == [life[t] EXCEPT !.entry = "taken"]
           c == IF runLoops[t] = NoLoop THEN NoCall
                ELSE [NoCall EXCEPT !.at = "unlock", !.about = t,
                                    !.mine = runLoops[t]]
<1>1. l \in ThreadLife /\ l.entry = "taken" /\ l.is = life[t].is
  BY Fields DEF ThreadLife
<1>2. c \in Call /\ c.then = "idle" /\ c.at \in {"idle", "unlock"}
  BY <1>1, Fields, Records, NoCallIdle
     DEF ThreadLife, Call, Steps, After, NoCall
<1>3. c.at = "idle" <=> runLoops[t] = NoLoop
  BY Fields DEF NoCall
<1>4. /\ UNCHANGED <<made, tsd, missed>>
      /\ call[t].at = "finalize"
      /\ loopsLock' = IF c.at = "unlock" THEN t ELSE loopsLock
  BY <1>3 DEF Finalize, SetCall, AtStep
<1>5. runLoops' = [runLoops EXCEPT ![t] = NoLoop]
  BY Fields DEF Finalize
<1>6. told' = [told EXCEPT ![t] = {}]
  BY Fields DEF Finalize
<1>7. life' = [life EXCEPT ![t] = l]
  BY Fields DEF Finalize
<1>8. call' = [call EXCEPT ![t] = c]
  BY Fields DEF Finalize, SetCall
<1> HIDE DEF l, c
<1>9. RegistryTypeOK'
  BY <1>1, <1>2, <1>4, <1>5, <1>6, <1>7, <1>8 DEF RegistryTypeOK
<1>10. \A u \in Pthreads :
      /\ runLoops'[u] = IF u = t THEN NoLoop ELSE runLoops[u]
      /\ told'[u] = IF u = t THEN {} ELSE told[u]
      /\ life'[u] = IF u = t THEN l ELSE life[u]
      /\ call'[u] = IF u = t THEN c ELSE call[u]
  BY <1>5, <1>6, <1>7, <1>8 DEF RegistryTypeOK
<1>11. Inside'
  BY <1>4, <1>10 DEF Inside, AtStep
<1>12. Unlocking'
  BY <1>2, <1>10 DEF Unlocking, AtStep
<1>13. NotMade'
  BY <1>4, <1>10 DEF NotMade
<1>14. Stages'
  BY <1>2, <1>10 DEF Stages, Forgets, AtStep
<1>15. Asking'
  BY <1>1, <1>2, <1>4, <1>10, Fields DEF Asking, Asks, Known
<1>16. Holds'
  BY <1>2, <1>10 DEF Holds, AtStep
<1>17. Answers'
  BY <1>2, <1>4, <1>10, Fields
     DEF Answers, Answered, Right, Asking, Asks, Known, Stages, AtStep
<1>18. Remembers'
  BY <1>1, <1>4, <1>10 DEF Remembers, Forgets
<1>19. Countdown'
  BY <1>1, <1>4, <1>10 DEF Countdown, Stages, AtStep
<1>20. Waiting'
  BY <1>4, <1>10 DEF Waiting, Waits, AtStep
<1>21. AnswersAgree'
  BY <1>4, <1>10 DEF AnswersAgree
<1> QED
  BY <1>9, <1>11, <1>12, <1>13, <1>14, <1>15, <1>16, <1>17, <1>18, <1>19,
     <1>20, <1>21

LEMMA EndSweepKeeps ==
  ASSUME RegistryInv, NEW t \in Pthreads, EndSweep(t)
  PROVE  RegistryInv'
<1> USE RegistryAssumption DEF RegistryInv
<1> DEFINE l == [life[t] EXCEPT !.swept = "done"]
           x == IF tsd[t].count = Iterations - 1 THEN GoneTable ELSE tsd[t]
<1>1. l \in ThreadLife /\ l.swept = "done" /\ l.pass = life[t].pass
  BY Fields DEF ThreadLife
<1>2. l.is = life[t].is /\ l.entry = life[t].entry
  BY Fields DEF ThreadLife
<1>3. x \in TSDTable /\ (tsd[t].count # Iterations - 1 => x = tsd[t])
  BY Fields, Records, NoCallIdle DEF ThreadLife
<1>4. x = tsd[t] \/ x = GoneTable
  BY Fields DEF ThreadLife
<1>5. x # tsd[t] => tsd[t].count = Iterations - 1
  BY Fields DEF ThreadLife
<1>6. /\ UNCHANGED <<made, runLoops, loopsLock, call, told, missed>>
      /\ call[t].at = "idle" /\ life[t].is = "exiting"
      /\ life[t].swept = "running"
  BY <1>5 DEF EndSweep, AtStep, RegistryTypeOK
<1>7. life' = [life EXCEPT ![t] = l]
  BY Fields DEF RegistryTypeOK, EndSweep, AtStep
<1>8. tsd' = [tsd EXCEPT ![t] = x]
  BY <1>1, <1>2, <1>3, <1>4, <1>5, <1>6, Fields
     DEF RegistryTypeOK, EndSweep, AtStep
<1> HIDE DEF l, x
<1>9. RegistryTypeOK'
  BY <1>1, <1>3, <1>6, <1>7, <1>8 DEF RegistryTypeOK
<1>10. \A u \in Pthreads :
      /\ life'[u] = IF u = t THEN l ELSE life[u]
      /\ tsd'[u] = IF u = t THEN x ELSE tsd[u]
  BY <1>7, <1>8 DEF RegistryTypeOK
<1>11. Inside'
  BY <1>6, <1>10 DEF Inside, AtStep
<1>12. Unlocking'
  BY <1>6, <1>10 DEF Unlocking, AtStep
<1>13. NotMade'
  BY <1>5, <1>6, <1>10, NoCallIdle DEF NotMade
<1>14. Stages'
  BY <1>6, <1>10 DEF Stages, Forgets, AtStep
<1>15. Asking'
  BY <1>6, <1>10, Fields DEF Asking, Asks, Known
<1>16. Holds'
  BY <1>6, <1>10 DEF Holds, AtStep
<1>17. Answers'
  BY <1>6, <1>10 DEF Answers, Answered, Right
<1>18. Remembers'
  BY <1>2, <1>4, <1>6, <1>10, NoCallIdle DEF Remembers, Forgets
<1>19. Countdown'
  BY <1>2, <1>3, <1>10 DEF Countdown
<1>20. Waiting'
  BY <1>1, <1>2, <1>5, <1>6, <1>10 DEF Waiting, Waits, AtStep
<1>21. AnswersAgree'
  BY <1>6, <1>10 DEF AnswersAgree
<1> QED
  BY <1>9, <1>11, <1>12, <1>13, <1>14, <1>15, <1>16, <1>17, <1>18, <1>19,
     <1>20, <1>21

LEMMA NextPassKeeps ==
  ASSUME RegistryInv, NEW t \in Pthreads, NextPass(t)
  PROVE  RegistryInv'
<1> USE RegistryAssumption DEF RegistryInv
<1> DEFINE k == life[t].pass + 1
<1>1. k = life[t].pass + 1 /\ k \in Nat
  BY Fields
<1> HIDE DEF k
<1> DEFINE later == [life[t] EXCEPT !.pass = k, !.swept = Due(t)]
           ended == [life[t] EXCEPT !.is = "dead"]
           l == IF life[t].pass < Iterations THEN later ELSE ended
<1>2. Due(t) \in {"due", "free"} /\ (tsd[t].is = "there" => Due(t) = "due")
  BY Fields DEF Due
<1>3. later \in ThreadLife /\ ended \in ThreadLife
  BY <1>1, <1>2, Fields, Records, NoCallIdle DEF ThreadLife
<1>4. later.is = life[t].is /\ later.entry = life[t].entry
  BY Fields DEF ThreadLife
<1>5. later.pass = k /\ later.swept = Due(t)
  BY Fields DEF ThreadLife
<1>6. ended.is = "dead" /\ ended.entry = life[t].entry
  BY Fields DEF ThreadLife
<1>7. life[t].pass < Iterations => l = later
  BY Fields DEF ThreadLife
<1>8. ~(life[t].pass < Iterations) => l = ended
  BY Fields DEF ThreadLife
<1>9. /\ UNCHANGED <<made, runLoops, loopsLock, tsd, call, told, missed>>
      /\ call[t].at = "idle" /\ life[t].is = "exiting"
      /\ life[t].swept \in {"free", "done"}
  BY <1>8 DEF NextPass, AtStep, k
<1>10. life' = [life EXCEPT ![t] = l]
  BY Fields DEF RegistryTypeOK, NextPass, AtStep, k
<1> HIDE DEF later, ended, l
<1>11. RegistryTypeOK'
  BY <1>1, <1>2, <1>3, <1>4, <1>5, <1>6, <1>7, <1>8, <1>9, <1>10, Fields,
     Records
     DEF RegistryTypeOK
<1>12. \A u \in Pthreads :
      /\ life'[u] = IF u = t THEN l ELSE life[u]
  BY <1>10 DEF RegistryTypeOK
<1>13. Inside'
  BY <1>9, <1>12 DEF Inside, AtStep
<1>14. Unlocking'
  BY <1>9, <1>12 DEF Unlocking, AtStep
<1>15. NotMade'
  BY <1>9, <1>12 DEF NotMade
<1>16. Stages'
  BY <1>9, <1>12 DEF Stages, Forgets, AtStep
<1>17. Asking'
  BY <1>9, <1>10 DEF Asking, Asks, Known
<1>18. Holds'
  BY <1>9, <1>12 DEF Holds, AtStep
<1>19. Answers'
  BY <1>9, <1>12 DEF Answers, Answered, Right
<1>20. Remembers'
  BY <1>1, <1>2, <1>3, <1>4, <1>5, <1>6, <1>7, <1>8, <1>9, <1>12
     DEF Remembers, Forgets
<1>21. Countdown'
  BY <1>1, <1>2, <1>3, <1>4, <1>5, <1>6, <1>7, <1>8, <1>9, <1>12 DEF Countdown
<1>22. Waiting'
  BY <1>1, <1>2, <1>3, <1>4, <1>5, <1>6, <1>7, <1>8, <1>9, <1>12, Fields
     DEF Waiting, Waits, AtStep
<1>23. AnswersAgree'
  BY <1>9, <1>12 DEF AnswersAgree
<1> QED
  BY <1>11, <1>13, <1>14, <1>15, <1>16, <1>17, <1>18, <1>19, <1>20, <1>21,
     <1>22, <1>23

LEMMA StartKeeps ==
  ASSUME RegistryInv, NEW t \in Pthreads, Start(t)
  PROVE  RegistryInv'
<1> USE RegistryAssumption DEF RegistryInv
<1>1. /\ UNCHANGED <<made, runLoops, loopsLock, call, told, missed>>
      /\ life[t].is = "dead"
  BY DEF Start
<1>2. life' = [life EXCEPT ![t] = Running]
  BY Fields DEF RegistryTypeOK, Start
<1>3. tsd' = [tsd EXCEPT ![t] = NoTable]
  BY Fields DEF RegistryTypeOK, Start
<1>4. RegistryTypeOK'
  BY <1>1, <1>2, <1>3, Fields, Records DEF RegistryTypeOK
<1>5. \A u \in Pthreads :
      /\ life'[u] = IF u = t THEN Running ELSE life[u]
      /\ tsd'[u] = IF u = t THEN NoTable ELSE tsd[u]
  BY <1>2, <1>3 DEF RegistryTypeOK
<1>6. Inside'
  BY <1>1, <1>5 DEF Inside, AtStep
<1>7. Unlocking'
  BY <1>1, <1>5 DEF Unlocking, AtStep
<1>8. NotMade'
  BY <1>1, <1>5 DEF NotMade
<1>9. Stages'
  BY <1>1, <1>5 DEF Stages, Forgets, AtStep
<1>10. Asking'
  BY <1>1, <1>5, Fields DEF Asking, Asks, Known
<1>11. Holds'
  BY <1>1, <1>5 DEF Holds, AtStep
<1>12. Answers'
  BY <1>1, <1>5 DEF Answers, Answered, Right
<1>13. Remembers'
  BY <1>1, <1>5, Fields, NoCallIdle DEF Remembers, Forgets
<1>14. Countdown'
  BY <1>1, <1>5, Fields, NoCallIdle DEF Countdown
<1>15. Waiting'
  BY <1>1, <1>5 DEF Waiting, Waits, AtStep
<1>16. AnswersAgree'
  BY <1>1, <1>5 DEF AnswersAgree
<1> QED
  BY <1>4, <1>6, <1>7, <1>8, <1>9, <1>10, <1>11, <1>12, <1>13, <1>14, <1>15,
     <1>16

-----------------------------------------------------------------------------
LEMMA RegistryStep ==
  RegistryInv /\ [RegistryNext]_registryVars => RegistryInv'
<1> SUFFICES ASSUME RegistryInv, [RegistryNext]_registryVars
             PROVE  RegistryInv'
  OBVIOUS
<1>1. ASSUME NEW t \in Pthreads,
             \/ Remembered(t) \/ \E u \in Pthreads : Get0(t, u)
             \/ Lookup(t) \/ Make(t) \/ CreateLoop(t) \/ Again(t) \/ Drop(t)
             \/ DeallocateLoop(t) \/ Store(t)
      PROVE  RegistryInv'
  BY <1>1, RememberedKeeps, Get0Keeps, LookupKeeps, MakeKeeps,
     CreateLoopKeeps, AgainKeeps, DropKeeps, DeallocateLoopKeeps, StoreKeeps
<1>2. ASSUME NEW t \in Pthreads,
             \/ \E l \in {NoLoop, runLoops[Main]} : SetCurrent(t, l)
             \/ Unlock(t) \/ Forget(t)
      PROVE  RegistryInv'
  BY <1>2, SetCurrentKeeps, UnlockKeeps, ForgetKeeps
<1>3. ASSUME NEW t \in Pthreads,
             \/ Exit(t) \/ Sweep(t) \/ Finalize(t) \/ EndSweep(t)
             \/ NextPass(t) \/ Start(t)
      PROVE  RegistryInv'
  BY <1>3, ExitKeeps, SweepKeeps, FinalizeKeeps, EndSweepKeeps, NextPassKeeps,
     StartKeeps
<1>4. CASE UNCHANGED registryVars
  <2>1. /\ UNCHANGED <<made, runLoops, loopsLock, tsd>>
        /\ UNCHANGED <<call, life, told, missed>>
    BY <1>4 DEF registryVars
  <2>2. /\ RegistryTypeOK' /\ Inside' /\ Unlocking'
        /\ NotMade' /\ Stages' /\ Asking'
    BY <2>1
       DEF RegistryInv, RegistryTypeOK, Inside, Unlocking, NotMade, Stages,
           Asking, Known, AtStep
  <2>3. Holds' /\ Answers' /\ Remembers' /\ Countdown' /\ Waiting'
    BY <2>1
       DEF RegistryInv, Holds, Answers, Right, Remembers, Countdown, Waiting,
           Waits, AtStep
  <2>4. AnswersAgree'
    BY <2>1 DEF RegistryInv, AnswersAgree
  <2> QED
    BY <2>2, <2>3, <2>4 DEF RegistryInv
<1> QED
  BY <1>1, <1>2, <1>3, <1>4 DEF RegistryNext

LEMMA RegistryAlways == RegistrySpec => []RegistryInv
<1> QED
  BY RegistryInitInv, RegistryStep, PTL DEF RegistrySpec

\* The dictionary, the threads' tables and the calls hold what their types say;
\* no table of a thread is ever counted below zero.
THEOREM RegistryTypes == RegistrySpec => []RegistryTypeOK
<1>1. RegistryInv => RegistryTypeOK
  BY DEF RegistryInv
<1> QED
  BY <1>1, RegistryAlways, PTL

\* _CFRunLoopGet0 and __CFFinalizeRunLoop: in every interleaving of any number
\* of threads, all that are given the loop of a thread are given the same one.
THEOREM CallersAgree == RegistrySpec => []AnswersAgree
<1>1. RegistryInv => AnswersAgree
  BY DEF RegistryInv
<1> QED
  BY <1>1, RegistryAlways, PTL

\* __CFFinalizeRunLoop with the counter of _CFRunLoopGet0: for any number of
\* passes, a thread that has asked for its loop before its destructors ran is
\* not in the registry any more when it is dead.
THEOREM LoopsDieWithThreads == RegistrySpec => []DeadHaveNoLoop
<1>1. RegistryInv => DeadHaveNoLoop
  <2> SUFFICES ASSUME RegistryInv, NEW t \in Pthreads \ missed,
                      life[t].is = "dead", runLoops[t] # NoLoop
               PROVE  FALSE
    BY DEF DeadHaveNoLoop
  <2> QED
    BY DEF RegistryInv, Waiting
<1> QED
  BY <1>1, RegistryAlways, PTL

\* CFRelease and __CFRunLoopDeallocate: whoever frees a loop is outside
\* loopsLock, so that taking it there does not block on itself.
THEOREM NoLoopFreedInside == RegistrySpec => []FreedOutsideLock
<1>1. RegistryInv => FreedOutsideLock
  BY DEF RegistryInv, Inside, FreedOutsideLock, AtStep
<1> QED
  BY <1>1, RegistryAlways, PTL

-----------------------------------------------------------------------------
(* References to loops.                                                     *)

\* A call has a loop in its hands from the moment it makes, takes or retains
\* one until it has released it.
Carries(c) == c.at \in {"again", "unlock", "drop", "free"}
Fits(c) == IF Carries(c) THEN c.mine \in Loops ELSE c.mine = NoLoop
Hands == \A t \in Pthreads : Fits(call[t])

CountInv == Hands /\ rc \in [Loops -> Nat] /\ LoopsCounted

One(P) == IF P THEN 1 ELSE 0

\* A set that changes in one element.
LEMMA Recount ==
  ASSUME NEW T, IsFiniteSet(T), NEW R, R \subseteq T, NEW S, S \subseteq T,
         NEW t, \A u \in T : u # t => (u \in R <=> u \in S)
  PROVE  /\ Cardinality(R) \in Nat /\ Cardinality(S) \in Nat
         /\ Cardinality(S) + One(t \in R) = Cardinality(R) + One(t \in S)
<1>1. /\ IsFiniteSet(R) /\ IsFiniteSet(S)
      /\ Cardinality(R) \in Nat /\ Cardinality(S) \in Nat
  BY FS_Subset, FS_CardinalityType
<1>2. CASE t \in R /\ t \in S
  <2>1. R = S
    BY <1>2
  <2> QED
    BY <1>1, <1>2, <2>1
<1>3. CASE t \notin R /\ t \notin S
  <2>1. R = S
    BY <1>3
  <2> QED
    BY <1>1, <1>3, <2>1
<1>4. CASE t \in R /\ t \notin S
  <2>1. S = R \ {t}
    BY <1>4
  <2>2. Cardinality(S) = Cardinality(R) - 1
    BY <1>1, <1>4, <2>1, FS_RemoveElement
  <2> QED
    BY <1>1, <1>4, <2>2 DEF One
<1>5. CASE t \notin R /\ t \in S
  <2>1. S = R \cup {t}
    BY <1>5
  <2>2. Cardinality(S) = Cardinality(R) + 1
    BY <1>1, <1>5, <2>1, FS_AddElement
  <2> QED
    BY <1>1, <1>5, <2>2 DEF One
<1> QED
  BY <1>2, <1>3, <1>4, <1>5

Counts(c, l) == c.mine = l /\ c.at # "free"

\* The dictionary has the loop new where it had old, a call is c where it was
\* d, and each loop is given and loses that many references.
Balanced(old, new, d, c) ==
  \A l \in Loops :
    rc'[l] = rc[l] + One(new = l) - One(old = l)
                   + One(Counts(c, l)) - One(Counts(d, l))

\* A step in which one thread moves, and the loop of at most one thread
\* changes, counts right if each reference it gives or takes is counted.
LEMMA CountStep ==
  ASSUME RegistryInv, CountInv,
         NEW t \in Pthreads, NEW c, call' = [call EXCEPT ![t] = c],
         NEW a \in Pthreads, NEW x, runLoops' = [runLoops EXCEPT ![a] = x],
         Fits(c),
         rc' = [l \in Loops |-> rc'[l]],
         Balanced(runLoops[a], x, call[t], c)
  PROVE  CountInv'
<1> DEFINE Entered(l) == {u \in Pthreads : runLoops[u] = l}
           Carried(l) == {u \in Pthreads : Counts(call[u], l)}
<1>1. /\ \A u \in Pthreads : call'[u] = IF u = t THEN c ELSE call[u]
      /\ \A u \in Pthreads : runLoops'[u] = IF u = a THEN x ELSE runLoops[u]
  BY DEF RegistryInv, RegistryTypeOK
<1>2. ASSUME NEW l \in Loops
      PROVE  /\ rc'[l] = Cardinality(Entered(l)') + Cardinality(Carried(l)')
             /\ rc'[l] \in Nat
  <2>1. /\ Cardinality(Entered(l)') \in Nat /\ Cardinality(Entered(l)) \in Nat
        /\ Cardinality(Entered(l)') + One(runLoops[a] = l)
             = Cardinality(Entered(l)) + One(x = l)
    <3>1. /\ Cardinality(Entered(l)') \in Nat /\ Cardinality(Entered(l)) \in Nat
          /\ Cardinality(Entered(l)') + One(a \in Entered(l))
               = Cardinality(Entered(l)) + One(a \in Entered(l)')
      BY <1>1, Recount, RegistryAssumption
    <3>2. (a \in Entered(l) <=> runLoops[a] = l) /\ (a \in Entered(l)' <=> x = l)
      BY <1>1
    <3> QED
      BY <3>1, <3>2 DEF One
  <2>2. /\ Cardinality(Carried(l)') \in Nat /\ Cardinality(Carried(l)) \in Nat
        /\ Cardinality(Carried(l)') + One(Counts(call[t], l))
             = Cardinality(Carried(l)) + One(Counts(c, l))
    <3>1. \A u \in Pthreads :
            u # t => (u \in Carried(l)' <=> u \in Carried(l))
      BY <1>1 DEF Counts
    <3>2. Carried(l) \subseteq Pthreads /\ Carried(l)' \subseteq Pthreads
      OBVIOUS
    <3>3. /\ t \in Carried(l) <=> Counts(call[t], l)
          /\ t \in Carried(l)' <=> Counts(c, l)
      BY <1>1 DEF Counts
    <3> HIDE DEF Carried
    <3>4. /\ Cardinality(Carried(l)') \in Nat /\ Cardinality(Carried(l)) \in Nat
          /\ Cardinality(Carried(l)') + One(t \in Carried(l))
               = Cardinality(Carried(l)) + One(t \in Carried(l)')
      BY <3>1, <3>2, Recount, RegistryAssumption
    <3> QED
      BY <3>3, <3>4 DEF One
  <2>3. rc[l] = Cardinality(Entered(l)) + Cardinality(Carried(l))
    BY DEF CountInv, LoopsCounted, Counts, AtStep
  <2>4. /\ rc[l] \in Nat
        /\ rc'[l] = rc[l] + One(x = l) - One(runLoops[a] = l)
                       + One(Counts(c, l)) - One(Counts(call[t], l))
    BY DEF CountInv, Balanced
  <2>5. /\ One(runLoops[a] = l) \in 0..1 /\ One(x = l) \in 0..1
        /\ One(Counts(call[t], l)) \in 0..1 /\ One(Counts(c, l)) \in 0..1
    BY DEF One
  <2> DEFINE e == Cardinality(Entered(l))  e1 == Cardinality(Entered(l)')
             k == Cardinality(Carried(l))  k1 == Cardinality(Carried(l)')
             p == One(x = l)  q == One(runLoops[a] = l)
             r == One(Counts(c, l))  s == One(Counts(call[t], l))
             n == rc[l]  n1 == rc'[l]
  <2>6. /\ e \in Nat /\ e1 \in Nat /\ k \in Nat /\ k1 \in Nat /\ n \in Nat
        /\ e1 + q = e + p /\ k1 + s = k + r /\ n = e + k
        /\ n1 = n + p - q + r - s
        /\ p \in 0..1 /\ q \in 0..1 /\ r \in 0..1 /\ s \in 0..1
    BY <2>1, <2>2, <2>3, <2>4, <2>5
  <2> HIDE DEF e, e1, k, k1, n, n1, p, q, r, s
  <2>7. n1 = e1 + k1 /\ n1 \in Nat
    BY <2>6
  <2> QED
    BY <2>7 DEF n1, e1, k1
<1>3. LoopsCounted'
  BY <1>2 DEF LoopsCounted, Counts, AtStep
<1>4. rc' \in [Loops -> Nat]
  <2> DEFINE g == rc'
  <2>1. g = [l \in Loops |-> g[l]] /\ \A l \in Loops : g[l] \in Nat
    BY <1>2
  <2> HIDE DEF g
  <2>2. g \in [Loops -> Nat]
    BY <2>1
  <2> QED
    BY <2>2 DEF g
<1>5. Hands'
  BY <1>1 DEF CountInv, Hands
<1> QED
  BY <1>3, <1>4, <1>5 DEF CountInv

\* Nor does one that moves without giving or taking any.
LEMMA CallStep ==
  ASSUME RegistryInv, CountInv, UNCHANGED <<runLoops, rc>>,
         NEW t \in Pthreads, NEW c, call' = [call EXCEPT ![t] = c], Fits(c),
         \A l \in Loops : Counts(c, l) <=> Counts(call[t], l)
  PROVE  CountInv'
<1>1. runLoops' = [runLoops EXCEPT ![t] = runLoops[t]]
  BY DEF RegistryInv, RegistryTypeOK
<1>2. rc' = [l \in Loops |-> rc'[l]]
  BY DEF CountInv
<1>3. Balanced(runLoops[t], runLoops[t], call[t], c)
  BY DEF Balanced, One, CountInv
<1> QED
  BY <1>1, <1>2, <1>3, CountStep

LEMMA StillCounted ==
  CountInv /\ UNCHANGED <<runLoops, rc, call>> => CountInv'
BY DEF CountInv, Hands, LoopsCounted, AtStep

\* A thread that has no loop in its hands takes none.
LEMMA EmptyHanded ==
  ASSUME RegistryInv, CountInv, UNCHANGED <<runLoops, rc>>,
         NEW t \in Pthreads, NEW c, call' = [call EXCEPT ![t] = c],
         ~Carries(call[t]), ~Carries(c), c.mine \in {NoLoop, call[t].mine}
  PROVE  CountInv'
<1>1. call[t].mine = NoLoop /\ Fits(c) /\ c.mine = NoLoop
  BY DEF CountInv, Hands, Fits
<1> QED
  BY <1>1, CallStep, RegistryAssumption DEF Counts

LEMMA AskingCounts ==
  ASSUME RegistryInv, CountInv, NEW t \in Pthreads,
         (\E u \in Pthreads : Get0(t, u)) \/ Lookup(t) \/ Store(t) \/ Forget(t)
         \/ Sweep(t)
  PROVE  CountInv'
<1>1. CASE \E u \in Pthreads : Get0(t, u)
  <2>1. PICK u \in Pthreads : Get0(t, u)
    BY <1>1
  <2> DEFINE c == [NoCall EXCEPT !.at = "lookup", !.about = u]
  <2>2. c.at = "lookup" /\ c.mine = NoLoop
    BY DEF NoCall
  <2>3. /\ call' = [call EXCEPT ![t] = c] /\ UNCHANGED <<runLoops, rc>>
        /\ call[t].at = "idle"
    BY <2>1 DEF Get0, SetCall, CanCall, AtStep
  <2> HIDE DEF c
  <2> QED
    BY <2>2, <2>3, EmptyHanded DEF Carries
<1>2. CASE Lookup(t)
  <2> DEFINE found == runLoops[call[t].about]
             place == CASE ~made -> "make"
                        [] made /\ found = NoLoop -> "create"
                        [] OTHER -> "store"
             c == [call[t] EXCEPT !.at = place, !.loop = found]
  <2>1. place \in {"make", "create", "store"}
    OBVIOUS
  <2>2. call' = [call EXCEPT ![t] = c] /\ UNCHANGED <<runLoops, rc>>
        /\ call[t].at = "lookup"
    BY <1>2 DEF Lookup, SetCall, AtStep
  <2> HIDE DEF place, found
  <2>3. c.at = place /\ c.mine = call[t].mine
    BY Fields DEF RegistryInv, Call
  <2> HIDE DEF c
  <2> QED
    BY <2>1, <2>2, <2>3, EmptyHanded DEF Carries
<1>3. CASE Store(t) \/ Forget(t)
  <2>1. /\ call' = [call EXCEPT ![t] = NoCall] /\ UNCHANGED <<runLoops, rc>>
        /\ call[t].at \in {"store", "forget"}
    BY <1>3 DEF Store, Forget, SetCall, AtStep
  <2> QED
    BY <2>1, EmptyHanded DEF Carries, NoCall
<1>4. CASE Sweep(t)
  <2> DEFINE c == IF tsd[t].cntr = 1
                  THEN [NoCall EXCEPT !.at = "finalize", !.about = t]
                  ELSE call[t]
  <2>1. call[t].at = "idle" /\ UNCHANGED <<runLoops, rc>>
    BY <1>4 DEF Sweep, AtStep
  <2>2. c.at \in {"idle", "finalize"} /\ c.mine \in {NoLoop, call[t].mine}
    BY <2>1 DEF NoCall
  <2>3. call' = [call EXCEPT ![t] = c]
    BY <1>4 DEF Sweep, SetCall, RegistryInv, RegistryTypeOK
  <2> HIDE DEF c
  <2> QED
    BY <2>1, <2>2, <2>3, EmptyHanded DEF Carries
<1> QED
  BY <1>1, <1>2, <1>3, <1>4

LEMMA NewLoop ==
  ASSUME CountInv, \E l \in Loops : Free(l)
  PROVE  /\ Fresh \in Loops /\ rc[Fresh] = 0
         /\ \A u \in Pthreads : call[u].mine # Fresh
<1>1. Fresh \in Loops /\ Free(Fresh)
  BY DEF Fresh
<1> QED
  BY <1>1 DEF Free

LEMMA MakeCounts ==
  ASSUME RegistryInv, CountInv, NEW t \in Pthreads, Make(t)
  PROVE  CountInv'
<1>1. /\ Fresh \in Loops /\ rc[Fresh] = 0 /\ call[t].at = "make"
      /\ call[t].mine = NoLoop
  BY NewLoop DEF Make, AtStep, CountInv, Hands, Fits, Carries
<1>2. CASE made
  <2> DEFINE c == [call[t] EXCEPT !.at = "free", !.then = "lookup",
                                  !.mine = Fresh]
  <2>1. c.at = "free" /\ c.mine = Fresh
    BY Fields DEF RegistryInv, Call
  <2>2. call' = [call EXCEPT ![t] = c] /\ UNCHANGED <<runLoops, rc>>
    BY <1>2 DEF Make, SetCall
  <2> HIDE DEF c
  <2>3. Fits(c) /\ \A l \in Loops : Counts(c, l) <=> Counts(call[t], l)
    BY <1>1, <2>1, RegistryAssumption DEF Fits, Carries, Counts
  <2> QED
    BY <2>2, <2>3, CallStep
<1>3. CASE ~made
  <2> DEFINE c == [call[t] EXCEPT !.at = "lookup"]
             f == [rc EXCEPT ![Fresh] = 1]
  <2>1. c.at = "lookup" /\ c.mine = NoLoop
    BY <1>1, Fields DEF RegistryInv, Call
  <2>2. /\ call' = [call EXCEPT ![t] = c]
        /\ runLoops' = [runLoops EXCEPT ![Main] = Fresh]
        /\ rc' = f /\ rc' = [l \in Loops |-> rc'[l]]
    BY <1>3 DEF Make, SetCall, CountInv
  <2>3. runLoops[Main] = NoLoop
    BY <1>3, RegistryAssumption DEF RegistryInv, NotMade
  <2>4. \A l \in Loops : f[l] = IF l = Fresh THEN 1 ELSE rc[l]
    BY DEF CountInv
  <2> HIDE DEF c, f
  <2>5. Fits(c) /\ \A l \in Loops : ~Counts(c, l) /\ ~Counts(call[t], l)
    BY <1>1, <2>1, RegistryAssumption DEF Fits, Carries, Counts
  <2>6. Balanced(runLoops[Main], Fresh, call[t], c)
    BY <1>1, <2>2, <2>3, <2>4, <2>5, RegistryAssumption
       DEF Balanced, One, CountInv
  <2>7. Main \in Pthreads
    BY RegistryAssumption
  <2> QED
    BY <2>2, <2>5, <2>6, <2>7, CountStep
<1> QED
  BY <1>2, <1>3

LEMMA CreateLoopCounts ==
  ASSUME RegistryInv, CountInv, NEW t \in Pthreads, CreateLoop(t)
  PROVE  CountInv'
<1> DEFINE c == [call[t] EXCEPT !.at = "again", !.mine = Fresh]
           f == [rc EXCEPT ![Fresh] = 1]
<1>1. /\ Fresh \in Loops /\ rc[Fresh] = 0 /\ call[t].at = "create"
      /\ call[t].mine = NoLoop
  BY NewLoop DEF CreateLoop, AtStep, CountInv, Hands, Fits, Carries
<1>2. c.at = "again" /\ c.mine = Fresh
  BY Fields DEF RegistryInv, Call
<1>3. /\ call' = [call EXCEPT ![t] = c]
      /\ runLoops' = [runLoops EXCEPT ![t] = runLoops[t]]
      /\ rc' = f /\ rc' = [l \in Loops |-> rc'[l]]
  BY DEF CreateLoop, SetCall, CountInv, RegistryInv, RegistryTypeOK
<1>4. \A l \in Loops : f[l] = IF l = Fresh THEN 1 ELSE rc[l]
  BY DEF CountInv
<1> HIDE DEF c, f
<1>5. Fits(c) /\ \A l \in Loops : (Counts(c, l) <=> l = Fresh)
                                  /\ ~Counts(call[t], l)
  BY <1>1, <1>2, RegistryAssumption DEF Fits, Carries, Counts
<1>6. Balanced(runLoops[t], runLoops[t], call[t], c)
  BY <1>1, <1>3, <1>4, <1>5 DEF Balanced, One, CountInv
<1> QED
  BY <1>3, <1>5, <1>6, CountStep

LEMMA AgainCounts ==
  ASSUME RegistryInv, CountInv, NEW t \in Pthreads, Again(t)
  PROVE  CountInv'
<1> DEFINE found == runLoops[call[t].about]
           mine == call[t].mine
           c == [call[t] EXCEPT !.at = "drop", !.then = "store",
                   !.loop = IF found = NoLoop THEN call[t].mine ELSE found]
           x == IF found = NoLoop THEN mine ELSE found
           f == IF found = NoLoop THEN [rc EXCEPT ![mine] = @ + 1] ELSE rc
<1>1. /\ call[t].at = "again" /\ mine \in Loops
      /\ call[t].about \in Pthreads
  BY Fields
     DEF Again, AtStep, CountInv, Hands, Fits, Carries, RegistryInv
<1>2. c.at = "drop" /\ c.mine = mine
  BY Fields DEF RegistryInv, Call
<1>3. /\ call' = [call EXCEPT ![t] = c]
      /\ runLoops' = [runLoops EXCEPT ![call[t].about] = x]
      /\ rc' = f /\ rc' = [l \in Loops |-> rc'[l]]
  BY <1>1 DEF Again, SetCall, CountInv, RegistryInv, RegistryTypeOK
<1>4. \A l \in Loops :
        f[l] = IF found = NoLoop /\ l = mine THEN rc[l] + 1 ELSE rc[l]
  BY DEF CountInv
<1>5. Fits(c) /\ \A l \in Loops : Counts(c, l) <=> Counts(call[t], l)
  BY <1>1, <1>2, RegistryAssumption DEF Fits, Carries, Counts
<1> HIDE DEF c, f, found, mine
<1>6. Balanced(found, x, call[t], c)
  BY <1>1, <1>3, <1>4, <1>5, RegistryAssumption DEF Balanced, One, CountInv
<1>7. found = runLoops[call[t].about]
  BY DEF found
<1> HIDE DEF x
<1> QED
  BY <1>1, <1>3, <1>5, <1>6, <1>7, CountStep

LEMMA DropCounts ==
  ASSUME RegistryInv, CountInv, NEW t \in Pthreads, Drop(t)
  PROVE  CountInv'
<1> DEFINE mine == call[t].mine
           last == rc[mine] = 1
           c == [call[t] EXCEPT !.at = IF last THEN "free" ELSE call[t].then,
                                !.mine = IF last THEN mine ELSE NoLoop]
           f == [rc EXCEPT ![mine] = @ - 1]
<1>1. call[t].at = "drop" /\ mine \in Loops /\ call[t].then \in After
  BY Fields
     DEF Drop, AtStep, CountInv, Hands, Fits, Carries, RegistryInv
<1>2. /\ call' = [call EXCEPT ![t] = c]
      /\ runLoops' = [runLoops EXCEPT ![t] = runLoops[t]]
      /\ rc' = f /\ rc' = [l \in Loops |-> rc'[l]]
  BY <1>1 DEF Drop, SetCall, CountInv, RegistryInv, RegistryTypeOK
<1>3. \A l \in Loops : f[l] = IF l = mine THEN rc[l] - 1 ELSE rc[l]
  BY DEF CountInv
<1>4. \A l \in Loops : Counts(call[t], l) <=> l = mine
  BY <1>1 DEF Counts
<1> HIDE DEF last
<1>5. /\ c.at = IF last THEN "free" ELSE call[t].then
      /\ c.mine = IF last THEN mine ELSE NoLoop
  BY Fields DEF RegistryInv, Call
<1> HIDE DEF c, f, mine
<1>6. Fits(c) /\ \A l \in Loops : ~Counts(c, l)
  BY <1>1, <1>5, RegistryAssumption DEF Fits, Carries, Counts, After
<1>7. Balanced(runLoops[t], runLoops[t], call[t], c)
  BY <1>1, <1>2, <1>3, <1>4, <1>6 DEF Balanced, One, CountInv
<1> QED
  BY <1>2, <1>6, <1>7, CountStep

LEMMA DeallocateLoopCounts ==
  ASSUME RegistryInv, CountInv, NEW t \in Pthreads, DeallocateLoop(t)
  PROVE  CountInv'
<1> DEFINE c == [call[t] EXCEPT !.at = call[t].then, !.mine = NoLoop]
<1>1. call[t].at = "free" /\ call[t].then \in After
  BY Fields DEF DeallocateLoop, AtStep, RegistryInv
<1>2. c.at = call[t].then /\ c.mine = NoLoop
  BY Fields DEF RegistryInv, Call
<1>3. call' = [call EXCEPT ![t] = c] /\ UNCHANGED <<runLoops, rc>>
  BY DEF DeallocateLoop, SetCall
<1> HIDE DEF c
<1>4. Fits(c) /\ \A l \in Loops : Counts(c, l) <=> Counts(call[t], l)
  BY <1>1, <1>2, RegistryAssumption DEF Fits, Carries, Counts, After
<1> QED
  BY <1>3, <1>4, CallStep

LEMMA UnlockCounts ==
  ASSUME RegistryInv, CountInv, NEW t \in Pthreads, Unlock(t)
  PROVE  CountInv'
<1> DEFINE c == [call[t] EXCEPT !.at = "drop"]
<1>1. call[t].at = "unlock" /\ call[t].mine \in Loops
  BY DEF Unlock, AtStep, CountInv, Hands, Fits, Carries
<1>2. c.at = "drop" /\ c.mine = call[t].mine
  BY Fields DEF RegistryInv, Call
<1>3. call' = [call EXCEPT ![t] = c] /\ UNCHANGED <<runLoops, rc>>
  BY DEF Unlock, SetCall
<1> HIDE DEF c
<1>4. Fits(c) /\ \A l \in Loops : Counts(c, l) <=> Counts(call[t], l)
  BY <1>1, <1>2 DEF Fits, Carries, Counts
<1> QED
  BY <1>3, <1>4, CallStep

LEMMA SetCurrentCounts ==
  ASSUME RegistryInv, CountInv, NEW t \in Pthreads, NEW l, SetCurrent(t, l)
  PROVE  CountInv'
<1> DEFINE current == tsd[t].loop
           c == [NoCall EXCEPT !.at = "unlock", !.then = "forget",
                               !.about = t, !.mine = current]
           f == [k \in Loops |-> (IF k = current THEN rc[k] + 1 ELSE rc[k])
                                 + (IF k = l THEN 1 ELSE 0)
                                 - (IF k = runLoops[t] THEN 1 ELSE 0)]
<1>1. /\ call[t].at = "idle" /\ call[t].mine = NoLoop /\ current \in Loops
  BY Fields
     DEF SetCurrent, CanCall, AtStep, CountInv, Hands, Fits, Carries,
         RegistryInv
<1>2. c.at = "unlock" /\ c.mine = current
  BY DEF NoCall
<1>3. /\ call' = [call EXCEPT ![t] = c]
      /\ runLoops' = [runLoops EXCEPT ![t] = l]
      /\ rc' = f /\ rc' = [k \in Loops |-> rc'[k]]
  BY DEF SetCurrent, SetCall
<1> HIDE DEF c, current
<1>4. Fits(c) /\ \A k \in Loops : (Counts(c, k) <=> k = current)
                                  /\ ~Counts(call[t], k)
  BY <1>1, <1>2, RegistryAssumption DEF Fits, Carries, Counts
<1>5. Balanced(runLoops[t], l, call[t], c)
  BY <1>1, <1>3, <1>4 DEF Balanced, One, CountInv
<1> HIDE DEF f
<1> QED
  BY <1>3, <1>4, <1>5, CountStep

LEMMA FinalizeCounts ==
  ASSUME RegistryInv, CountInv, NEW t \in Pthreads, Finalize(t)
  PROVE  CountInv'
<1> DEFINE rl == runLoops[t]
           c == IF rl = NoLoop THEN NoCall
                ELSE [NoCall EXCEPT !.at = "unlock", !.about = t, !.mine = rl]
<1>1. /\ call[t].at = "finalize" /\ call[t].mine = NoLoop
      /\ rl \in Loops \cup {NoLoop}
  BY Fields
     DEF Finalize, AtStep, CountInv, Hands, Fits, Carries, RegistryInv
<1>2. /\ c.at = IF rl = NoLoop THEN "idle" ELSE "unlock"
      /\ c.mine = rl
  BY DEF NoCall
<1>3. /\ call' = [call EXCEPT ![t] = c]
      /\ runLoops' = [runLoops EXCEPT ![t] = NoLoop]
      /\ UNCHANGED rc /\ rc' = [l \in Loops |-> rc'[l]]
  BY DEF Finalize, SetCall, CountInv
<1> HIDE DEF c
<1>4. Fits(c) /\ \A l \in Loops : (Counts(c, l) <=> l = rl)
                                  /\ ~Counts(call[t], l)
  BY <1>1, <1>2, RegistryAssumption DEF Fits, Carries, Counts
<1>5. Balanced(runLoops[t], NoLoop, call[t], c)
  BY <1>1, <1>3, <1>4, RegistryAssumption DEF Balanced, One, CountInv
<1> QED
  BY <1>3, <1>4, <1>5, CountStep

LEMMA CountsInit == RegistryInit => CountInv
<1> SUFFICES ASSUME RegistryInit PROVE CountInv
  OBVIOUS
<1>1. Hands /\ rc \in [Loops -> Nat]
  BY DEF RegistryInit, Hands, Fits, Carries, NoCall
<1>2. ASSUME NEW l \in Loops
      PROVE  rc[l] = Cardinality({t \in Pthreads : runLoops[t] = l})
                     + Cardinality({t \in Pthreads : call[t].mine = l
                                                     /\ ~AtStep(t, "free")})
  <2>1. /\ rc[l] = 0
        /\ {t \in Pthreads : runLoops[t] = l} = {}
        /\ {t \in Pthreads : call[t].mine = l /\ ~AtStep(t, "free")} = {}
    BY RegistryAssumption DEF RegistryInit, NoCall
  <2> QED
    BY <2>1, FS_EmptySet
<1> QED
  BY <1>1, <1>2 DEF CountInv, LoopsCounted

LEMMA CountsStep ==
  RegistryInv /\ CountInv /\ [RegistryNext]_registryVars => CountInv'
<1> SUFFICES ASSUME RegistryInv, CountInv, [RegistryNext]_registryVars
             PROVE  CountInv'
  OBVIOUS
<1>1. ASSUME NEW t \in Pthreads,
             \/ Remembered(t) \/ Exit(t) \/ EndSweep(t) \/ NextPass(t)
             \/ Start(t)
      PROVE  CountInv'
  BY <1>1, StillCounted DEF Remembered, Exit, EndSweep, NextPass, Start
<1>2. ASSUME NEW t \in Pthreads,
             \/ \E u \in Pthreads : Get0(t, u)
             \/ Lookup(t) \/ Store(t) \/ Forget(t) \/ Sweep(t)
             \/ Make(t) \/ CreateLoop(t) \/ Again(t)
      PROVE  CountInv'
  BY <1>2, AskingCounts, MakeCounts, CreateLoopCounts, AgainCounts
<1>3. ASSUME NEW t \in Pthreads,
             \/ Drop(t) \/ DeallocateLoop(t)
             \/ \E l \in {NoLoop, runLoops[Main]} : SetCurrent(t, l)
             \/ Unlock(t) \/ Finalize(t)
      PROVE  CountInv'
  BY <1>3, DropCounts, DeallocateLoopCounts, SetCurrentCounts, UnlockCounts,
     FinalizeCounts
<1>4. CASE UNCHANGED registryVars
  BY <1>4, StillCounted DEF registryVars
<1> QED
  BY <1>1, <1>2, <1>3, <1>4 DEF RegistryNext

\* CFRetain and CFRelease of loops, by any number of threads in any order: the
\* count of a loop is the number of threads it is entered for and of calls that
\* have it in their hands.  No release is missing and none is one too many.
THEOREM LoopsAreCounted == RegistrySpec => []LoopsCounted
<1>1. CountInv => LoopsCounted
  BY DEF CountInv
<1> QED
  BY <1>1, CountsInit, CountsStep, RegistryAlways, PTL DEF RegistrySpec
=============================================================================
