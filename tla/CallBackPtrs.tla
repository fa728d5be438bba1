---------------------------- MODULE CallBackPtrs ----------------------------
(* The table of callbacks that all hashes share (CFBasicHash.c): a hash     *)
(* keeps ten bits for each of its callbacks, the callback's index here.     *)
(* Callbacks are entered without a lock: the table is searched first, the   *)
(* count of entries is raised by one atomic increment, and only then is the *)
(* pointer written.  A pointer may well be entered twice.                   *)
(* Of the entries that are made in advance, the first is kept: it is NULL,  *)
(* like the entries that have not been written yet.                         *)
EXTENDS Naturals, FiniteSets

CONSTANTS Callers,      \* threads that make hashes
          Callbacks, Null,
          Limit,        \* 1000: no call starts to enter anything beyond it
          Size          \* 1024 entries

ASSUME CallBackPtrsAssumption ==
  /\ Null \in Callbacks
  /\ Limit \in Nat \ {0} /\ Size \in Nat
  /\ IsFiniteSet(Callers) /\ Limit + Cardinality(Callers) <= Size

VARIABLES
  ptrs,                 \* CFBasicHashCallBackPtrs
  ptrsCount,            \* CFBasicHashCallBackPtrsCount
  search,               \* the call of CFBasicHashGetPtrIndex of each thread
  given                 \* history: the indexes returned, and for what

ptrsVars == <<ptrs, ptrsCount, search, given>>

Search == [at : {"out", "look", "check", "increment", "write"},
           ptr : Callbacks, idx : Nat]
Out == [at |-> "out", ptr |-> Null, idx |-> 0]

PtrsTypeOK ==
  /\ ptrs \in [0 .. Size - 1 -> Callbacks]
  /\ ptrsCount \in Nat
  /\ search \in [Callers -> Search]
  /\ given \subseteq Callbacks \X Nat

PtrsInit ==
  /\ ptrs = [i \in 0 .. Size - 1 |-> Null]
  /\ ptrsCount = 1
  /\ search = [c \in Callers |-> Out]
  /\ given = {}

SearchAt(c, place) == search[c].at = place
Proceed(c, place) == search' = [search EXCEPT ![c].at = place]
Answer(c) ==
  /\ search' = [search EXCEPT ![c] = Out]
  /\ given' = given \cup {<<search[c].ptr, search[c].idx>>}

CallGetPtrIndex(c, p) ==
  /\ SearchAt(c, "out")
  /\ search' = [search EXCEPT ![c] = [at |-> "look", ptr |-> p, idx |-> 0]]
  /\ UNCHANGED <<ptrs, ptrsCount, given>>

\* One turn of the loop: the count is read anew in each.
Look(c) ==
  LET s == search[c] IN
  /\ SearchAt(c, "look")
  /\ \/ s.idx >= ptrsCount /\ Proceed(c, "check") /\ UNCHANGED given
     \/ s.idx < ptrsCount /\ ptrs[s.idx] = s.ptr /\ Answer(c)
     \/ /\ s.idx < ptrsCount /\ ptrs[s.idx] # s.ptr
        /\ search' = [search EXCEPT ![c].idx = @ + 1]
        /\ UNCHANGED given
  /\ UNCHANGED <<ptrs, ptrsCount>>

\* HALT ends the program.  Here only the call ends, without an answer: what
\* the other threads do is what they could have done before.
Check(c) ==
  /\ SearchAt(c, "check")
  /\ IF Limit < ptrsCount THEN search' = [search EXCEPT ![c] = Out]
                          ELSE Proceed(c, "increment")
  /\ UNCHANGED <<ptrs, ptrsCount, given>>

\* Mutant: the entry behind the last that was searched is taken.
IncrementStale(c) ==
  /\ SearchAt(c, "increment")
  /\ ptrsCount' = ptrsCount + 1
  /\ Proceed(c, "write")
  /\ UNCHANGED <<ptrs, given>>

\* OSAtomicIncrement32 returns the new value.
Increment32(c) ==
  /\ SearchAt(c, "increment")
  /\ ptrsCount' = ptrsCount + 1
  /\ search' = [search EXCEPT ![c].at = "write", ![c].idx = ptrsCount]
  /\ UNCHANGED <<ptrs, given>>

WritePtr(c) ==
  /\ SearchAt(c, "write")
  /\ ptrs' = [ptrs EXCEPT ![search[c].idx] = search[c].ptr]
  /\ Answer(c)
  /\ UNCHANGED ptrsCount

PtrsNext == \E c \in Callers :
  \/ \E p \in Callbacks : CallGetPtrIndex(c, p)
  \/ Look(c) \/ Check(c) \/ Increment32(c) \/ WritePtr(c)

PtrsSpec == PtrsInit /\ [][PtrsNext]_ptrsVars

-----------------------------------------------------------------------------
\* What has been returned for a callback is where that callback is.
LeadsToPtr ==
  \A entry \in given :
    entry[2] \in DOMAIN ptrs => ptrs[entry[2]] = entry[1]

\* The limit is checked well before the entry is taken: the room behind it has
\* to be enough for all threads that are past the check.
IndexInTable ==
  /\ ptrsCount <= Size
  /\ \A entry \in given : entry[2] < ptrsCount

\* "in a way that will keep multiple threads from stomping each other's newly
\* registered values": an index that CFBasicHashGetPtrIndex has returned lies in
\* the table and leads to its callback for ever, although the limit is checked
\* before an entry is counted, and entries are counted before they are written
\* and searched while they are being written.
IndexLeadsToPtr == IndexInTable /\ LeadsToPtr
=============================================================================
