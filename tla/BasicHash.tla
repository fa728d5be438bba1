----------------------------- MODULE BasicHash -----------------------------
(* CFBasicHash, the table beneath dictionaries, sets and bags: open         *)
(* addressing with linear probing, the style that all of them ask for.      *)
(* Removing an entry leaves a mark, so that probing goes on behind it.      *)
(* Marks are reused and counted; the table is hashed anew without them when *)
(* they get too many, and when it grows or shrinks.  An entry is what fills *)
(* a bucket: the value of a set, or a key and its value.  The hash codes    *)
(* that a table may cache, and memory that runs out, are left out.          *)
EXTENDS Integers, FiniteSets

CONSTANTS Entries,
          KeyOf,            \* the key of each entry: equal keys are one key
          HashCode,         \* of each key
          Empty, Deleted,   \* the contents of a bucket: 0 and ~0
          TableSizes, TableCapacities,  \* for each num_buckets_idx, from 0
          CountLimits,      \* for each counts_width: INT8_MAX, INT16_MAX...
          DeletedLimit,     \* 2^16, where the count of marks rolls over
          PurgeSize,        \* 20 buckets: smaller tables wait for that
          ShrinkSteps,      \* 5 if fast_grow, 2 if not
          MaxBag            \* bound: how often a bag holds a key

Keys     == {KeyOf[e] : e \in Entries}
Contents == Entries \cup {Empty, Deleted}
LastIndex == Cardinality(DOMAIN TableSizes) - 1

\* The tables of sizes and capacities grow together, from nothing.  At one
\* index below the last, if not before, there is room for all keys: beyond
\* that index the program runs out of memory, and halts.
ASSUME HashAssumption ==
  /\ IsFiniteSet(Entries) /\ Empty # Deleted /\ {Empty, Deleted} \cap Entries = {}
  /\ HashCode \in [Keys -> Nat]
  /\ LastIndex \in Nat /\ TableSizes \in [0 .. LastIndex -> Nat]
  /\ TableCapacities \in [0 .. LastIndex -> Nat]
  /\ TableSizes[0] = 0
  /\ \A i \in 0 .. LastIndex : TableCapacities[i] <= TableSizes[i]
  /\ \A i, j \in 0 .. LastIndex :
       i <= j => TableCapacities[i] <= TableCapacities[j]
  /\ \E i \in 0 .. LastIndex - 1 : Cardinality(Keys) <= TableCapacities[i]
  /\ DeletedLimit \in Nat \ {0} /\ PurgeSize \in Nat /\ MaxBag \in Nat
  /\ ShrinkSteps \in [BOOLEAN -> Nat]

VARIABLES
  ht,        \* the hash
  bag,          \* how often each key is in it, as the calls describe it
  held          \* how often each entry was retained and not released

hashVars == <<ht, bag, held>>

NotFound == -1
NumBuckets(t) == TableSizes[t.idx]
Indexes(t)    == 0 .. NumBuckets(t) - 1
Capacity(t)   == TableCapacities[t.idx]
Occupied(t)   == {i \in Indexes(t) : t.buckets[i] \in Entries}
Marked(t)     == {i \in Indexes(t) : t.buckets[i] = Deleted}

Bare(t, idx) ==
  [t EXCEPT !.idx = idx, !.deleted = 0,
            !.buckets = [i \in 0 .. TableSizes[idx] - 1 |-> Empty],
            !.counts = [i \in 0 .. TableSizes[idx] - 1 |-> 0]]

\* counted is for bags (counts_offset).
NewHash(fast, counted) ==
  [idx |-> 0, used |-> 0, deleted |-> 0, width |-> 0, buckets |-> <<>>,
   counts |-> <<>>, fast |-> fast, counted |-> counted]

HashInit ==
  /\ \E fast, counted \in BOOLEAN : ht = Bare(NewHash(fast, counted), 0)
  /\ bag = [k \in Keys |-> 0]
  /\ held = [e \in Entries |-> 0]

-----------------------------------------------------------------------------
LeastOf(S) == CHOOSE i \in S : \A j \in S : i <= j

Holds(t, i, k) == t.buckets[i] \in Entries /\ KeyOf[t.buckets[i]] = k

\* The buckets that are probed for a key, in order.
Probe(t, k, n) ==
  LET probe == (HashCode[k] % NumBuckets(t)) + n
  IN  IF probe < NumBuckets(t) THEN probe ELSE probe - NumBuckets(t)

SlotCount(t, i) == IF t.counted THEN t.counts[i] ELSE 1

\* Mutant: the first bucket without an entry ends the search.
FindBucketEagerly(t, k) ==
  LET ends == {n \in Indexes(t) : \/ t.buckets[Probe(t, k, n)] \notin Entries
                                  \/ Holds(t, Probe(t, k, n), k)}
      i    == Probe(t, k, LeastOf(ends))
  IN  IF ends = {} THEN [idx |-> NotFound, count |-> 0]
      ELSE [idx |-> i, count |-> IF Holds(t, i, k) THEN SlotCount(t, i) ELSE 0]

\* The entry of a key, or else the bucket to put it in: the first mark on the
\* way, or the empty bucket at its end, or none.
FindBucket(t, k) ==
  LET ends   == {n \in Indexes(t) : \/ t.buckets[Probe(t, k, n)] = Empty
                                    \/ Holds(t, Probe(t, k, n), k)}
      marks  == {n \in Indexes(t) : /\ t.buckets[Probe(t, k, n)] = Deleted
                                    /\ \A m \in ends : n < m}
      i      == Probe(t, k, LeastOf(ends))
  IN  IF ends # {} /\ Holds(t, i, k)
      THEN [idx |-> i, count |-> SlotCount(t, i)]
      ELSE [idx |-> IF marks \cup ends = {} THEN NotFound
                    ELSE Probe(t, k, LeastOf(marks \cup ends)),
            count |-> 0]

\* In a table without marks that has no such key.
FindEmpty(t, k) ==
  Probe(t, k, LeastOf({n \in Indexes(t) : t.buckets[Probe(t, k, n)] = Empty}))

IndexForCapacity(capacity) ==
  LeastOf({i \in DOMAIN TableCapacities : capacity <= TableCapacities[i]})

PutAt(t, i, e, count) ==
  [t EXCEPT !.buckets[i] = e, !.counts[i] = count]

\* What bucket i of the old table brings to the new one.
Move(t, i, new) ==
  IF t.buckets[i] \in Entries
  THEN PutAt(new, FindEmpty(new, KeyOf[t.buckets[i]]), t.buckets[i], t.counts[i])
  ELSE new

MoveAll(t, idx) ==
  LET moved[i \in 0 .. NumBuckets(t)] ==
        IF i = 0 THEN Bare(t, idx) ELSE Move(t, i - 1, moved[i - 1])
  IN  moved[NumBuckets(t)]

\* newItemCount is 0 to clear the marks, and negative to shrink.
Rehash(t, newItemCount) ==
  LET items == IF newItemCount < 0 THEN 0 ELSE newItemCount
      fit   == IndexForCapacity(t.used + items)
  IN  MoveAll(t, IF newItemCount = 0 THEN t.idx
                 ELSE IF items = 1 /\ t.fast THEN fit + 1 ELSE fit)

\* A count that does not fit is made wider first.
IncSlotCount(t, i) ==
  IF ~t.counted THEN t
  ELSE [t EXCEPT !.counts[i] = @ + 1,
                 !.width = IF t.counts[i] < CountLimits[@] THEN @ ELSE @ + 1]

\* A mark is reused.
Fill(t, i) == IF t.buckets[i] = Deleted THEN [t EXCEPT !.deleted = @ - 1] ELSE t

Add(t, i, e) ==
  LET full  == Capacity(t) < t.used + 1
      room  == IF full THEN Rehash(t, 1) ELSE Fill(t, i)
      place == IF full THEN FindEmpty(room, KeyOf[e]) ELSE i
  IN  IncSlotCount([room EXCEPT !.buckets[place] = e, !.used = @ + 1], place)

\* One count is left when an entry goes.
MarkAt(t, i) == PutAt(t, i, Deleted, 0)

Remove(t, i) ==
  LET left  == [MarkAt(t, i) EXCEPT !.used = @ - 1,
                                    !.deleted = (@ + 1) % DeletedLimit]
      steps == ShrinkSteps[t.fast]
  IN  IF steps < t.idx /\ left.used < TableCapacities[t.idx - steps]
      THEN Rehash(left, -1)
      ELSE IF \/ left.deleted = 0
              \/ PurgeSize <= NumBuckets(t) /\ NumBuckets(t) \div 4 <= left.deleted
           THEN Rehash(left, 0)
           ELSE left

-----------------------------------------------------------------------------
RetainEntry(e) == held' = [held EXCEPT ![e] = @ + 1]

\* A bag counts a key that it holds, anything else ignores it.
HashAddValue(e) ==
  LET k == KeyOf[e]
      b == FindBucket(ht, k)
  IN  IF b.count > 0
      THEN /\ b.count < MaxBag
           /\ ht' = IncSlotCount(ht, b.idx)
           /\ bag' = [bag EXCEPT ![k] = IF ht.counted THEN @ + 1 ELSE @]
           /\ UNCHANGED held
      ELSE /\ ht' = Add(ht, b.idx, e)
           /\ bag' = [bag EXCEPT ![k] = 1]
           /\ RetainEntry(e)

ReplaceAt(i, e) ==
  /\ ht' = [ht EXCEPT !.buckets[i] = e]
  /\ held' = [[held EXCEPT ![e] = @ + 1] EXCEPT ![ht.buckets[i]] = @ - 1]
  /\ UNCHANGED bag

HashReplaceValue(e) ==
  LET b == FindBucket(ht, KeyOf[e])
  IN  b.count > 0 /\ ReplaceAt(b.idx, e)

HashSetValue(e) ==
  LET b == FindBucket(ht, KeyOf[e]) IN
  \/ b.count > 0 /\ ReplaceAt(b.idx, e)
  \/ /\ b.count = 0
     /\ ht' = Add(ht, b.idx, e)
     /\ bag' = [bag EXCEPT ![KeyOf[e]] = 1]
     /\ RetainEntry(e)

HashRemoveValue(k) ==
  LET b == FindBucket(ht, k) IN
  /\ b.count > 0
  /\ bag' = [bag EXCEPT ![k] = @ - 1]
  /\ IF b.count > 1
     THEN ht' = [ht EXCEPT !.counts[b.idx] = @ - 1] /\ UNCHANGED held
     ELSE /\ ht' = Remove(ht, b.idx)
          /\ held' = [held EXCEPT ![ht.buckets[b.idx]] = @ - 1]

\* __CFBasicHashDrain
HashRemoveAllValues ==
  /\ ht.idx > 0
  /\ ht' = [Bare(ht, 0) EXCEPT !.used = 0]
  /\ bag' = [k \in Keys |-> 0]
  /\ held' = [e \in Entries |->
               held[e] - Cardinality({i \in Occupied(ht) : ht.buckets[i] = e})]

HashSetCapacity(capacity) ==
  /\ ht.used < capacity
  /\ ht' = Rehash(ht, capacity - ht.used)
  /\ UNCHANGED <<bag, held>>

HashNext ==
  \/ \E e \in Entries : HashAddValue(e) \/ HashReplaceValue(e) \/ HashSetValue(e)
  \/ \E k \in Keys : HashRemoveValue(k)
  \/ HashRemoveAllValues
  \/ \E n \in {TableCapacities[i] : i \in DOMAIN TableCapacities} :
       n <= Cardinality(Keys) /\ HashSetCapacity(n)

HashSpec == HashInit /\ [][HashNext]_hashVars

-----------------------------------------------------------------------------
\* CFBasicHashFindBucket: whatever was added, removed and rehashed before, a
\* search finds each key as often as it was added and not removed, in one
\* bucket, whose entry is retained once; and the marks are all counted, on
\* which reusing and clearing them depends.
HashIsBag ==
  /\ \A k \in Keys :
       LET b == FindBucket(ht, k)
       IN  b.count = bag[k] /\ (b.count > 0 => held[ht.buckets[b.idx]] = 1)
  /\ ht.used = Cardinality({k \in Keys : bag[k] > 0})
  /\ ht.used = Cardinality({e \in Entries : held[e] > 0})
  /\ ht.used = Cardinality(Occupied(ht))
  /\ ht.deleted = Cardinality(Marked(ht))
=============================================================================
