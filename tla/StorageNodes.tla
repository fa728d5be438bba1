---------------------------- MODULE StorageNodes ----------------------------
(* CFStorage.c: what an operation does to one node of a tree, without the   *)
(* nodes above and below it.  Storage makes the operations of these.        *)
(* A value is one byte long; the memory of a leaf is as long as its         *)
(* contents, or not there yet (<<>>).  The operators thread a record m: the *)
(* nodes, the leaf that the storage at work remembers, and whether memory   *)
(* that is not there has been copied from.                                  *)
EXTENDS Naturals, SequencesExt, FiniteSetsExt, ValueSequences

CONSTANTS Storages,             \* each is the name of its root node
          Nodes,                \* the nodes on the heap: 1..n
          None,
          MaxLeafCapacity

ASSUME StorageNodesAssumption ==
  /\ Nodes \subseteq Nat
  /\ None \notin Nodes \cup Storages
  /\ MaxLeafCapacity \in Nat

Least(x, y)      == IF x < y THEN x ELSE y

\* Lazy memory stays lazy.
IfThere(mem, new) == IF mem = <<>> THEN <<>> ELSE new

Leaf(num, mem) == [leaf |-> TRUE, num |-> num, mem |-> mem, kids |-> <<>>,
                   refs |-> 1, frozen |-> FALSE, range |-> <<0, 0>>]
EmptyRoot == [Leaf(0, <<>>) EXCEPT !.refs = 0]

\* The values below the nodes kids, as their lengths say.
Length(m, kids) ==
  LET upTo[i \in 0..Len(kids)] ==
        IF i = 0 THEN 0 ELSE upTo[i - 1] + m.node[kids[i]].num
  IN  upTo[Len(kids)]

Branch(m, kids) == [Leaf(Length(m, kids), <<>>) EXCEPT !.leaf = FALSE,
                                                       !.kids = kids]

Fresh(m)       == Min({n \in Nodes : m.node[n] = None})
Create(m, new) == [m EXCEPT !.node[Fresh(m)] = new]

Retain(m, n) ==
  IF m.node[n].refs > 0 THEN [m EXCEPT !.node[n].refs = @ + 1] ELSE m

\* __CFStorageSetCache
Remember(m, n, at) == [m EXCEPT !.cache = n,
                                !.node[n].range = <<at, m.node[n].num>>]

-----------------------------------------------------------------------------
\* Looking for values.

Start(m, n, i) == Length(m, Take(m.node[n].kids, i - 1))

\* __CFStorageFindChild: for an insertion the end of a child is inside it.
FindChild(m, n, at, inserting) ==
  LET last(i) == Start(m, n, i) + m.node[m.node[n].kids[i]].num
  IN  Min({i \in DOMAIN m.node[n].kids :
             at < last(i) \/ (inserting /\ at = last(i))})

\* The part of a range that falls on the i-th child.
Overlap(m, n, i, at, size) ==
  LET start == Start(m, n, i)
      first == Max({at, start})
      last  == Least(at + size, start + m.node[m.node[n].kids[i]].num)
  IN  [at |-> first - start, size |-> Max({0, last - first})]

-----------------------------------------------------------------------------
\* Insertion returns m, the node that takes the place of n, and a sibling.

Result(m, child, sibling) == [m |-> m, child |-> child, sibling |-> sibling]

\* Where the values of a full leaf are divided between it and its sibling.
Cut(num, at, n) ==
  CASE at = num -> num
    [] at = 0 -> n
    [] OTHER -> Least(at + n, MaxLeafCapacity)

\* __CFStorageInsertLeafUnfrozen; a part that holds new values only is lazy.
InsertLeafUnfrozen(m, n, at, size, absolute) ==
  LET x     == m.node[n]
      mem   == IfThere(x.mem, Opened(x.mem, at, size))
      total == x.num + size
      cut   == Cut(x.num, at, size)
      left  == IF at = 0 THEN <<>> ELSE IfThere(mem, Take(mem, cut))
      right == IF at = x.num THEN <<>> ELSE IfThere(mem, Drop(mem, cut))
      two   == [Create(m, Leaf(total - cut, right))
                  EXCEPT !.node[n].num = cut, !.node[n].mem = left]
      one   == [m EXCEPT !.node[n].num = total, !.node[n].mem = mem]
  IN  IF total <= MaxLeafCapacity
      THEN Result(Remember(one, n, absolute - at), n, None)
      ELSE Result(IF at = x.num THEN Remember(two, Fresh(m), absolute)
                  ELSE IF at + size <= MaxLeafCapacity \/ at = 0
                  THEN Remember(two, n, absolute - at)
                  ELSE [Remember(two, n, absolute - at)  \* of the old length
                          EXCEPT !.node[n].range[2] = x.num],
                  n, Fresh(m))

\* __CFStorageInsertLeafFrozen: n stays as it is, and may be one of the two.
InsertLeafFrozen(m, n, at, size, absolute) ==
  LET x      == m.node[n]
      mem    == Opened(x.mem, at, size)
      total  == x.num + size
      one    == Create(m, Leaf(total, IfThere(x.mem, mem)))
      fresh  == Create(m, Leaf(size, <<>>))
      left   == Create(m, Leaf(MaxLeafCapacity, Take(mem, MaxLeafCapacity)))
      right  == Create(left, Leaf(total - MaxLeafCapacity,
                                  Drop(mem, MaxLeafCapacity)))
  IN  CASE total <= MaxLeafCapacity ->
             Result(Remember(one, Fresh(m), absolute - at), Fresh(m), None)
        [] total > MaxLeafCapacity /\ at = x.num ->
             Result(Remember(fresh, Fresh(m), absolute), n, Fresh(m))
        [] total > MaxLeafCapacity /\ at = 0 ->
             Result(Remember(Retain(fresh, n), Fresh(m), absolute),
                    Fresh(m), n)
        [] OTHER ->
             IF x.mem = <<>> THEN Result([m EXCEPT !.crashed = TRUE], n, None)
             ELSE Result(Remember(right, Fresh(m), absolute - at),
                         Fresh(m), Fresh(left))

\* The children of n after an insertion in the i-th.
Spliced(m, n, i, r) ==
  LET kids == [m.node[n].kids EXCEPT ![i] = r.child]
  IN  IF r.sibling = None THEN kids ELSE InsertAt(kids, i + 1, r.sibling)

\* The copy of a branch with its new children, and a sibling for two of four.
CopyWith(m, kids, size) ==
  LET left == Create(m, Branch(m, Take(kids, 2)))
  IN  IF Len(kids) < 4
      THEN Result(Create(m, [Branch(m, kids) EXCEPT !.num = size]), Fresh(m),
                  None)
      ELSE Result(Create(left, Branch(left, Drop(kids, 2))), Fresh(m),
                  Fresh(left))

\* A branch that takes its new children, or two of four.
TakeIn(m, n, kids, size) ==
  LET two == Take(kids, 2)
  IN  IF Len(kids) < 4
      THEN Result([m EXCEPT !.node[n].kids = kids, !.node[n].num = @ + size],
                  n, None)
      ELSE Result([Create(m, Branch(m, Drop(kids, 2))) EXCEPT
                     !.node[n].kids = two, !.node[n].num = Length(m, two)],
                  n, Fresh(m))

-----------------------------------------------------------------------------
\* Deletion returns m and the node that takes the place of n, or None.

\* __CFStorageDeleteLeafFrozen, and the leaves of __CFStorageDeleteUnfrozen
DeleteFromLeaf(m, n, at, size, frozen) ==
  LET left == m.node[n].num - size
      mem  == IfThere(m.node[n].mem, Closed(m.node[n].mem, at, size))
  IN  IF frozen THEN [m |-> Create(m, Leaf(left, mem)), node |-> Fresh(m)]
      ELSE [m |-> Retain([m EXCEPT !.node[n].num = left,
                                   !.node[n].mem = mem], n),
            node |-> n]

-----------------------------------------------------------------------------
\* What the integrity of a node means (__CFStorageCheckNodeIntegrity).

\* The values of a leaf, garbage where memory is not there yet.
LeafValues(x) == IF x.mem = <<>> THEN Gap(x.num) ELSE x.mem

LeafIsSound(x) ==
  /\ x.num <= MaxLeafCapacity
  /\ x.mem = <<>> \/ Len(x.mem) = x.num

BranchIsSound(m, x) ==
  /\ x.num = Length(m, x.kids)
  /\ Len(x.kids) >= 2
=============================================================================
