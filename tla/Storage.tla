------------------------------ MODULE Storage ------------------------------
(* CFStorage.c: values kept in a tree of nodes with at most three children. *)
(* Storages share nodes: a node that is frozen is not changed in place      *)
(* unless its count shows that no other storage refers to it.  Each storage *)
(* remembers the leaf it used last; the range of values in that leaf is     *)
(* kept in the leaf.                                                        *)
(* The root node is part of the storage and is named after it.  Garbage     *)
(* collection and the option that freezes every new node are left out.      *)
(* Every call is also made on the lists of values that CFStorage.h          *)
(* describes: what a storage promises is that its tree holds its list.      *)
EXTENDS StorageNodes

CONSTANTS Values,
          Created,              \* the storages that CFStorageCreate makes
          Copies,               \* those that are made from them
          MaxSize,              \* bound: values that one call is about
          MaxCount              \* bound: values in a storage

VARIABLES node,                 \* the nodes, roots included
          cacheNode,            \* the leaf each storage remembers
          crashed,              \* the process has copied from NULL
          list                  \* the values, as CFStorage.h describes them

vars == <<node, cacheNode, crashed, list>>

L == INSTANCE ValueLists

Node == [leaf : BOOLEAN, num : 0..MaxCount,     \* numBytes
         mem : Seq(Values \cup {Garbage}),
         kids : Seq(Nodes),
         refs : Nat, frozen : BOOLEAN,
         range : (0..MaxCount) \X (0..MaxCount)] \* cachedRange

TypeOK ==
  /\ DOMAIN node = Nodes \cup Storages
  /\ \A n \in Nodes \cup Storages :
       node[n] # None => node[n] \in Node /\ Len(node[n].kids) <= 3
  /\ cacheNode \in [Storages -> Nodes \cup Storages \cup {None}]
  /\ crashed \in BOOLEAN

-----------------------------------------------------------------------------
\* Counting and freezing.

RetainAll(m, kids) == FoldLeft(Retain, m, kids)

\* __CFStorageReleaseNode and __CFStorageDeallocateNode
RECURSIVE Release(_, _)
Release(m, n) ==
  CASE m.node[n].refs = 0 -> m
    [] m.node[n].refs > 1 -> [m EXCEPT !.node[n].refs = @ - 1]
    [] OTHER -> FoldLeft(Release, [m EXCEPT !.node[n] = None],
                         m.node[n].kids)

ReleaseAll(m, kids) == FoldLeft(Release, m, kids)

Freeze(m, n)       == [m EXCEPT !.node[n].frozen = TRUE]
FreezeAll(m, kids) == FoldLeft(Freeze, m, kids)

\* Mutant: the reference of another storage is overlooked.
ThawedForTwo(m, n) ==
  IF m.node[n].refs <= 2 THEN [m EXCEPT !.node[n].frozen = FALSE] ELSE m

\* __CFStorageThawNodeDuringMutation, as it is called: a frozen node whose only
\* reference is ours is not frozen from now on.
Thawed(m, n) == IF m.node[n].refs = 1 THEN [m EXCEPT !.node[n].frozen = FALSE]
                                      ELSE m

Duplicate(m, n) ==
  RetainAll(Create(m, [m.node[n] EXCEPT !.refs = 1, !.frozen = FALSE,
                                        !.range = <<0, 0>>]),
            m.node[n].kids)

\* __CFStorageCopyNode
Copy(m, n) == IF m.node[n].frozen
              THEN FreezeAll(Duplicate(m, n), m.node[n].kids)
              ELSE Duplicate(m, n)

-----------------------------------------------------------------------------
\* Looking for values.

Forget(m)          == [m EXCEPT !.cache = None]

\* __CFStorageAllocLeafNodeMemory
Allocate(m, n) ==
  [m EXCEPT !.node[n].mem = IF @ = <<>> THEN Gap(m.node[n].num) ELSE @]

\* The i-th child of n, thawed or replaced by a copy.
Unfrozen(m, n, i) ==
  LET kid == m.node[n].kids[i]
      replaced(t) ==
        IF t.node[kid].frozen
        THEN Release([Copy(t, kid) EXCEPT !.node[n].kids[i] = Fresh(t)], kid)
        ELSE t
  IN  replaced(Thawed(m, kid))

\* __CFStorageFindByte: the leaf, where it begins, and m with it allocated.
RECURSIVE FindByte(_, _, _, _, _)
FindByte(m, n, at, offset, thaw) ==
  LET i     == FindChild(m, n, at, FALSE)
      start == Start(m, n, i)
      below(t) == FindByte(t, t.node[n].kids[i], at - start, offset + start,
                           thaw)
  IN  IF m.node[n].leaf
      THEN [m |-> Allocate(m, n), leaf |-> n, from |-> offset]
      ELSE below(IF thaw THEN Unfrozen(m, n, i) ELSE m)

\* __CFStorageGetFromCache finds the value in the leaf it remembers.
Cached(m, at, thaw) ==
  /\ m.cache # None
  /\ ~(thaw /\ m.node[m.cache].frozen)
  /\ LET r == m.node[m.cache].range IN at >= r[1] /\ at < r[1] + r[2]

\* __CFStorageGetValueAtIndex: the leaf with the value, and the range in it.
GetValueAtIndex(m, s, at, thaw) ==
  LET tried == IF m.cache # None /\ ~(thaw /\ m.node[m.cache].frozen)
               THEN Allocate(m, m.cache) ELSE m
      from(f) == [m |-> Remember(f.m, f.leaf, f.from), leaf |-> f.leaf,
                  range |-> <<f.from, f.m.node[f.leaf].num>>]
  IN  IF Cached(m, at, thaw)
      THEN [m |-> tried, leaf |-> m.cache, range |-> m.node[m.cache].range]
      ELSE from(FindByte(tried, s, at, 0, thaw))

-----------------------------------------------------------------------------
\* Mutant: the child that is replaced keeps the reference taken for the copy.
KeptAll(old, i, r) == FreezeAll(RetainAll(r.m, old), old)

\* The children of a frozen node stay, for another; the replaced one does not.
Kept(old, i, r) ==
  LET frozen == FreezeAll(RetainAll(r.m, old), old)
  IN  IF r.child = old[i] THEN frozen ELSE Release(frozen, old[i])

\* __CFStorageInsertFrozen, __CFStorageInsertBranchFrozen
RECURSIVE InsertFrozen(_, _, _, _, _)
InsertFrozen(m, n, at, size, absolute) ==
  LET i        == FindChild(m, n, at, TRUE)
      old      == m.node[n].kids
      above(r) == CopyWith(Kept(old, i, r), Spliced(r.m, n, i, r),
                           m.node[n].num + size)
  IN  IF m.node[n].leaf THEN InsertLeafFrozen(m, n, at, size, absolute)
      ELSE above(InsertFrozen(m, old[i], at - Start(m, n, i), size,
                              absolute))

\* __CFStorageInsertUnfrozen, __CFStorageInsertBranchUnfrozen and the dispatch
\* of __CFStorageInsert.
RECURSIVE InsertUnfrozen(_, _, _, _, _)
InsertUnfrozen(m, n, at, size, absolute) ==
  LET i    == FindChild(m, n, at, TRUE)
      kid  == m.node[n].kids[i]
      in   == at - Start(m, n, i)
      below(t) == IF t.node[kid].frozen
                  THEN InsertFrozen(t, kid, in, size, absolute)
                  ELSE InsertUnfrozen(t, kid, in, size, absolute)
      above(r) == TakeIn(IF r.child = kid THEN r.m ELSE Release(r.m, kid), n,
                         Spliced(r.m, n, i, r), size)
  IN  IF m.node[n].leaf THEN InsertLeafUnfrozen(m, n, at, size, absolute)
      ELSE above(below(Thawed(m, kid)))

\* Mutant: the cache still has the root, which was a leaf.
DeepenedOnly(s, r) ==
  LET heap == Create(r.m, [r.m.node[s] EXCEPT !.refs = 1])
  IN  IF r.sibling = None THEN r.m
      ELSE [heap EXCEPT !.node[s] = [Branch(heap, <<Fresh(r.m), r.sibling>>)
                                       EXCEPT !.refs = 0]]

\* The root that has a sibling gets a new root above it: itself.
Deepened(s, r) ==
  LET root == r.m.node[s]
      heap == Create(r.m, [root EXCEPT !.refs = 1])
  IN  IF r.sibling = None THEN r.m
      ELSE [heap EXCEPT
              !.node[s] = [Branch(heap, <<Fresh(r.m), r.sibling>>)
                             EXCEPT !.refs = 0],
              !.cache = IF root.leaf THEN None ELSE @]

\* CFStorageInsertValues
RECURSIVE Insert(_, _, _, _)
Insert(m, s, at, size) ==
  LET now == Least(size, MaxLeafCapacity)
  IN  IF size = 0 THEN m
      ELSE Insert(Deepened(s, InsertUnfrozen(m, s, at, now, at)),
                  s, at + now, size - now)

-----------------------------------------------------------------------------
\* __CFStorageDeleteBranchFrozen, and the branches of the other
DeleteFromBranch(rest, n, size, frozen) ==
  LET x    == rest.m.node[n]
      ours == ReleaseAll(rest.m, x.kids)
      put(k) == [ours EXCEPT !.node[n].num = x.num - size, !.node[n].kids = k]
      new  == [Branch(rest.m, rest.kids) EXCEPT !.num = x.num - size]
  IN  CASE Len(rest.kids) = 1 ->
             [m |-> IF frozen THEN rest.m ELSE put(<<>>),
              node |-> rest.kids[1]]
        [] Len(rest.kids) > 1 /\ frozen ->
             [m |-> Create(rest.m, new), node |-> Fresh(rest.m)]
        [] OTHER -> [m |-> Retain(put(rest.kids), n), node |-> n]

\* __CFStorageDeleteFrozen, __CFStorageDeleteUnfrozen, and a child's turn in
\* __CFStoragePopulateBranchChildrenAfterDeletion
RECURSIVE Delete(_, _, _, _, _), DeleteFromChild(_, _, _, _)
DeleteFromChild(done, kid, part, frozen) ==
  LET more(r) == [m |-> r.m, kids |-> IF r.node = None THEN done.kids
                                      ELSE Append(done.kids, r.node)]
      kept == Retain(done.m, kid)
      from(t) == Delete(t, kid, part.at, part.size,
                        frozen \/ t.node[kid].frozen)
  IN  IF part.size = 0
      THEN [m |-> IF frozen THEN Freeze(kept, kid) ELSE kept,
            kids |-> Append(done.kids, kid)]
      ELSE more(from(IF frozen THEN done.m ELSE Thawed(done.m, kid)))

Delete(m, n, at, size, frozen) ==
  LET x == m.node[n]
      turn(done, i) == DeleteFromChild(done, x.kids[i],
                                       Overlap(m, n, i, at, size), frozen)
  IN  CASE size = x.num -> [m |-> m, node |-> None]
        [] size < x.num /\ x.leaf -> DeleteFromLeaf(m, n, at, size, frozen)
        [] OTHER ->
             DeleteFromBranch(FoldLeft(turn, [m |-> m, kids |-> <<>>],
                                       [i \in DOMAIN x.kids |-> i]),
                              n, size, frozen)

\* __CFStorageClearRootNode
ClearRootNode(m, s) ==
  [ReleaseAll(m, m.node[s].kids) EXCEPT !.node[s] = EmptyRoot]

\* CFStorageDeleteValues: the guts of a new root are moved or copied.
DeleteRange(m, s, at, size) ==
  LET guts(r, x) == [RetainAll(r.m, x.kids) EXCEPT
                       !.node[s] = [x EXCEPT !.refs = 0, !.frozen = FALSE,
                                             !.range = <<0, 0>>]]
      after(r) == CASE r.node = None -> ClearRootNode(r.m, s)
                    [] r.node = s -> r.m
                    [] OTHER -> Release(guts(r, r.m.node[r.node]), r.node)
  IN  after(Delete(Forget(m), s, at, size, FALSE))

-----------------------------------------------------------------------------
\* CFStorageReplaceValues
RECURSIVE Replace(_, _, _, _)
Replace(m, s, at, values) ==
  LET more(g) ==
        LET in  == at - g.range[1]
            now == Least(Len(values), g.range[2] - in)
        IN  Replace([g.m EXCEPT !.node[g.leaf].mem =
                       Take(@, in) \o Take(values, now) \o Drop(@, in + now)],
                    s, at + now, Drop(values, now))
  IN  IF values = <<>> THEN m ELSE more(GetValueAtIndex(m, s, at, TRUE))

\* CFStorageGetValues
RECURSIVE Get(_, _, _, _)
Get(m, s, at, size) ==
  LET more(g) ==
        LET now == Least(size, g.range[2] - (at - g.range[1]))
        IN  Get(g.m, s, at + now, size - now)
  IN  IF size = 0 THEN m ELSE more(GetValueAtIndex(m, s, at, FALSE))

\* _CFStorageFindNodeContainingByteRange: the node, and the range's place
\* in it.
RECURSIVE Containing(_, _, _, _)
Containing(m, n, at, size) ==
  LET holds(i) ==
        LET start == Start(m, n, i) IN
        /\ at >= start
        /\ at + size <= start + m.node[m.node[n].kids[i]].num
      i == CHOOSE k \in DOMAIN m.node[n].kids : holds(k)
  IN  IF \E k \in DOMAIN m.node[n].kids : holds(k)
      THEN Containing(m, m.node[n].kids[i], at - Start(m, n, i), size)
      ELSE [node |-> n, at |-> at]

\* The values of a leaf go to a leaf of t's own.
ShareLeaf(m, t, x, at, size) ==
  LET new == Insert(m, t, 0, size)
  IN  IF x.mem = <<>> THEN new
      ELSE Replace(new, t, 0, SubSeq(x.mem, at + 1, at + size))

\* Mutant: the children are shared as they are.
AdoptWarm(m, t, x) ==
  [RetainAll(m, x.kids) EXCEPT
     !.node[t] = [EmptyRoot EXCEPT !.leaf = FALSE, !.num = x.num,
                                   !.kids = x.kids]]

\* The children of a branch are frozen, and the root of t has them too.
Adopt(m, t, x) ==
  [RetainAll(FreezeAll(m, x.kids), x.kids) EXCEPT
     !.node[t] = [EmptyRoot EXCEPT !.leaf = FALSE, !.num = x.num,
                                   !.kids = x.kids]]

\* What t does not want of them is deleted.
ShareBranch(m, t, x, at, size) ==
  LET after   == x.num - (at + size)
      trim(h) == IF at > 0 THEN DeleteRange(h, t, 0, at) ELSE h
      all     == Adopt(m, t, x)
  IN  trim(IF after > 0 THEN DeleteRange(all, t, at + size, after) ELSE all)

\* CFStorageCreateWithSubrange, with t's root empty in m.
Share(m, s, t, at, size) ==
  LET of(c) == LET x == m.node[c.node] IN
        IF x.leaf THEN ShareLeaf(m, t, x, c.at, size)
                  ELSE ShareBranch(m, t, x, c.at, size)
  IN  of(Containing(m, s, at, size))

-----------------------------------------------------------------------------
\* The leaves below n from the first to the last.
RECURSIVE Leaves(_, _)
Leaves(nodes, n) ==
  IF nodes[n].leaf THEN <<n>>
  ELSE FlattenSeq([i \in DOMAIN nodes[n].kids |->
                     Leaves(nodes, nodes[n].kids[i])])

There(s) == node[s] # None
Count(s) == node[s].num

Image(s) == [node |-> node, cache |-> cacheNode[s], crashed |-> FALSE]

\* The call on storage s returns with m, unless it has crashed.
Return(s, m) ==
  IF m.crashed THEN crashed' = TRUE /\ UNCHANGED <<node, cacheNode>>
  ELSE /\ node' = m.node /\ cacheNode' = [cacheNode EXCEPT ![s] = m.cache]
       /\ UNCHANGED crashed

Init ==
  /\ node = [n \in Nodes \cup Storages |-> None]
  /\ cacheNode = [s \in Storages |-> None]
  /\ crashed = FALSE
  /\ L!Init

\* CFStorageCreate
CreateStorage(s) ==
  ~There(s) /\ Return(s, [Image(s) EXCEPT !.node[s] = EmptyRoot])

CreateWithSubrange(s, t, at, size) ==
  /\ ~There(t)
  /\ Return(t, Share([Image(t) EXCEPT !.node[t] = EmptyRoot], s, t, at, size))

InsertValues(s, at, size) ==
  Count(s) + size <= MaxCount /\ Return(s, Insert(Image(s), s, at, size))

DeleteValues(s, at, size) == Return(s, DeleteRange(Image(s), s, at, size))

ReplaceValues(s, at, size, v) ==
  Return(s, Replace(Image(s), s, at, [i \in 1..size |-> v]))

GetValues(s, at, size) == Return(s, Get(Image(s), s, at, size))

\* __CFStorageDeallocate
Deallocate(s) ==
  LET m == [ClearRootNode(Image(s), s) EXCEPT !.node[s] = None]
  IN  Return(s, Forget(m))

\* Each call, and what it makes of the lists.
Next == ~crashed /\
  \/ \E s \in Created : CreateStorage(s) /\ L!CreateStorage(s)
  \/ \E s \in Storages : There(s) /\
       \/ Deallocate(s) /\ L!Deallocate(s)
       \/ \E at \in 0..Count(s), size \in 1..MaxSize :
            \/ InsertValues(s, at, size) /\ L!InsertValues(s, at, size)
            \/ at + size <= Count(s) /\
                 \/ \E v \in Values : /\ ReplaceValues(s, at, size, v)
                                      /\ L!ReplaceValues(s, at, size, v)
                 \/ /\ Values # {}
                    /\ GetValues(s, at, size)
                    /\ L!GetValues(s, at, size)
       \/ \E at \in 0..Count(s), size \in 1..MaxCount :
            at + size <= Count(s) /\
              \/ DeleteValues(s, at, size) /\ L!DeleteValues(s, at, size)
              \/ s \in Created /\ \E t \in Copies :
                   /\ CreateWithSubrange(s, t, at, size)
                   /\ L!CreateWithSubrange(s, t, at, size)

Spec == Init /\ [][Next]_vars

-----------------------------------------------------------------------------
\* The values below a node, garbage where memory is not there yet.
RECURSIVE Below(_, _)
Below(nodes, n) ==
  IF nodes[n].leaf THEN LeafValues(nodes[n])
  ELSE FoldLeft(LAMBDA vs, k : vs \o Below(nodes, k), <<>>, nodes[n].kids)

Contents(s) == IF There(s) THEN Below(node, s) ELSE None

\* The trees are the lists: insertion, deletion and sharing put each value
\* where CFStorage.h says, and no storage is changed by what is done to another
\* ("a form of copy-on-write").
TreesAreLists == ~crashed => \A s \in Storages : Contents(s) = list[s]

\* __CFStorageCheckNodeIntegrity: the lengths kept in the branches are those of
\* their children, no leaf below a root is empty or too long, and a branch has
\* at least two children.
TreesAreSound == \A n \in Nodes \cup Storages : node[n] # None =>
  IF node[n].leaf THEN LeafIsSound(node[n]) /\ (n \in Nodes => node[n].num > 0)
                  ELSE BranchIsSound([node |-> node], node[n])

\* A node is there as long as another refers to it, and is counted once for
\* each: nothing leaks, nothing dangles.
CountsAreRight == \A n \in Nodes :
  LET parents == {p \in Nodes \cup Storages :
                    node[p] # None /\ n \in ToSet(node[p].kids)}
  IN  IF node[n] = None THEN parents = {}
      ELSE node[n].refs = Cardinality(parents) /\ parents # {}

\* "If a node is frozen, all of its descendants should be considered frozen":
\* on the way to a node that two others refer to there is a frozen one.
SharedAreFrozen == \A n \in Nodes :
  node[n] # None /\ node[n].refs > 1 /\ ~node[n].frozen =>
    \A p \in Nodes \cup Storages :
      node[p] # None /\ n \in ToSet(node[p].kids) => node[p].frozen

\* A storage that remembers a leaf knows where in it the leaf begins, so that
\* a value found without a look at the tree is the right one.
CacheIsRight == \A s \in Storages : cacheNode[s] # None =>
  LET ls == Leaves(node, s) IN
  \E i \in DOMAIN ls :
    /\ ls[i] = cacheNode[s]
    /\ node[ls[i]].range[1] = Length([node |-> node], Take(ls, i - 1))
    /\ node[ls[i]].range[2] <= node[ls[i]].num

\* "If a node is frozen, all of its descendants should be considered frozen":
\* a leaf that a storage remembers, and would write to because the leaf itself
\* is not frozen, is in no other storage.
WritableIsOwn == \A s \in Storages :
  cacheNode[s] # None /\ ~node[cacheNode[s]].frozen =>
    \A t \in Storages \ {s} :
      There(t) => cacheNode[s] \notin ToSet(Leaves(node, t))
=============================================================================
