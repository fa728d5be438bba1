---------------------------- MODULE ContainersMC ----------------------------
(* The containers side by side, for TLC: the initial state says which one a *)
(* behaviour is about, and the others stay as they are.  Storages come in   *)
(* three kinds: one storage alone, with the capacity and size of the .cfg;  *)
(* two that share leaves; and two that share branches, whose values are     *)
(* never read or written.                                                   *)
EXTENDS Storage, TimerArrays

CONSTANTS s, t

VARIABLE kind           \* what this behaviour is about

Leafwise == INSTANCE Storage WITH Copies <- {t}, MaxCount <- 3
Branchwise == INSTANCE Storage WITH Copies <- {t}, MaxCount <- 4, MaxSize <- 1,
                                    MaxLeafCapacity <- 1, Values <- {}

ContainersInit ==
  /\ kind \in {"alone", "leafwise", "branchwise", "timers"}
  /\ Init
  /\ ArrayInit

ContainersNext ==
  /\ UNCHANGED kind
  /\ \/ kind = "alone" /\ Next /\ UNCHANGED array
     \/ kind = "leafwise" /\ Leafwise!Next /\ UNCHANGED array
     \/ kind = "branchwise" /\ Branchwise!Next /\ UNCHANGED array
     \/ kind = "timers" /\ ArrayNext /\ UNCHANGED vars

ContainersSpec == ContainersInit /\ [][ContainersNext]_<<vars, kind, array>>

\* The names of nodes do not matter: they are numbered as they are found from
\* the storages.
RECURSIVE Found(_, _)
Found(seen, todo) ==
  CASE todo = <<>> -> seen
    [] todo # <<>> /\ Head(todo) \in ToSet(seen) -> Found(seen, Tail(todo))
    [] OTHER -> Found(Append(seen, Head(todo)),
                      node[Head(todo)].kids \o Tail(todo))

InOrder == SetToSeq(Storages)

\* Nor does the range in a leaf that is not remembered, or where no values are
\* looked up.
Nameless ==
  LET found == Found(<<>>, SelectSeq(InOrder, There))
      number(n) == CHOOSE i \in DOMAIN found : found[i] = n
      used == IF kind = "branchwise" THEN {} ELSE Range(cacheNode) \ {None}
  IN  <<kind, array, crashed, list,
        [x \in Storages |-> IF There(x) THEN number(x) ELSE 0],
        [x \in Storages |-> IF cacheNode[x] \in used THEN number(cacheNode[x])
                                                     ELSE 0],
        [i \in DOMAIN found |->
           [node[found[i]] EXCEPT
              !.kids = [k \in DOMAIN @ |-> number(@[k])],
              !.range = IF found[i] \in used THEN @ ELSE <<0, 0>>]]>>

-----------------------------------------------------------------------------
\* TypeOK and CountsAreRight, and TreesAreSound with the capacity of each kind.
EachTreeIsSound ==
  /\ TypeOK
  /\ CountsAreRight
  /\ IF kind = "branchwise" THEN Branchwise!TreesAreSound ELSE TreesAreSound

\* SharedAreFrozen of storages that share leaves: CFStorageDeleteValues retains
\* the children of a frozen branch for the root without freezing them.
SharedLeavesAreFrozen == kind = "leafwise" => SharedAreFrozen

\* CacheIsRight of a storage alone: the leaf that two storages remember holds
\* the range of the one that looked last.
OwnCacheIsRight == kind = "alone" => CacheIsRight
=============================================================================
