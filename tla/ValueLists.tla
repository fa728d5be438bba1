----------------------------- MODULE ValueLists -----------------------------
(* What CFStorage.h promises: each storage is a list of values of its own.  *)
(* New values are garbage until they are replaced; the storage made from a  *)
(* range of another holds the same values, and from then on neither is      *)
(* changed by what is done to the other.                                    *)
EXTENDS ValueSequences

CONSTANTS Storages,
          None                  \* the contents of a storage that is not there

VARIABLE list                   \* the values of each storage

Init == list = [s \in Storages |-> None]

Become(s, values) == list' = [list EXCEPT ![s] = values]

CreateStorage(s) == Become(s, <<>>)

CreateWithSubrange(s, t, at, n) ==
  Become(t, SubSeq(list[s], at + 1, at + n))

InsertValues(s, at, n) == Become(s, Opened(list[s], at, n))

DeleteValues(s, at, n) == Become(s, Closed(list[s], at, n))

ReplaceValues(s, at, n, v) ==
  Become(s, Take(list[s], at) \o [i \in 1..n |-> v] \o Drop(list[s], at + n))

GetValues(s, at, n) == UNCHANGED list

Deallocate(s) == Become(s, None)
=============================================================================
