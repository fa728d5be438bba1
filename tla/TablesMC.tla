------------------------------ MODULE TablesMC ------------------------------
(* The tables beneath the collections and those that all threads share, for *)
(* TLC: the initial state says which one a behaviour is about, and the      *)
(* others stay as they are.                                                 *)
EXTENDS UUIDs, RunLoopRegistry, CallBackPtrs, BasicHash, MachPort

CONSTANTS u1, m1, m2, s1

\* The last two entries: an equal of the first, and one alone in its bucket.
EntryKeys == [e \in Entries |-> IF e = 5 THEN 1 ELSE e]
KeyCodes  == [k \in Entries \ {5} |-> <<0, 0, 1, 2, 0, 3>>[k]]
SmallSizes      == [i \in 0 .. 5 |-> <<0, 2, 3, 5, 9, 11>>[i + 1]]
SmallCapacities == [i \in 0 .. 5 |-> <<0, 2, 3, 4, 6, 8>>[i + 1]]
SmallLimits     == [w \in 0 .. 3 |-> w + 1]
SmallSteps      == [fast \in BOOLEAN |-> IF fast THEN 3 ELSE 2]

\* Two threads share one Mach port object in the instance that EXTENDS brings
\* in; in this one a thread has several.
Several == INSTANCE MachPort WITH PortUsers <- {u1}, MachPorts <- {m1, m2},
                                  PortSources <- {s1}

VARIABLE kind           \* what this behaviour is about

tablesVars == <<kind, uuidVars, registryVars, ptrsVars, hashVars, machVars>>

TablesInit ==
  /\ kind \in {"uuids", "registry", "callbacks", "hash", "port", "ports"}
  /\ UUIDInit /\ RegistryInit /\ PtrsInit
  /\ IF kind = "ports" THEN Several!MachInit ELSE MachInit
  /\ HashInit /\ (kind # "hash" => ~ht.fast /\ ~ht.counted)

TablesNext ==
  /\ UNCHANGED kind
  /\ \/ kind = "uuids" /\ UUIDNext
     \/ kind # "uuids" /\ UNCHANGED uuidVars
  /\ \/ kind = "registry" /\ RegistryNext
     \/ kind # "registry" /\ UNCHANGED registryVars
  /\ \/ kind = "callbacks" /\ PtrsNext
     \/ kind # "callbacks" /\ UNCHANGED ptrsVars
  /\ \/ kind = "hash" /\ HashNext
     \/ kind # "hash" /\ UNCHANGED hashVars
  /\ \/ kind = "port" /\ MachNext
     \/ kind = "ports" /\ Several!MachNext
     \/ kind \notin {"port", "ports"} /\ UNCHANGED machVars

\* The fairness of FairUUIDSpec: a thread inside CFRelease keeps running.
TablesSpec ==
  /\ TablesInit /\ [][TablesNext]_tablesVars
  /\ \A x \in Threads :
       WF_tablesVars(/\ kind = "uuids"
                     /\ Deallocate(x) \/ (work[x].at # "idle" /\ Counting(x))
                     /\ UNCHANGED <<kind, registryVars, ptrsVars, hashVars>>
                     /\ UNCHANGED machVars)
=============================================================================
