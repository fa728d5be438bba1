CONSTANTS
  Threads = {t1, t2, t3}
  Objects = {o1, o2}
  Refs = {r1, r2, r3}
  Bytes = {b1, b2}
  None = none
  Pthreads = {p1, p2}
  Main = p1
  Loops = {1, 2, 3, 4}
  NoLoop = none
  Iterations = 4
  Callers = {c1, c2}
  Callbacks = {k1, k2, k3, none}
  Null = none
  Limit = 3
  Size = 5
  Entries = {1, 2, 3, 4, 5, 6}
  KeyOf <- EntryKeys
  HashCode <- KeyCodes
  Empty = empty
  Deleted = deleted
  TableSizes <- SmallSizes
  TableCapacities <- SmallCapacities
  CountLimits <- SmallLimits
  DeletedLimit = 3
  PurgeSize = 9
  ShrinkSteps <- SmallSteps
  MaxBag = 2
  PortUsers = {u1, u2}
  PortNames = {q1}
  SendPorts = {q1}
  MachPorts = {m1}
  PortSources = {s1, s2}
  Nothing = nothing
  u1 = u1
  m1 = m1
  m2 = m2
  s1 = s1
SPECIFICATION TablesSpec
INVARIANTS CountsAreExact OneFinalizer TableIsFresh LoopsCounted AnswersAgree DeadHaveNoLoop FreedOutsideLock IndexLeadsToPtr HashIsBag ComesApart InfoKept
PROPERTIES KeepsReferences FoundInTime ReleaseReturns
