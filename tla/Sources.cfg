CONSTANTS
  Threads = {t1, t2}
  Loops = {l1, l2}
  Modes = {a, b}
  Sources = {s1}
  Common = {a}
  Ops <- Operations
  t1 = t1
  t2 = t2
  a = a
  b = b
  s1 = s1
  s2 = s2
  SocketLoops = {l1, l2}
  SocketKinds <- EachKind
  MaxQueue = 2
  NoItem = none
  l1 = l1
  l2 = l2
SPECIFICATION SourcesSpec
SYMMETRY Symmetry
INVARIANTS TypeOK CalloutsBalance BagCountsModes InvalidLeaves CommonItemsEverywhere  NothingForgotten FdsAreOwned
CHECK_DEADLOCK FALSE
