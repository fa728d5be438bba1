CONSTANTS
  Never = 99
  Limit = 256
  Timers = {x, y}
  Modes = {a, b}
  Clients = {}
  LoopThread = loop
  Allowed <- FromCallouts
  Interval <- Both
  Tolerance <- None
  FirstDates = {1}
  LastDate = 4
  MaxTime = 2
  MaxDepth = 1
  Early = 0
  c1 = c1
  a = a
  x = x
  y = y
SPECIFICATION Spec
INVARIANTS EveryTimerArmed
