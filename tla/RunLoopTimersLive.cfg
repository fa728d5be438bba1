CONSTANTS
  Never = 99
  Limit = 256
  Timers = {x, y}
  Modes = {a}
  Clients = {c1}
  LoopThread = loop
  Allowed <- Moving
  Interval <- OnceAndTwo
  Tolerance <- OneLate
  FirstDates = {1}
  LastDate = 4
  MaxTime = 2
  MaxDepth = 1
  Early = 0
  c1 = c1
  a = a
  x = x
  y = y
SPECIFICATION FairSpec
PROPERTIES DueTimerFires
