CONSTANTS
  Never = 99
  Limit = 256
  Timers = {x, y}
  Modes = {a, b}
  Clients = {c1}
  LoopThread = loop
  Allowed <- NoDates
  Interval <- TwoAndOne
  Tolerance <- BothLate
  FirstDates = {1}
  LastDate = 4
  MaxTime = 2
  MaxDepth = 2
  Early = 0
  c1 = c1
  a = a
  x = x
  y = y
SPECIFICATION EitherSpec
INVARIANTS ArraysSorted EveryTimerArmed FiresInTurn
