CONSTANTS
  s = s
  t = t
  Never = 99
  Limit = 4
  FireDates = {0, 1, 2, 3}
  Tolerances = {0, 1, 3}
  MaxLen = 6
  Storages = {s, t}
  Values = {1}
  Garbage = 0
  None = none
  Nodes = {1, 2, 3, 4, 5, 6, 7, 8, 9, 10, 11, 12, 13, 14, 15, 16, 17, 18}
  MaxLeafCapacity = 2
  MaxCount = 5
  MaxSize = 2
  Created = {s}
  Copies = {}
SPECIFICATION ContainersSpec
VIEW Nameless
INVARIANTS TreesAreLists EachTreeIsSound SharedLeavesAreFrozen OwnCacheIsRight SearchAndScanAreRight
CHECK_DEADLOCK FALSE
