CONSTANTS
  Storages = {s, t}
  Values = {1}
  Garbage = 0
  None = none
  Nodes = {1, 2, 3, 4, 5, 6, 7, 8, 9, 10, 11, 12, 13, 14, 15, 16, 17, 18}
  MaxLeafCapacity = 1
  MaxCount = 4
  MaxSize = 1
  Created = {s}
  Copies = {t}
SPECIFICATION Spec
INVARIANT WritableIsOwn
CHECK_DEADLOCK FALSE
