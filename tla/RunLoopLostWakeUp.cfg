CONSTANTS
  Loop = loop
  Clients = {c1}
  Modes = {a, b}
  Sources0 = {s1, s2}
  Sources1 = {}
  Blocks = {}
  ModesOf <- TwoModes
  BlockModes <- BlocksInA
  Order <- SameOrder
  MainModes = {}
  Calls <- OneCall
  MaxDepth = 2
  a = a
  b = b
  s1 = s1
  s2 = s2
  p1 = p1
  b1 = b1
  b2 = b2
  b3 = b3
SPECIFICATION Spec
INVARIANTS WakeUpNeverLost
